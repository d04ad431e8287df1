SPECIFICATION Spec
SYMMETRY Symmetry
CONSTANTS
  Owner = {o1, o2}
  Providers = {"cloudflare", "route53", "googlecloud", "digitalocean"}
  MaxFaults = 1
  MaxCrashes = 1
INVARIANTS TypeOK ForeignIsUntouched NoDuplicates MarkersAreKept EnsuredIsExclusive
