SPECIFICATION Spec
CONSTANTS
  core = core
  sql = sql
  cloudflare = cloudflare
  r1 = r1
  r2 = r2
  Packages = {core, sql, cloudflare}
  DepsOf <- MCDepsOf
  Runs = {r1, r2}
  MaxVersion <- MCMaxVersion
SYMMETRY RunSymmetry
INVARIANTS TypeOK DependenciesFirst SuccessMeansPublished RerunCompletes
