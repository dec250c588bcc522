SPECIFICATION MCSpec
CONSTANTS
  LastMigration = 2
  Migrators = {m1, m2}
  Seeders = {s1, s2}
  FullSeeders = {full1, full2}
  NoMigrator = nobody
  MaxQuotes = 6
SYMMETRY Interchangeable
INVARIANTS
  MigratorsDoNotCollide
  ReferenceRowsOnce
  SeededQuotesAreLegal
