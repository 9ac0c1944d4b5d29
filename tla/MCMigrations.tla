---------------------------- MODULE MCMigrations ----------------------------
(* Small instances of Migrations: every graph of three revisions.          *)
EXTENDS Migrations, TLC

CONSTANTS u1, u2

ThreeRevisions == {1, 2, 3}
TwoUpgrades    == {u1, u2}

\* No predecessor, or one at a migration that the graphs put anywhere.
NoneOrTwo == {None, 2}

Symmetry == Permutations(Upgrades)
=============================================================================
