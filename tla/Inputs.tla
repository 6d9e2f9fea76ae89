------------------------------- MODULE Inputs -------------------------------
(***************************************************************************)
(* What the manager takes from files other people write: packages           *)
(* (Packages) and recipes (Recipes), side by side.  They share nothing.     *)
(***************************************************************************)
EXTENDS Packages

CONSTANTS Paths, Inodes, Rooted, Irregular, Texts, MaxLen, MaxFiles, None

VARIABLES link, text, paths, at, fd, size, recipe, start, ends

R == INSTANCE Recipes

\* FromRootsOnly of Recipes: no byte of a recipe comes from outside the roots.
FromRootsOnly == R!FromRootsOnly

\* JoinedWithinLimit of Recipes: recipes are bounded, and their files kept apart.
JoinedWithinLimit == R!JoinedWithinLimit

=============================================================================
