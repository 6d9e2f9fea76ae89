------------------------------ MODULE MCInputs ------------------------------
(***************************************************************************)
(* What the manager takes from files other people write, in small          *)
(* instances: a recipe (Recipes), a package (Packages), or the byte strings *)
(* of a package's manifest (ByteStrings).  A behaviour reads one of them.   *)
(***************************************************************************)
EXTENDS Inputs, Notation, TLC

CONSTANTS
  p, inside, beyond, device,
  one, copy, two, broken

VARIABLE reads   \* which of the three this behaviour is about

recipeVars == <<link, text, paths, at, fd, size, recipe, start, ends>>
stringVars == <<source, of, rest, bytes, verdict>>

ASSUME R!RecipeAssumption /\ PackageAssumption /\ B!StringAssumption

MCTexts == {<<>>, <<"a">>, <<"\n">>, <<"a", "a">>, <<"a", "\n">>}

\* Two copies of a version, another version, and a package that does not load: its
\* module is a symlink into another one.
MCKey ==
  (one :> [name |-> "s", version |-> "1"]) @@ (copy :> [name |-> "s", version |-> "1"]) @@
  (two :> [name |-> "s", version |-> "2"]) @@ (broken :> [name |-> "s", version |-> "2"])
MCPrepares == [q \in Package |-> IF q = two THEN {"data"} ELSE {}]
MCRuns == [q \in Package |-> {"main"}]
MCLeads ==
  [q \in Package |-> ("main" :> IF q = broken THEN two ELSE q) @@ ("data" :> IF q = two THEN q ELSE Missing)]
Copies == Permutations({one, copy})
MCChildren == [a |-> {1, 2}, b |-> {1}]
MCFlags == {<<>>, <<"b">>}
MCEnvironment == {Missing, <<"", "b", "a">>}
MCHome == {<<>>, <<"a">>}
MCSystem == <<"b">>

-----------------------------------------------------------------------------
NoRecipe ==
  /\ link = [path \in Paths |-> None] /\ text = [i \in Inodes \ Irregular |-> <<>>] /\ paths = <<>>
  /\ at = "none" /\ fd = None /\ size = 0 /\ recipe = <<>> /\ start = 0 /\ ends = {}

NoPackages ==
  /\ search = <<>> /\ links = [q \in Places |-> Missing] /\ installed = {} /\ kept = links
  /\ step = "failed" /\ todo = <<>> /\ unlisted = {} /\ found = {} /\ dir = Missing
  /\ manifest = Missing /\ index = [k \in Keys |-> <<>>] /\ request = Missing /\ host = Missing
  /\ changes = 0

NoString == source = <<>> /\ of = <<>> /\ rest = <<>> /\ bytes = <<>> /\ verdict = "ok"

MCInit ==
  \/ reads = "recipe" /\ R!Init /\ NoPackages /\ NoString
  \/ reads = "package" /\ Init /\ NoRecipe /\ NoString
  \/ reads = "string" /\ B!Init /\ NoRecipe /\ NoPackages

MCNext ==
  /\ UNCHANGED reads
  /\ \/ reads = "recipe" /\ R!Next /\ UNCHANGED <<vars, stringVars>>
     \/ reads = "package" /\ Next /\ UNCHANGED <<recipeVars, stringVars>>
     \/ reads = "string" /\ B!Next /\ UNCHANGED <<vars, recipeVars>>

MCSpec == MCInit /\ [][MCNext]_<<reads, vars, recipeVars, stringVars>>

=============================================================================
