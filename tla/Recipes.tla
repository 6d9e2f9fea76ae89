------------------------------ MODULE Recipes ------------------------------
(***************************************************************************)
(* Reading a recipe from the files a request names (serve/recipes.rs),     *)
(* while those who own the files relink paths and rewrite contents between *)
(* any two system calls.                                                   *)
(***************************************************************************)
EXTENDS Naturals, Sequences

CONSTANTS
  Paths,      \* absolute paths a request may name
  Inodes,     \* what paths may lead to
  Rooted,     \* inodes that lie under a root
  Irregular,  \* inodes that are not regular files
  Texts,      \* bound: the contents considered, over {"a", "\n"}
  MaxLen,     \* max_len
  MaxFiles,   \* bound: files in a request
  None

RecipeAssumption ==
  /\ Rooted \subseteq Inodes /\ Irregular \subseteq Inodes /\ None \notin Inodes
  /\ Texts \subseteq Seq({"a", "\n"}) /\ MaxLen \in Nat /\ MaxFiles \in Nat

VARIABLES
  link,     \* where each path leads, after every symlink; None when it does not open
  text,     \* what each file holds
  paths,    \* the request's paths still to read
  at,       \* the next step, or the outcome
  fd,       \* the open file
  size,     \* metadata.len()
  recipe,   \* what has been read, each byte with where it came from
  start,    \* recipe.len() when this file's read began
  ends      \* where in recipe a file that was not empty ended

vars == <<link, text, paths, at, fd, size, recipe, start, ends>>
outside == <<link, text>>

Steps == {"gate", "open", "stat", "confine", "read"}
Outcomes == {"done", "none", "inline", "invalid", "refused", "too_large"}
Newline == [byte |-> "\n", from |-> None]

TypeOK ==
  /\ link \in [Paths -> Inodes \cup {None}] /\ text \in [Inodes \ Irregular -> Texts]
  /\ Len(paths) <= MaxFiles /\ at \in Steps \cup Outcomes
  /\ fd \in Inodes \cup {None} /\ size \in Nat /\ start \in 0..MaxLen
  /\ \A i \in DOMAIN recipe : recipe[i].from \in Inodes \cup {None}
  /\ ends \subseteq 1..Len(recipe)

Init ==
  /\ link \in [Paths -> Inodes \cup {None}] /\ text \in [Inodes \ Irregular -> Texts]
  /\ paths \in UNION {[1..n -> Paths] : n \in 0..MaxFiles}
  /\ at = "gate" /\ fd = None /\ size = 0 /\ recipe = <<>> /\ start = 0 /\ ends = {}

Ends(outcome) == at' = outcome /\ fd' = None /\ UNCHANGED <<paths, size, recipe, start, ends>>
Goes(step) == at' = step /\ UNCHANGED <<paths, fd, size, recipe, start, ends>>

-----------------------------------------------------------------------------
\* An inline recipe, whether --recipe-root was given, whether the peer has the
\* server's uid.
RecipeBytes ==
  /\ at = "gate"
  /\ \E inline, opted, own \in BOOLEAN :
       \/ ~inline /\ paths = <<>> /\ Ends("none")
       \/ inline /\ paths # <<>> /\ Ends("invalid")
       \/ inline /\ paths = <<>> /\ (Ends("inline") \/ Ends("invalid"))
       \/ ~inline /\ paths # <<>> /\ ~(opted /\ own) /\ Ends("refused")
       \/ ~inline /\ paths # <<>> /\ opted /\ own /\ Goes("open")
  /\ UNCHANGED outside

\* A relative path is refused like one that does not open.
Open ==
  /\ at = "open"
  /\ \/ link[Head(paths)] = None /\ Ends("invalid")
     \/ /\ link[Head(paths)] # None /\ fd' = link[Head(paths)] /\ at' = "stat"
        /\ UNCHANGED <<paths, size, recipe, start, ends>>
  /\ UNCHANGED outside

Stat ==
  /\ at = "stat"
  /\ \/ fd \in Irregular /\ Ends("invalid")
     \/ /\ fd \notin Irregular /\ size' = Len(text[fd]) /\ at' = "confine"
        /\ UNCHANGED <<paths, fd, recipe, start, ends>>
  /\ UNCHANGED outside

PathConfined == link[Head(paths)] \in Rooted

\* What was opened, not what was named.
Confined == fd \in Rooted

Fused == recipe

\* A newline where one is missing.
Terminated ==
  IF recipe # <<>> /\ recipe[Len(recipe)].byte # "\n" THEN Append(recipe, Newline) ELSE recipe

\* checked_sub, then the size that was stated.
Room == Len(Terminated) <= MaxLen /\ size <= MaxLen - Len(Terminated)

\* The root, then the room left after the newline.
Confine ==
  /\ at = "confine"
  /\ \/ ~Confined /\ Ends("refused")
     \/ Confined /\ ~Room /\ Ends("too_large")
     \/ /\ Confined /\ Room
        /\ recipe' = Terminated /\ start' = Len(Terminated) /\ at' = "read"
        /\ UNCHANGED <<paths, fd, size, ends>>
  /\ UNCHANGED outside

Taken == Len(recipe) - start

\* take(remaining + 1): where the read stops, even in a file that grows.
Limit == MaxLen + 1

\* One read of read_to_end: a byte where the file has one.
ReadByte ==
  /\ at = "read" /\ Len(recipe) < Limit /\ Taken < Len(text[fd])
  /\ recipe' = Append(recipe, [byte |-> text[fd][Taken + 1], from |-> fd])
  /\ UNCHANGED <<outside, paths, at, fd, size, start, ends>>

\* bytes_read > remaining, negated.
Fits == Len(recipe) <= MaxLen

\* read_to_end returns: at the limit or at the end of the file.
ReadEnds ==
  /\ at = "read" /\ (Len(recipe) = Limit \/ Taken >= Len(text[fd]))
  /\ \/ ~Fits /\ Ends("too_large")
     \/ /\ Fits /\ fd' = None /\ paths' = Tail(paths)
        /\ at' = IF Len(paths) = 1 THEN "done" ELSE "open"
        /\ ends' = IF Taken = 0 THEN ends ELSE ends \cup {Len(recipe)}
        /\ UNCHANGED <<size, recipe, start>>
  /\ UNCHANGED outside

\* metadata, read_link or read fails.
Fails == at \in {"stat", "confine", "read"} /\ Ends("invalid") /\ UNCHANGED outside

\* Owners of the files, at any time.
Relink ==
  /\ at \notin Outcomes /\ \E p \in Paths, i \in Inodes \cup {None} : link' = [link EXCEPT ![p] = i]
  /\ UNCHANGED <<text, paths, at, fd, size, recipe, start, ends>>

Rewrite ==
  /\ at \notin Outcomes /\ \E i \in Inodes \ Irregular, t \in Texts : text' = [text EXCEPT ![i] = t]
  /\ UNCHANGED <<link, paths, at, fd, size, recipe, start, ends>>

Next ==
  \/ RecipeBytes \/ Open \/ Stat \/ Confine \/ ReadByte \/ ReadEnds \/ Fails
  \/ Relink \/ Rewrite

Spec == Init /\ [][Next]_vars

-----------------------------------------------------------------------------
(* Properties.                                                               *)

\* "a swapped symlink cannot slip past it" (recipes.rs, module comment): every byte
\* comes from a file under a root.
FromRootsOnly == \A i \in DOMAIN recipe : recipe[i].from \in Rooted \cup {None}

\* "max_len bounds the concatenation", newlines included, whatever the files do
\* between stat and read, and what is buffered goes at most one byte past it; and "a
\* newline inserted between files where one is missing" (read): where a file ended and
\* more follows, empty files in between or not, a newline stands there.
JoinedWithinLimit ==
  /\ Len(recipe) <= MaxLen + 1
  /\ at \in {"open", "done"} => Len(recipe) <= MaxLen
  /\ \A e \in ends : e < Len(recipe) => recipe[e].byte = "\n" \/ recipe[e + 1] = Newline

=============================================================================
