---------------------------- MODULE InputsProofs ----------------------------
(***************************************************************************)
(* What the manager takes from files other people write, proved for any     *)
(* paths, files, packages and search directories and any number of changes  *)
(* to them: packages (Packages) and recipes (Recipes).                      *)
(***************************************************************************)
EXTENDS Inputs, WellFoundedInduction, TLAPS

-----------------------------------------------------------------------------
(* Packages.  canonicalize gives what is in the index a path of its own, so  *)
(* that the host loads what discovery loaded; and discovery has inserted all *)
(* it passed that nobody touched, in the order in which it passed them.      *)

Settled == step \in {"serving", "host_read", "host_check"}
Inserting == step \in {"resolve", "read", "check"}
Entry == [place : Nat \X Nat, dir : Package, manifest : Package]

\* A link leads to what is there; the links kept are the ones discovery saw.
Linked ==
  /\ installed \subseteq Package /\ links \in [Places -> installed \cup {Missing}]
  /\ DOMAIN kept \subseteq Places /\ \A place \in DOMAIN kept : kept[place] \in Package \cup {Missing}
  /\ Discovering => \A place \in DOMAIN kept : kept[place] = links[place]

\* An entry is of its key, and its path is the package's own.
Catalogued ==
  /\ index \in [Keys -> Seq(Entry)]
  /\ \A k \in Keys : \A n \in 1..Len(index[k]) :
       index[k][n].dir = index[k][n].manifest /\ Key[index[k][n].manifest] = k

\* Discovery reads the search directories in turn.
Positioned ==
  /\ search \in Seq(Directories) /\ todo \in Seq(Directories) /\ Len(todo) <= Len(search)
  /\ \A j \in 1..Len(todo) : todo[j] = search[(Len(search) - Len(todo)) + j]
  /\ Discovering => todo # <<>> /\ found \cup unlisted \subseteq Children[todo[1]]
  /\ Settled => todo = <<>>
  /\ Inserting => found # {}

\* A request that was answered by select: by its name, and its version or the only one.
Asked(q) ==
  /\ q.of \in Entry /\ q.of.dir = q.of.manifest /\ q.name = Key[q.of.manifest].name
  /\ \/ q.version = Key[q.of.manifest].version
     \/ /\ q.version = Missing
        /\ \A k \in Keys : index[k] # <<>> /\ k.name = q.name => k = Key[q.of.manifest]

\* The package being loaded is a resolved one: of an entry as its link led, of a host as
\* its request said.
Loaded ==
  /\ step \in {"read", "check"} =>
       /\ dir \in Package
       /\ <<todo[1], Least(found)>> \in DOMAIN kept => dir = kept[<<todo[1], Least(found)>>]
  /\ step \in {"host_read", "host_check"} => Asked(request) /\ dir = request.of.dir
  /\ step \in {"check", "host_check"} => manifest = dir
  /\ Discovering => host = Missing
  /\ host # Missing => Asked(host.request) /\ host.manifest = host.request.of.dir /\ host.modules = host.manifest

\* The entry of a place.
Has(i, place) ==
  \E n \in 1..Len(index[Key[kept[place]]]) :
    /\ index[Key[kept[place]]][n].place = <<i, place[2]>>
    /\ index[Key[kept[place]]][n].manifest = kept[place]

\* What discovery is past.
Behind(i, c) == i < Nth \/ (i = Nth /\ Inserting /\ c \notin found)

\* What nobody touched was found where it was listed and inserted where it was passed.
Covered ==
  /\ step = "list" =>
       \A place \in DOMAIN kept :
         place[1] = todo[1] /\ place[2] \notin unlisted /\ kept[place] # Missing => place[2] \in found
  /\ step # "failed" =>
       \A place \in DOMAIN kept : \A i \in 1..Len(search) :
         search[i] = place[1] /\ kept[place] # Missing /\ Behind(i, place[2]) => Has(i, place)

\* Entries are in the order of their places, all of them before what is still to come.
Ordered ==
  /\ Discovering =>
       \A k \in Keys : \A n \in 1..Len(index[k]) :
         \/ index[k][n].place[1] < Nth
         \/ /\ Inserting /\ index[k][n].place[1] = Nth
            /\ \A c \in found : index[k][n].place[2] < c
  /\ \A k \in Keys : \A m, n \in 1..Len(index[k]) :
       m < n => Earlier(index[k][m].place, index[k][n].place)

PackageInv ==
  PackageAssumption /\ Linked /\ Catalogued /\ Positioned /\ Loaded /\ Covered /\ Ordered

\* The first of the sorted manifests is one of them and before the others.
LEMMA LeastFound ==
  ASSUME NEW S, S \subseteq Nat, S # {}
  PROVE  Least(S) \in S /\ \A c \in S : Least(S) <= c
<1>1. \A x, y \in Nat : <<x, y>> \in OpToRel(<, Nat) <=> x < y
  BY Zenon DEF OpToRel
<1>2. PICK less : IsWellFoundedOn(less, Nat) /\ \A x, y \in Nat : <<x, y>> \in less <=> x < y
  BY Zenon, <1>1, NatLessThanWellFounded
<1>3. IsWellFoundedOn(less, Nat)
  BY Zenon, <1>2
<1>4. PICK x \in S : \A y \in S : ~(<<y, x>> \in less)
  BY Zenon, <1>3, WFMin
<1>5. \A y \in S : ~(y < x)
  BY Zenon, <1>2, <1>4
<1>6. \A y \in S : x <= y
  BY <1>5
<1> QED
  BY Zenon, <1>6 DEF Least

\* A place is a directory and a child of it, and no package's resolved path.
LEMMA PlaceFacts ==
  ASSUME PackageAssumption, NEW place \in Places
  PROVE  /\ place[1] \in Directories /\ place[2] \in Children[place[1]] /\ place[2] \in Nat
         /\ place = <<place[1], place[2]>> /\ place \notin Package
  BY DEF PackageAssumption, Places

\* A child is at a place.
LEMMA ChildFacts ==
  ASSUME NEW d \in Directories, NEW c \in Children[d]
  PROVE  <<d, c>> \in Places
  BY DEF Places

\* insert adds an entry at the end of its key's.
LEMMA InsertedFacts ==
  ASSUME index \in [Keys -> Seq(Entry)], manifest \in Package, NEW entry \in Entry
  PROVE  /\ Inserted(entry) \in [Keys -> Seq(Entry)] /\ Key[manifest] \in Keys
         /\ \A k \in Keys : k # Key[manifest] => Inserted(entry)[k] = index[k]
         /\ Len(Inserted(entry)[Key[manifest]]) = Len(index[Key[manifest]]) + 1
         /\ \A n \in 1..Len(index[Key[manifest]]) :
              Inserted(entry)[Key[manifest]][n] = index[Key[manifest]][n]
         /\ Inserted(entry)[Key[manifest]][Len(index[Key[manifest]]) + 1] = entry
<1>1. Key[manifest] \in Keys
  BY Zenon DEF Keys
<1> HIDE DEF Entry
<1>2. Inserted(entry)[Key[manifest]] = Append(index[Key[manifest]], entry)
  BY Zenon, <1>1 DEF Inserted
<1>3. index[Key[manifest]] \in Seq(Entry)
  BY Zenon, <1>1
<1>4. \A k \in Keys : k # Key[manifest] => Inserted(entry)[k] = index[k]
  BY Zenon DEF Inserted
<1>5. Inserted(entry) \in [Keys -> Seq(Entry)]
  BY <1>1, <1>3 DEF Inserted
<1>6. /\ Len(Append(index[Key[manifest]], entry)) = Len(index[Key[manifest]]) + 1
      /\ \A n \in 1..Len(index[Key[manifest]]) :
           Append(index[Key[manifest]], entry)[n] = index[Key[manifest]][n]
      /\ Append(index[Key[manifest]], entry)[Len(index[Key[manifest]]) + 1] = entry
  BY <1>3
<1> QED
  BY Zenon, <1>1, <1>2, <1>4, <1>5, <1>6

\* Discovery starts at the first directory with nothing found.
LEMMA PackageInit == PackageAssumption /\ Init => PackageInv
<1> SUFFICES ASSUME PackageAssumption, Init PROVE PackageInv
  BY Zenon
<1>1. PICK flags \in Flags, environment \in Environment, home \in Home :
        search = ServiceDirs(flags, environment, home)
  BY Zenon DEF Init
<1>2. search \in Seq(Directories)
  BY Zenon, <1>1 DEF PackageAssumption
<1>3. search # <<>> => Len(search) \in Nat \ {0} /\ Head(search) = search[1]
  BY <1>2
<1>4. <<>> \in Seq(Entry) /\ Len(<<>>) = 0
  OBVIOUS
<1>5. \A k \in Keys : index[k] = <<>>
  BY Zenon DEF Init
<1>6. Linked
  <2>1. links \in [Places -> installed \cup {Missing}] /\ kept = links /\ installed = Package
    BY Zenon DEF Init
  <2> QED
    BY Zenon, <2>1 DEF Linked
<1>7. Catalogued
  BY <1>4 DEF Init, Catalogued
<1>8. Positioned
  BY <1>2, <1>3 DEF Init, Positioned, Discovering, Settled, Inserting
<1>9. Loaded
  BY Zenon DEF Init, Loaded
<1>10. Nth = 1 /\ step \in {"list", "serving"}
  BY <1>2 DEF Init, Nth
<1>11. Covered
  <2>1. step = "list" => search # <<>> /\ todo = search /\ unlisted = Children[todo[1]]
    BY Zenon, <1>3 DEF Init
  <2>2. \A place \in DOMAIN kept : place[2] \in Children[place[1]]
    BY Zenon, <1>6, PlaceFacts DEF Linked
  <2>3. \A i \in 1..Len(search) : ~(i < Nth) /\ ~Inserting
    BY <1>2, <1>10 DEF Inserting
  <2> QED
    BY Zenon, <2>1, <2>2, <2>3 DEF Covered, Behind
<1>12. Ordered
  BY <1>4, <1>5 DEF Ordered
<1> QED
  BY Zenon, <1>6, <1>7, <1>8, <1>9, <1>11, <1>12 DEF PackageInv

\* An error ends discovery with the index as it is.
LEMMA FailureKeeps ==
  ASSUME PackageInv, Discovering, step' = "failed",
         UNCHANGED <<search, todo, index, host, links, installed, kept>>
  PROVE  PackageInv'
<1>1. Linked' /\ Catalogued' /\ Positioned'
  BY DEF PackageInv, Linked, Catalogued, Positioned, Discovering, Settled, Inserting
<1>2. Loaded'
  BY Zenon DEF PackageInv, Loaded, Discovering
<1>3. Covered' /\ Ordered'
  BY Zenon DEF PackageInv, Covered, Ordered, Discovering
<1> QED
  BY Zenon, <1>1, <1>2, <1>3 DEF PackageInv

\* Loading a package, for the index or for a host, moves discovery nowhere.
LEMMA InPlace ==
  ASSUME PackageInv, (Inserting /\ Inserting') \/ (Settled /\ Settled'),
         UNCHANGED <<search, todo, unlisted, found, index, links, installed, kept>>,
         Loaded'
  PROVE  PackageInv'
<1>1. Linked' /\ Catalogued'
  BY DEF PackageInv, Linked, Catalogued, Discovering, Settled, Inserting
<1>2. Positioned'
  BY Zenon DEF PackageInv, Positioned, Discovering, Settled, Inserting
<1>3. Covered'
  <2>1. step # "failed" /\ step' # "list" /\ (Inserting' <=> Inserting)
    BY Zenon DEF Settled, Inserting
  <2>2. \A i, c : Behind(i, c)' <=> Behind(i, c)
    BY Zenon, <2>1 DEF Behind, Nth
  <2>3. \A i, place : Has(i, place)' <=> Has(i, place)
    BY Zenon DEF Has
  <2> QED
    BY Zenon, <2>1, <2>2, <2>3 DEF PackageInv, Covered
<1>4. Ordered'
  BY DEF PackageInv, Ordered, Discovering, Nth, Settled, Inserting
<1> QED
  BY Zenon, <1>1, <1>2, <1>3, <1>4 DEF PackageInv

\* canonicalize: what the place leads to now, which it still does where nobody touches it.
LEMMA ResolveKeeps == PackageInv /\ Resolve => PackageInv'
<1> SUFFICES ASSUME PackageInv, Resolve PROVE PackageInv'
  BY Zenon
<1> DEFINE place == <<Head(todo), Least(found)>>
<1>1. /\ step = "resolve" /\ Discovering /\ Inserting
      /\ UNCHANGED <<search, todo, unlisted, found, index, host, links, installed, kept>>
  BY Zenon DEF Resolve, outside, Discovering, Inserting
<1>2. CASE ~Present(place)
  BY Zenon, <1>1, <1>2, FailureKeeps DEF Resolve, Fails
<1>3. CASE Present(place)
  <2>1. dir' = links[place] /\ step' = "read"
    BY Zenon, <1>3 DEF Resolve, Canonical
  <2>2. todo \in Seq(Directories) /\ todo # <<>> /\ found # {} /\ found \subseteq Children[todo[1]]
    BY Zenon, <1>1 DEF PackageInv, Positioned
  <2>3. Head(todo) = todo[1] /\ todo[1] \in Directories
    BY <2>2
  <2>4. found \subseteq Nat
    BY Zenon, <2>2, <2>3 DEF PackageInv, PackageAssumption
  <2>5. Least(found) \in Children[todo[1]]
    BY Zenon, <2>2, <2>4, LeastFound
  <2>6. place \in Places
    BY Zenon, <2>3, <2>5, ChildFacts
  <2>7. links[place] \in Package
    <3>1. place \notin Package
      BY Zenon, <2>6, PlaceFacts DEF PackageInv
    <3> QED
      BY Zenon, <1>3, <3>1 DEF PackageInv, Linked, Present, Location
  <2>8. <<todo[1], Least(found)>> \in DOMAIN kept => links[place] = kept[<<todo[1], Least(found)>>]
    BY Zenon, <1>1, <2>3 DEF PackageInv, Linked
  <2> HIDE DEF place
  <2>9. Loaded'
    BY Zenon, <1>1, <2>1, <2>7, <2>8 DEF PackageInv, Loaded, Discovering
  <2> QED
    BY Zenon, <1>1, <2>1, <2>9, InPlace DEF Inserting
<1> QED
  BY Zenon, <1>2, <1>3

\* Manifest::load reads the service.toml of the resolved path, by discovery or a host.
LEMMA ReadKeeps ==
  PackageInv /\ (Read("read", "check") \/ Read("host_read", "host_check")) => PackageInv'
<1> SUFFICES ASSUME PackageInv, Read("read", "check") \/ Read("host_read", "host_check")
             PROVE  PackageInv'
  BY Zenon
<1>1. UNCHANGED <<search, todo, unlisted, found, index, host, links, installed, kept>>
  BY Zenon DEF Read, outside
<1>2. step \in {"read", "host_read"}
  BY Zenon DEF Read
<1>3. dir \in Package
  BY Zenon, <1>2 DEF PackageInv, Loaded, Asked, Entry
<1>4. CASE ~Present(dir)
  <2>1. CASE step = "read"
    BY Zenon, <1>1, <1>4, <2>1, FailureKeeps DEF Read, Fails, Discovering
  <2>2. CASE step = "host_read"
    <3>1. step' = "serving"
      BY Zenon, <1>4, <2>2 DEF Read, Fails
    <3>2. Loaded'
      BY Zenon, <1>1, <3>1 DEF PackageInv, Loaded, Asked, Discovering
    <3> QED
      BY Zenon, <1>1, <2>2, <3>1, <3>2, InPlace DEF Settled
  <2> QED
    BY Zenon, <1>2, <2>1, <2>2
<1>5. CASE Present(dir)
  <2>1. manifest' = dir /\ UNCHANGED <<dir, request>>
    BY Zenon, <1>3, <1>5 DEF Read, Location
  <2>2. step' = IF step = "read" THEN "check" ELSE "host_check"
    BY Zenon, <1>5 DEF Read
  <2>3. Loaded'
    BY Zenon, <1>1, <1>2, <2>1, <2>2 DEF PackageInv, Loaded, Asked, Discovering
  <2> QED
    BY Zenon, <1>1, <1>2, <2>2, <2>3, InPlace DEF Settled, Inserting
<1> QED
  BY Zenon, <1>4, <1>5

\* A host comes up with the package of its request, its manifest and its modules.
LEMMA ComesUpKeeps == PackageInv /\ ComesUp => PackageInv'
<1> SUFFICES ASSUME PackageInv, ComesUp PROVE PackageInv'
  BY Zenon
<1>1. /\ step = "host_check" /\ step' = "serving"
      /\ UNCHANGED <<search, todo, unlisted, found, index, links, installed, kept>>
  BY Zenon DEF ComesUp, Fails, outside
<1>2. Asked(request) /\ dir = request.of.dir /\ manifest = dir /\ dir \in Package
  BY Zenon, <1>1 DEF PackageInv, Loaded, Asked, Entry
<1>3. \/ host' = host
      \/ host' = [request |-> request, manifest |-> manifest, modules |-> Location(dir)]
  BY Zenon DEF ComesUp
<1>4. Location(dir) = dir
  BY Zenon, <1>2 DEF Location
<1>5. Loaded'
  <2>1. \A q : Asked(q) => Asked(q)'
    BY Zenon, <1>1 DEF Asked
  <2>2. CASE host' = host
    <3>1. host # Missing =>
            Asked(host.request)' /\ host.manifest = host.request.of.dir /\ host.modules = host.manifest
      BY Zenon, <1>1, <2>2 DEF PackageInv, Loaded, Asked
    <3> QED
      BY Zenon, <1>1, <2>2 DEF PackageInv, Loaded, Asked, Discovering
  <2>3. CASE host' = [request |-> request, manifest |-> manifest, modules |-> Location(dir)]
    <3>1. host'.request = request /\ host'.manifest = dir /\ host'.modules = dir
      BY Zenon, <1>2, <1>4, <2>3
    <3> QED
      BY Zenon, <1>1, <1>2, <3>1 DEF Loaded, Asked, Discovering
  <2> QED
    BY Zenon, <1>3, <2>2, <2>3
<1> QED
  BY Zenon, <1>1, <1>5, InPlace DEF Settled

\* select: the first entry of the only key it may mean.
LEMMA SelectKeeps ==
  ASSUME PackageInv, NEW name, NEW version, Select(name, version)
  PROVE  PackageInv'
<1>1. /\ step = "serving" /\ step' = "host_read"
      /\ UNCHANGED <<search, todo, unlisted, found, index, host, links, installed, kept>>
  BY Zenon DEF Select, outside
<1>2. PICK k \in Keys :
        /\ Candidates(name, version) = {k} /\ dir' = Head(index[k]).dir
        /\ request' = [name |-> name, version |-> version, of |-> Head(index[k])]
  BY Zenon DEF Select
<1>3. /\ index[k] # <<>> /\ k.name = name
      /\ version = Missing \/ version = k.version
  <2>1. k \in Candidates(name, version)
    BY Zenon, <1>2
  <2> QED
    BY Zenon, <2>1 DEF Candidates
<1>4. index[k] \in Seq(Entry)
  BY Zenon, <1>3 DEF PackageInv, Catalogued
<1>5. Head(index[k]) = index[k][1] /\ 1 \in 1..Len(index[k]) /\ Head(index[k]) \in Entry
  <2> HIDE DEF Entry
  <2> QED
    BY <1>3, <1>4
<1>6. Head(index[k]).dir = Head(index[k]).manifest /\ Key[Head(index[k]).manifest] = k
  BY <1>3, <1>5 DEF PackageInv, Catalogued
<1>7. \A j \in Keys : version = Missing /\ index[j] # <<>> /\ j.name = name => j = k
  <2> SUFFICES ASSUME NEW j \in Keys, version = Missing, index[j] # <<>>, j.name = name
               PROVE  j = k
    BY Zenon
  <2>1. j \in Candidates(name, version)
    BY Zenon DEF Candidates
  <2> QED
    BY Zenon, <1>2, <2>1
<1>8. PICK entry : entry = Head(index[k])
  BY Zenon
<1>9. request'.name = name /\ request'.version = version /\ request'.of = entry /\ dir' = entry.dir
  BY Zenon, <1>2, <1>8
<1>10. Asked(request)'
  BY Zenon, <1>1, <1>3, <1>5, <1>6, <1>7, <1>8, <1>9 DEF Asked
<1>11. Loaded'
  <2>1. host # Missing => Asked(host.request)'
    BY Zenon, <1>1 DEF PackageInv, Loaded, Asked
  <2> QED
    BY Zenon, <1>1, <1>9, <1>10, <2>1 DEF PackageInv, Loaded, Discovering
<1> QED
  BY Zenon, <1>1, <1>11, InPlace DEF Settled

\* A link that is re-pointed during discovery is no longer one that nobody touched.
LEMMA RepointKeeps ==
  ASSUME PackageInv, NEW place \in Places, NEW to \in installed \cup {Missing}, Repoint(place, to)
  PROVE  PackageInv'
<1>1. /\ step # "failed" /\ installed' = installed /\ links' = [links EXCEPT ![place] = to]
      /\ UNCHANGED <<search, step, todo, unlisted, found, dir, manifest, index, request, host>>
  BY Zenon DEF Repoint, Changes, manager
<1>2. /\ DOMAIN kept' \subseteq DOMAIN kept /\ \A q \in DOMAIN kept' : kept'[q] = kept[q]
      /\ Discovering => place \notin DOMAIN kept'
  BY Zenon DEF Repoint
<1>3. Discovering' = Discovering /\ Settled' = Settled /\ Inserting' = Inserting /\ Nth' = Nth
  BY Zenon, <1>1 DEF Discovering, Settled, Inserting, Nth
<1>4. Linked'
  BY Zenon, <1>1, <1>2, <1>3 DEF PackageInv, Linked
<1>5. Catalogued' /\ Positioned'
  BY <1>1, <1>3 DEF PackageInv, Catalogued, Positioned
<1>6. Loaded'
  BY Zenon, <1>1, <1>2, <1>3 DEF PackageInv, Loaded, Asked
<1>7. Covered'
  <2>1. \A i, c : Behind(i, c)' <=> Behind(i, c)
    BY Zenon, <1>1, <1>3 DEF Behind
  <2>2. \A i : \A q \in DOMAIN kept' : Has(i, q)' <=> Has(i, q)
    BY <1>1, <1>2 DEF Has
  <2> QED
    BY Zenon, <1>1, <1>2, <2>1, <2>2 DEF PackageInv, Covered
<1>8. Ordered'
  BY <1>1, <1>3 DEF PackageInv, Ordered
<1> QED
  BY Zenon, <1>4, <1>5, <1>6, <1>7, <1>8 DEF PackageInv

\* A package that nothing links to goes.
LEMMA UninstallKeeps ==
  ASSUME PackageInv, NEW q \in Package, Uninstall(q)
  PROVE  PackageInv'
<1>1. /\ installed' = installed \ {q} /\ \A place \in Places : links[place] # q
      /\ UNCHANGED <<search, links, step, todo, unlisted, found, dir, manifest, index, request, host, kept>>
  BY Zenon DEF Uninstall, Changes, manager
<1>2. Linked'
  BY Zenon, <1>1 DEF PackageInv, Linked, Discovering
<1>3. Catalogued' /\ Positioned'
  BY <1>1 DEF PackageInv, Catalogued, Positioned, Discovering, Settled, Inserting
<1>4. Loaded'
  BY <1>1 DEF PackageInv, Loaded, Asked, Discovering
<1>5. Covered'
  <2>1. \A i, c : Behind(i, c)' <=> Behind(i, c)
    BY Zenon, <1>1 DEF Behind, Nth, Inserting
  <2>2. \A i, place : Has(i, place)' <=> Has(i, place)
    BY Zenon, <1>1 DEF Has
  <2> QED
    BY Zenon, <1>1, <2>1, <2>2 DEF PackageInv, Covered
<1>6. Ordered'
  BY <1>1 DEF PackageInv, Ordered, Discovering, Nth, Inserting
<1> QED
  BY Zenon, <1>2, <1>3, <1>4, <1>5, <1>6 DEF PackageInv

\* A child nobody touches is found when it is listed: its link leads to what is there.
LEMMA ListKeeps == PackageInv /\ List => PackageInv'
<1> SUFFICES ASSUME PackageInv, List PROVE PackageInv'
  BY Zenon
<1>1. /\ step = "list" /\ Discovering /\ ~Inserting /\ ~Settled
      /\ UNCHANGED <<search, todo, index, host, links, installed, kept>>
  BY Zenon DEF List, outside, Discovering, Inserting, Settled
<1>2. CASE Fails("list")
  BY Zenon, <1>1, <1>2, FailureKeeps DEF Fails
<1>3. CASE step' = step
  <2>1. PICK c \in unlisted :
          /\ unlisted' = unlisted \ {c}
          /\ found' = IF Present(<<Head(todo), c>>) THEN found \cup {c} ELSE found
    BY Zenon, <1>1, <1>3 DEF List, Fails
  <2>2. found \subseteq found' /\ found' \subseteq found \cup {c}
    BY Zenon, <2>1
  <2>3. /\ todo \in Seq(Directories) /\ todo # <<>> /\ Head(todo) = todo[1]
        /\ found \cup unlisted \subseteq Children[todo[1]]
    BY <1>1 DEF PackageInv, Positioned
  <2>4. Discovering' /\ ~Inserting' /\ ~Settled' /\ Nth' = Nth
    BY Zenon, <1>1, <1>3 DEF Discovering, Inserting, Settled, Nth
  <2>5. Linked' /\ Catalogued'
    BY <1>1, <2>4 DEF PackageInv, Linked, Catalogued
  <2>6. Positioned'
    BY <1>1, <2>1, <2>2, <2>3, <2>4 DEF PackageInv, Positioned
  <2>7. Loaded'
    BY Zenon, <1>1, <1>3 DEF PackageInv, Loaded, Asked, Discovering
  <2>8. ASSUME NEW place \in DOMAIN kept, place[1] = todo[1], place[2] \notin unlisted',
               kept[place] # Missing
        PROVE  place[2] \in found'
    <3>1. CASE place[2] = c
      <4>1. place = <<Head(todo), c>> /\ place \in Places /\ place \notin Package
        BY Zenon, <2>3, <2>8, <3>1, PlaceFacts DEF PackageInv, Linked
      <4>2. links[place] \in installed
        BY Zenon, <1>1, <2>8, <4>1 DEF PackageInv, Linked
      <4>3. Present(<<Head(todo), c>>)
        BY Zenon, <4>1, <4>2 DEF Present, Location
      <4> QED
        BY Zenon, <2>1, <3>1, <4>3
    <3>2. CASE place[2] # c
      BY Zenon, <1>1, <2>1, <2>2, <2>8, <3>2 DEF PackageInv, Covered
    <3> QED
      BY Zenon, <3>1, <3>2
  <2>9. Covered'
    <3>1. \A i, d : Behind(i, d)' <=> Behind(i, d)
      BY Zenon, <1>1, <2>4 DEF Behind
    <3>2. \A i, place : Has(i, place)' <=> Has(i, place)
      BY Zenon, <1>1 DEF Has
    <3> QED
      BY Zenon, <1>1, <1>3, <2>8, <3>1, <3>2 DEF PackageInv, Covered
  <2>10. Ordered'
    BY Zenon, <1>1, <2>4 DEF PackageInv, Ordered
  <2> QED
    BY Zenon, <2>5, <2>6, <2>7, <2>9, <2>10 DEF PackageInv
<1> QED
  BY Zenon, <1>2, <1>3 DEF List

\* The next directory is the next one searched.
LEMMA AdvanceFacts ==
  ASSUME Positioned, todo # <<>>, search' = search, todo' = Tail(todo)
  PROVE  /\ todo' \in Seq(Directories) /\ Len(todo') <= Len(search') /\ Nth' = Nth + 1
         /\ \A j \in 1..Len(todo') : todo'[j] = search'[(Len(search') - Len(todo')) + j]
         /\ Len(todo) = 1 => todo' = <<>>
         /\ Len(todo) # 1 => todo' # <<>> /\ todo'[1] = todo[2]
<1>1. todo \in Seq(Directories) /\ Len(todo) \in Nat \ {0} /\ Len(search) \in Nat
  BY DEF Positioned
<1>2. /\ Tail(todo) \in Seq(Directories) /\ Len(Tail(todo)) = Len(todo) - 1
      /\ \A j \in 1..(Len(todo) - 1) : Tail(todo)[j] = todo[j + 1]
  BY <1>1
<1>3. todo' \in Seq(Directories) /\ Len(todo') <= Len(search') /\ Nth' = Nth + 1
  BY <1>1, <1>2 DEF Positioned, Nth
<1>4. ASSUME NEW j \in 1..Len(todo') PROVE todo'[j] = search'[(Len(search') - Len(todo')) + j]
  <2>1. j + 1 \in 1..Len(todo) /\ todo'[j] = todo[j + 1]
    BY <1>1, <1>2
  <2>2. todo[j + 1] = search[(Len(search) - Len(todo)) + (j + 1)]
    BY Zenon, <2>1 DEF Positioned
  <2>3. (Len(search) - Len(todo)) + (j + 1) = (Len(search') - Len(todo')) + j
    BY <1>1, <1>2
  <2> QED
    BY Zenon, <2>1, <2>2, <2>3
<1>5. Len(<<>>) = 0
  BY Zenon
<1>6. Len(todo) = 1 => todo' = <<>>
  BY <1>1, <1>2
<1>7. Len(todo) # 1 => todo' # <<>> /\ todo'[1] = todo[2]
  <2> SUFFICES ASSUME Len(todo) # 1 PROVE todo' # <<>> /\ todo'[1] = todo[2]
    BY Zenon
  <2>1. 1 \in 1..(Len(todo) - 1) /\ Len(todo') # 0
    BY <1>1, <1>2
  <2>2. todo'[1] = todo[1 + 1]
    BY Zenon, <1>2, <2>1
  <2>3. 1 + 1 = 2
    OBVIOUS
  <2>4. todo' # <<>>
    BY Zenon, <1>5, <2>1
  <2> QED
    BY Zenon, <2>2, <2>3, <2>4
<1> QED
  BY Zenon, <1>3, <1>4, <1>6, <1>7

\* Where discovery stands.
LEMMA NthFacts ==
  ASSUME Positioned, todo # <<>>
  PROVE  Nth \in 1..Len(search) /\ search[Nth] = todo[1] /\ Head(todo) = todo[1]
<1>1. todo \in Seq(Directories) /\ Len(todo) \in Nat \ {0} /\ Len(search) \in Nat
  BY DEF Positioned
<1>2. todo[1] = search[(Len(search) - Len(todo)) + 1]
  BY <1>1 DEF Positioned
<1>3. Nth = (Len(search) - Len(todo)) + 1 /\ Nth \in 1..Len(search)
  BY <1>1 DEF Positioned, Nth
<1> QED
  BY <1>1, <1>2, <1>3

\* With a directory listed or a manifest inserted: all that is passed now is in the index,
\* and before the manifests that are left.
Passed ==
  /\ \A place \in DOMAIN kept : \A i \in 1..Len(search) :
       /\ search[i] = place[1] /\ kept[place] # Missing
       /\ i < Nth \/ (i = Nth /\ place[2] \notin found')
       => Has(i, place)'
  /\ \A k \in Keys : \A n \in 1..Len(index'[k]) :
       \/ index'[k][n].place[1] < Nth
       \/ index'[k][n].place[1] = Nth /\ \A c \in found' : index'[k][n].place[2] < c
  /\ \A k \in Keys : \A m, n \in 1..Len(index'[k]) :
       m < n => Earlier(index'[k][m].place, index'[k][n].place)

\* Discovery goes on with the next manifest, the next directory, or the requests.
LEMMA MovesKeeps ==
  ASSUME PackageInv, Discovering, NextManifest(found'), found' \subseteq found,
         UNCHANGED <<search, links, installed, kept, host>>, Catalogued', Passed
  PROVE  PackageInv'
<1>1. Positioned /\ todo # <<>> /\ found \cup unlisted \subseteq Children[todo[1]] /\ host' = Missing
  BY Zenon DEF PackageInv, Positioned, Loaded
<1>2. Nth \in 1..Len(search) /\ search[Nth] = todo[1] /\ Len(search) \in Nat
  BY <1>1, NthFacts DEF Positioned
<1>3. Linked'
  <2>1. Discovering' => Discovering
    BY Zenon
  <2> QED
    BY Zenon, <2>1 DEF PackageInv, Linked
<1>4. step' \in {"resolve", "list", "serving"}
  BY Zenon DEF NextManifest
<1>5. Loaded'
  BY Zenon, <1>1, <1>4 DEF Loaded, Discovering
<1>6. CASE found' # {}
  <2>1. step' = "resolve" /\ UNCHANGED <<todo, unlisted>>
    BY Zenon, <1>6 DEF NextManifest
  <2>2. Discovering' /\ Inserting' /\ ~Settled' /\ Nth' = Nth
    BY Zenon, <2>1 DEF Discovering, Inserting, Settled, Nth
  <2>3. Positioned'
    BY Zenon, <1>1, <1>6, <2>1, <2>2 DEF Positioned
  <2>4. Covered'
    <3>1. \A i \in 1..Len(search) : \A c : Behind(i, c)' => i < Nth \/ (i = Nth /\ c \notin found')
      BY Zenon, <2>2 DEF Behind
    <3> QED
      BY Zenon, <2>1, <3>1 DEF Covered, Passed
  <2>5. Ordered'
    BY Zenon, <2>2 DEF Ordered, Passed
  <2> QED
    BY Zenon, <1>3, <1>5, <2>3, <2>4, <2>5 DEF PackageInv
<1>7. CASE found' = {}
  <2>1. /\ todo' = Tail(todo) /\ step' = IF Len(todo) = 1 THEN "serving" ELSE "list"
        /\ unlisted' = IF Len(todo) = 1 THEN {} ELSE Children[todo[2]]
    BY Zenon, <1>7 DEF NextManifest
  <2>2. /\ todo' \in Seq(Directories) /\ Len(todo') <= Len(search') /\ Nth' = Nth + 1
        /\ \A j \in 1..Len(todo') : todo'[j] = search'[(Len(search') - Len(todo')) + j]
        /\ Len(todo) = 1 => todo' = <<>>
        /\ Len(todo) # 1 => todo' # <<>> /\ todo'[1] = todo[2]
    BY Zenon, <1>1, <2>1, AdvanceFacts
  <2>3. /\ ~Inserting' /\ Discovering' = (step' = "list") /\ Settled' = (step' = "serving")
        /\ step' = "list" => Len(todo) # 1 /\ unlisted' = Children[todo'[1]]
        /\ step' = "serving" => Len(todo) = 1
    BY <2>1, <2>2 DEF Discovering, Inserting, Settled
  <2>4. Positioned'
    BY Zenon, <1>1, <1>7, <2>2, <2>3 DEF Positioned
  <2>5. Covered'
    <3>1. \A i \in 1..Len(search) : \A c : Behind(i, c)' => i < Nth \/ (i = Nth /\ c \notin found')
      BY <1>2, <1>7, <2>2, <2>3 DEF Behind
    <3>2. \A place \in DOMAIN kept' : place[2] \in Children[place[1]]
      BY Zenon, <1>3, PlaceFacts DEF PackageInv, Linked
    <3>3. \A place \in DOMAIN kept' : step' = "list" /\ place[1] = todo'[1] => place[2] \in unlisted'
      BY Zenon, <2>3, <3>2
    <3> QED
      BY Zenon, <3>1, <3>3 DEF Covered, Passed
  <2>6. Ordered'
    <3>1. ASSUME NEW k \in Keys, NEW n \in 1..Len(index'[k])
          PROVE  index'[k][n].place[1] < Nth'
      <4>1. index'[k][n] \in Entry
        BY DEF Catalogued
      <4>2. index'[k][n].place[1] \in Nat
        BY Zenon, <4>1 DEF Entry
      <4> QED
        BY <1>2, <2>2, <4>2 DEF Passed
    <3> QED
      BY Zenon, <3>1 DEF Ordered, Passed
  <2> QED
    BY Zenon, <1>3, <1>5, <2>4, <2>5, <2>6 DEF PackageInv
<1> QED
  BY Zenon, <1>6, <1>7

\* The directory has been read: what nobody touched in it is among what was found.
LEMMA ListedKeeps == PackageInv /\ Listed => PackageInv'
<1> SUFFICES ASSUME PackageInv, Listed PROVE PackageInv'
  BY Zenon
<1>1. /\ step = "list" /\ unlisted = {} /\ NextManifest(found) /\ Discovering /\ ~Inserting
      /\ UNCHANGED <<search, found, index, host, links, installed, kept>>
  BY Zenon DEF Listed, outside, Discovering, Inserting
<1>2. NextManifest(found')
  BY Zenon, <1>1
<1>3. Catalogued'
  BY <1>1 DEF PackageInv, Catalogued
<1>4. Positioned /\ todo # <<>>
  BY Zenon, <1>1 DEF PackageInv, Positioned
<1>5. \A i, place : Has(i, place)' <=> Has(i, place)
  BY Zenon, <1>1 DEF Has
<1>6. ASSUME NEW place \in DOMAIN kept, NEW i \in 1..Len(search),
             search[i] = place[1], kept[place] # Missing,
             i < Nth \/ (i = Nth /\ place[2] \notin found')
      PROVE  Has(i, place)'
  <2>1. CASE i < Nth
    BY Zenon, <1>1, <1>5, <1>6, <2>1 DEF PackageInv, Covered, Behind
  <2>2. CASE i = Nth /\ place[2] \notin found
    <3>1. place[1] = todo[1]
      BY Zenon, <1>4, <1>6, <2>2, NthFacts
    <3> QED
      BY Zenon, <1>1, <1>6, <2>2, <3>1 DEF PackageInv, Covered
  <2> QED
    BY Zenon, <1>1, <1>6, <2>1, <2>2
<1>7. Passed
  BY Zenon, <1>1, <1>6 DEF PackageInv, Ordered, Passed
<1> QED
  BY Zenon, <1>1, <1>2, <1>3, <1>7, MovesKeeps

\* insert: the manifest's entry comes last of its key, and is where its place led.
LEMMA InsertKeeps == PackageInv /\ Insert => PackageInv'
<1> SUFFICES ASSUME PackageInv, Insert PROVE PackageInv'
  BY Zenon
<1>1. /\ step = "check" /\ Discovering /\ Inserting
      /\ UNCHANGED <<search, host, links, installed, kept>>
  BY Zenon DEF Insert, outside, Discovering, Inserting
<1>2. CASE ~Checks
  BY Zenon, <1>1, <1>2, FailureKeeps DEF Insert, Fails
<1>3. CASE Checks
  <2> DEFINE e == [place |-> <<Nth, Least(found)>>, dir |-> dir, manifest |-> manifest]
  <2>1. found' = found \ {Least(found)} /\ NextManifest(found') /\ index' = Inserted(e)
    BY Zenon, <1>3 DEF Insert
  <2>2. /\ Positioned /\ todo # <<>> /\ found # {} /\ found \subseteq Children[todo[1]]
        /\ dir \in Package /\ manifest = dir
        /\ <<todo[1], Least(found)>> \in DOMAIN kept => dir = kept[<<todo[1], Least(found)>>]
    BY Zenon, <1>1 DEF PackageInv, Positioned, Loaded
  <2>3. Nth \in 1..Len(search) /\ search[Nth] = todo[1] /\ Len(search) \in Nat
    BY <2>2, NthFacts DEF Positioned
  <2>4. todo[1] \in Directories
    BY <2>2 DEF Positioned
  <2>5. found \subseteq Nat
    BY Zenon, <2>2, <2>4 DEF PackageInv, PackageAssumption
  <2>6. Least(found) \in found /\ Least(found) \in Nat /\ \A c \in found : Least(found) <= c
    BY Zenon, <2>2, <2>5, LeastFound
  <2>7. PICK entry : entry = e
    BY Zenon
  <2>8. /\ entry \in Entry /\ entry.place = <<Nth, Least(found)>> /\ entry.dir = dir
        /\ entry.manifest = manifest
    BY <2>2, <2>3, <2>6, <2>7 DEF Entry
  <2> HIDE DEF e
  <2>9. PICK key, len : key = Key[manifest] /\ len = Len(index[Key[manifest]])
    BY Zenon
  <2>10. index \in [Keys -> Seq(Entry)]
    BY Zenon DEF PackageInv, Catalogued
  <2>11. index' = Inserted(entry)
    BY Zenon, <2>1, <2>7
  <2>12. /\ index' \in [Keys -> Seq(Entry)] /\ key \in Keys
         /\ \A k \in Keys : k # key => index'[k] = index[k]
         /\ Len(index'[key]) = len + 1 /\ \A n \in 1..len : index'[key][n] = index[key][n]
         /\ index'[key][len + 1] = entry
    <3>1. manifest \in Package
      BY Zenon, <2>2
    <3> QED
      BY <2>8, <2>9, <2>10, <2>11, <3>1, InsertedFacts
  <2>13. len \in Nat /\ \A k \in Keys : Len(index[k]) \in Nat
    <3> HIDE DEF Entry
    <3> QED
      BY <2>9, <2>10, <2>12
  <2> HIDE DEF Entry
  <2>14. \A k \in Keys : \A n \in 1..Len(index'[k]) :
           \/ n \in 1..Len(index[k]) /\ index'[k][n] = index[k][n]
           \/ k = key /\ n = len + 1 /\ index'[k][n] = entry
    BY <2>9, <2>12, <2>13
  <2>15. \A k \in Keys : \A n \in 1..Len(index[k]) :
           n \in 1..Len(index'[k]) /\ index'[k][n] = index[k][n]
    BY <2>9, <2>12, <2>13
  <2>16. Catalogued'
    <3>1. ASSUME NEW k \in Keys, NEW n \in 1..Len(index'[k])
          PROVE  index'[k][n].dir = index'[k][n].manifest /\ Key[index'[k][n].manifest] = k
      <4>1. CASE n \in 1..Len(index[k]) /\ index'[k][n] = index[k][n]
        BY <4>1 DEF PackageInv, Catalogued
      <4>2. CASE k = key /\ index'[k][n] = entry
        BY Zenon, <2>2, <2>8, <2>9, <4>2
      <4> QED
        BY Zenon, <2>14, <4>1, <4>2
    <3> QED
      BY Zenon, <2>12, <3>1 DEF Catalogued
  <2>17. ASSUME NEW place \in DOMAIN kept, NEW i \in 1..Len(search),
                search[i] = place[1], kept[place] # Missing,
                i < Nth \/ (i = Nth /\ place[2] \notin found')
         PROVE  Has(i, place)'
    <3>1. kept' = kept /\ kept[place] \in Package
      <4>1. kept[place] = links[place] /\ place \in Places
        BY Zenon, <1>1 DEF PackageInv, Linked
      <4> QED
        BY Zenon, <1>1, <2>17, <4>1 DEF PackageInv, Linked
    <3>2. Key[kept[place]] \in Keys
      BY Zenon, <3>1 DEF Keys
    <3>3. CASE i < Nth \/ (i = Nth /\ place[2] \notin found)
      <4>1. Has(i, place)
        BY Zenon, <1>1, <2>17, <3>3 DEF PackageInv, Covered, Behind
      <4> QED
        BY Zenon, <2>15, <3>1, <3>2, <4>1 DEF Has
    <3>4. CASE i = Nth /\ place[2] = Least(found)
      <4>1. place = <<todo[1], Least(found)>>
        BY Zenon, <2>3, <2>17, <3>4, PlaceFacts DEF PackageInv, Linked
      <4>2. kept[place] = manifest
        BY Zenon, <2>2, <4>1
      <4>3. Key[kept[place]] = key /\ len + 1 \in 1..Len(index'[key])
        BY <2>9, <2>12, <2>13, <4>2
      <4>4. index'[key][len + 1].place = <<i, place[2]>> /\ index'[key][len + 1].manifest = kept[place]
        BY Zenon, <2>8, <2>12, <3>4, <4>2
      <4> QED
        BY Zenon, <3>1, <4>3, <4>4 DEF Has
    <3> QED
      BY Zenon, <2>1, <2>17, <3>3, <3>4
  <2>18. entry.place[1] = Nth /\ entry.place[2] = Least(found)
    BY <2>8
  <2>19. \A k \in Keys : \A n \in 1..Len(index[k]) :
           \/ index[k][n].place[1] < Nth
           \/ index[k][n].place[1] = Nth /\ \A c \in found : index[k][n].place[2] < c
    BY Zenon, <1>1 DEF PackageInv, Ordered
  <2>20. \A c \in found' : Least(found) < c /\ c \in found
    BY <2>1, <2>5, <2>6
  <2>21. ASSUME NEW k \in Keys, NEW n \in 1..Len(index'[k])
         PROVE  \/ index'[k][n].place[1] < Nth
                \/ index'[k][n].place[1] = Nth /\ \A c \in found' : index'[k][n].place[2] < c
    BY <2>14, <2>18, <2>19, <2>20
  <2>22. ASSUME NEW k \in Keys, NEW m \in 1..Len(index'[k]), NEW n \in 1..Len(index'[k]), m < n
         PROVE  Earlier(index'[k][m].place, index'[k][n].place)
    <3>1. CASE n \in 1..Len(index[k]) /\ index'[k][n] = index[k][n]
      <4>1. m \in 1..Len(index[k])
        BY <2>13, <2>22, <3>1
      <4> QED
        BY Zenon, <2>15, <2>22, <3>1, <4>1 DEF PackageInv, Ordered
    <3>2. CASE k = key /\ n = len + 1 /\ index'[k][n] = entry
      <4>1. m \in 1..Len(index[k])
        BY <2>9, <2>13, <2>22, <3>2
      <4>2. index'[k][m] = index[k][m]
        BY Zenon, <2>15, <4>1
      <4> QED
        BY <2>6, <2>18, <2>19, <3>2, <4>1, <4>2 DEF Earlier
    <3> QED
      BY Zenon, <2>14, <3>1, <3>2
  <2>23. Passed
    BY Zenon, <2>17, <2>21, <2>22 DEF Passed
  <2> QED
    BY Zenon, <1>1, <2>1, <2>16, <2>23, MovesKeeps
<1> QED
  BY Zenon, <1>2, <1>3

\* PackageInv is inductive.
LEMMA PackageNext == PackageInv /\ [Next]_vars => PackageInv'
<1> SUFFICES ASSUME PackageInv, [Next]_vars PROVE PackageInv'
  BY Zenon
<1>1. CASE UNCHANGED vars
  <2>1. UNCHANGED <<search, links, installed, step, todo, unlisted, found, dir, manifest, index,
                    request, host, kept>>
    BY Zenon, <1>1 DEF vars
  <2>2. Linked' /\ Catalogued' /\ Positioned'
    BY <2>1 DEF PackageInv, Linked, Catalogued, Positioned, Discovering, Settled, Inserting
  <2>3. Loaded'
    BY <2>1 DEF PackageInv, Loaded, Asked, Discovering
  <2>4. Covered'
    <3>1. \A i, c : Behind(i, c)' <=> Behind(i, c)
      BY Zenon, <2>1 DEF Behind, Nth, Inserting
    <3>2. \A i, place : Has(i, place)' <=> Has(i, place)
      BY Zenon, <2>1 DEF Has
    <3> QED
      BY Zenon, <2>1, <3>1, <3>2 DEF PackageInv, Covered
  <2>5. Ordered'
    BY <2>1 DEF PackageInv, Ordered, Discovering, Nth, Inserting
  <2> QED
    BY Zenon, <2>2, <2>3, <2>4, <2>5 DEF PackageInv
<1>2. CASE Next
  BY Zenon, <1>2, ListKeeps, ListedKeeps, ResolveKeeps, ReadKeeps, InsertKeeps, ComesUpKeeps, SelectKeeps,
     RepointKeeps, UninstallKeeps DEF Next
<1> QED
  BY Zenon, <1>1, <1>2

\* PackageInv holds in every reachable state.
LEMMA PackageInvariance == PackageAssumption => (Spec => []PackageInv)
  BY PackageInit, PackageNext, PTL DEF Spec

\* A host process loads the package discovery found under the name and version of its
\* request, manifest and modules, although the links lead elsewhere by then.
THEOREM HostsRunWhatWasNamed == PackageAssumption => (Spec => []RunsWhatWasNamed)
<1>1. PackageInv => RunsWhatWasNamed
  <2> SUFFICES ASSUME PackageInv, host # Missing PROVE RunsWhatWasNamed
    BY Zenon DEF RunsWhatWasNamed
  <2>1. Asked(host.request) /\ host.manifest = host.request.of.dir /\ host.modules = host.manifest
    BY Zenon DEF PackageInv, Loaded
  <2> QED
    BY Zenon, <2>1 DEF Asked, RunsWhatWasNamed
<1> QED
  BY <1>1, PackageInvariance, PTL

\* Discovery's index has every package that nobody touched meanwhile, each under its key
\* and before all that the search found later.
THEOREM DiscoveryKeepsFirst == PackageAssumption => (Spec => []FirstFoundServes)
<1>1. PackageInv => FirstFoundServes
  <2> SUFFICES ASSUME PackageInv, Settled PROVE FirstFoundServes
    BY Zenon DEF FirstFoundServes, Settled
  <2>1. \A k \in Keys : DOMAIN index[k] = 1..Len(index[k])
    <3>1. index \in [Keys -> Seq(Entry)] BY Zenon DEF PackageInv, Catalogued
    <3> QED BY <3>1
  <2>2. search \in Seq(Directories) /\ todo = <<>> /\ DOMAIN search = 1..Len(search)
    <3>1. search \in Seq(Directories) /\ todo = <<>> BY Zenon DEF PackageInv, Positioned
    <3> QED BY <3>1
  <2>3. Nth = Len(search) + 1 /\ Len(search) \in Nat
    BY <2>2 DEF Nth
  <2>4. ASSUME NEW place \in DOMAIN kept, NEW i \in DOMAIN search, search[i] = place[1],
               kept[place] # Missing
        PROVE  Has(i, place)
    <3>1. Behind(i, place[2]) /\ i \in 1..Len(search) /\ step # "failed"
      BY <2>2, <2>3 DEF Behind, Settled
    <3> QED
      BY Zenon, <2>4, <3>1 DEF PackageInv, Covered
  <2>5. ASSUME NEW place \in DOMAIN kept, NEW i \in DOMAIN search, search[i] = place[1],
               kept[place] # Missing
        PROVE  \E n \in DOMAIN index[Key[kept[place]]] :
                 /\ index[Key[kept[place]]][n].place = <<i, place[2]>>
                 /\ index[Key[kept[place]]][n].manifest = kept[place]
    <3>1. PICK n \in 1..Len(index[Key[kept[place]]]) :
            /\ index[Key[kept[place]]][n].place = <<i, place[2]>>
            /\ index[Key[kept[place]]][n].manifest = kept[place]
      BY Zenon, <2>4, <2>5 DEF Has
    <3>2. Key[kept[place]] \in Keys
      BY Zenon, <2>5 DEF PackageInv, Linked, Keys
    <3> QED
      BY Zenon, <2>1, <3>1, <3>2
  <2> QED
    BY <2>1, <2>5 DEF PackageInv, Ordered, FirstFoundServes
<1> QED
  BY <1>1, PackageInvariance, PTL

-----------------------------------------------------------------------------
(* Recipes.  A file that is being read was confined after it was opened, so  *)
(* whatever its path leads to by now, what is read is under a root; and a    *)
(* file that ended is followed by a newline before another one begins.       *)

Characters == {"a", "\n"}
Piece == [byte : Characters, from : Rooted \cup {None}]

\* What is opened is there, and what is read is a regular file under a root.
Opened ==
  /\ link \in [Paths -> Inodes \cup {None}] /\ text \in [Inodes \ Irregular -> Texts]
  /\ paths \in Seq(Paths)
  /\ at \in {"open", "stat", "confine", "read"} => paths # <<>>
  /\ at \in {"stat", "confine", "read"} => fd \in Inodes
  /\ at \in {"confine", "read"} => fd \notin Irregular
  /\ at = "read" => fd \in Rooted

\* What was read so far, and that there is room for it.
Measured ==
  /\ recipe \in Seq(Piece) /\ start \in 0..Len(recipe) /\ size \in Nat
  /\ Len(recipe) <= MaxLen + 1
  /\ at \in {"gate", "open", "stat", "confine", "done"} => Len(recipe) <= MaxLen

\* Where a file ended and more follows, there is a newline; the file being read began
\* after one.
Separated ==
  /\ ends \subseteq 1..Len(recipe)
  /\ \A e \in ends : e < Len(recipe) => recipe[e].byte = "\n" \/ recipe[e + 1] = R!Newline
  /\ at = "read" => \A e \in ends : e <= start /\ (e = start => recipe[e].byte = "\n")

RecipeInv == R!RecipeAssumption /\ Opened /\ Measured /\ Separated

\* Terminated is the recipe, with a newline after it where it had none.
LEMMA TerminatedFacts ==
  ASSUME recipe \in Seq(Piece)
  PROVE  /\ R!Terminated \in Seq(Piece) /\ Len(R!Terminated) \in Len(recipe)..(Len(recipe) + 1)
         /\ \A i \in 1..Len(recipe) : R!Terminated[i] = recipe[i]
         /\ Len(R!Terminated) = Len(recipe) /\ recipe # <<>> => recipe[Len(recipe)].byte = "\n"
         /\ Len(R!Terminated) > Len(recipe) => R!Terminated[Len(recipe) + 1] = R!Newline
<1>1. R!Newline \in Piece
  BY Zenon DEF R!Newline, Piece, Characters
<1> HIDE DEF R!Newline, Piece
<1>2. CASE recipe # <<>> /\ recipe[Len(recipe)].byte # "\n"
  BY <1>1, <1>2 DEF R!Terminated
<1>3. CASE ~(recipe # <<>> /\ recipe[Len(recipe)].byte # "\n")
  BY <1>3 DEF R!Terminated
<1> QED
  BY Zenon, <1>2, <1>3

\* A request starts with nothing open and nothing read.
LEMMA RecipeInit == R!RecipeAssumption /\ R!Init => RecipeInv
<1> SUFFICES ASSUME R!RecipeAssumption, R!Init PROVE RecipeInv
  BY Zenon
<1>1. <<>> \in Seq(Piece) /\ Len(<<>>) = 0
  OBVIOUS
<1>2. paths \in Seq(Paths)
  BY DEF R!RecipeAssumption, R!Init
<1> QED
  BY <1>1, <1>2 DEF R!RecipeAssumption, R!Init, RecipeInv, Opened, Measured, Separated

\* Every step of the read and every change to the files keeps it.
LEMMA RecipeNext == RecipeInv /\ [R!Next]_(R!vars) => RecipeInv'
<1> SUFFICES ASSUME RecipeInv, [R!Next]_(R!vars) PROVE RecipeInv'
  BY Zenon
<1> USE DEF RecipeInv, R!RecipeAssumption
<1>1. CASE R!RecipeBytes
  <2>1. /\ UNCHANGED <<link, text, paths, size, recipe, start, ends>>
        /\ at = "gate" /\ at' \notin {"gate", "stat", "confine", "read"}
        /\ at' = "open" => paths # <<>> /\ fd' = fd
        /\ at' # "open" => fd' = None
    BY Zenon, <1>1 DEF R!RecipeBytes, R!Ends, R!Goes, R!outside
  <2>2. Opened'
    BY Zenon, <2>1 DEF Opened
  <2>3. Measured' /\ Separated'
    BY Zenon, <2>1 DEF Measured, Separated
  <2> QED
    BY Zenon, <2>2, <2>3
<1>2. CASE R!Open
  <2>1. UNCHANGED <<link, text, paths, size, recipe, start, ends>> /\ at = "open" /\ at' \notin {"gate", "open", "read", "done"}
    BY Zenon, <1>2 DEF R!Open, R!Ends, R!outside
  <2>2. Opened'
    BY <1>2, <2>1 DEF R!Open, R!Ends, Opened
  <2>3. Measured' /\ Separated'
    BY Zenon, <2>1 DEF Measured, Separated
  <2> QED
    BY Zenon, <2>2, <2>3
<1>3. CASE R!Stat
  <2>1. fd \notin Irregular => Len(text[fd]) \in Nat
    <3>1. fd \notin Irregular => text[fd] \in Seq(Characters)
      BY Zenon, <1>3 DEF R!Stat, Opened, Characters
    <3> QED
      BY <3>1
  <2>2. Opened'
    BY Zenon, <1>3 DEF R!Stat, R!Ends, R!outside, Opened
  <2>3. Measured' /\ Separated'
    BY Zenon, <1>3, <2>1 DEF R!Stat, R!Ends, Measured, Separated
  <2> QED
    BY Zenon, <2>2, <2>3
<1>4. CASE R!Confine
  <2>1. CASE R!Ends("refused") \/ R!Ends("too_large")
    BY Zenon, <1>4, <2>1 DEF R!Confine, R!Ends, R!outside, Opened, Measured, Separated
  <2>2. CASE /\ R!Confined /\ R!Room
             /\ recipe' = R!Terminated /\ start' = Len(R!Terminated) /\ at' = "read"
             /\ UNCHANGED <<paths, fd, size, ends>>
    <3>1. Opened'
      BY Zenon, <1>4, <2>2 DEF R!Confine, R!Confined, R!outside, Opened
    <3>2. Measured'
      BY <2>2, TerminatedFacts DEF Measured, R!Room
    <3>3. Separated'
      <4>1. ends' \subseteq 1..Len(recipe')
        BY <2>2, TerminatedFacts DEF Measured, Separated
      <4>2. ASSUME NEW e \in ends'
            PROVE  /\ e < Len(recipe') => recipe'[e].byte = "\n" \/ recipe'[e + 1] = R!Newline
                   /\ e <= start' /\ (e = start' => recipe'[e].byte = "\n")
        <5>1. e \in 1..Len(recipe) /\ recipe # <<>>
          BY <2>2 DEF Separated, Measured
        <5>2. CASE e < Len(recipe)
          <6>1. e + 1 \in 1..Len(recipe) /\ (recipe[e].byte = "\n" \/ recipe[e + 1] = R!Newline)
            BY <2>2, <5>1, <5>2 DEF Separated, Measured
          <6> QED
            BY <2>2, <5>1, <5>2, <6>1, TerminatedFacts DEF Measured
        <5>3. CASE e = Len(recipe)
          BY <2>2, <5>1, <5>3, TerminatedFacts DEF Measured
        <5> QED
          BY <5>1, <5>2, <5>3
      <4> QED
        BY Zenon, <4>1, <4>2 DEF Separated
    <3> QED
      BY Zenon, <3>1, <3>2, <3>3
  <2> QED
    BY Zenon, <1>4, <2>1, <2>2 DEF R!Confine
<1>5. CASE R!ReadByte
  <2> DEFINE piece == [byte |-> text[fd][R!Taken + 1], from |-> fd]
  <2>1. piece \in Piece
    BY <1>5 DEF R!ReadByte, R!Taken, Opened, Measured, Piece, Characters
  <2> HIDE DEF piece, Piece
  <2>2. recipe' = Append(recipe, piece) /\ UNCHANGED <<link, text, paths, at, fd, size, start, ends>>
    BY Zenon, <1>5 DEF R!ReadByte, R!outside, piece
  <2>3. Opened'
    BY Zenon, <2>2 DEF Opened
  <2>4. Measured'
    BY <1>5, <2>1, <2>2 DEF R!ReadByte, R!Limit, Measured
  <2>5. Separated'
    <3>1. at = "read" /\ recipe \in Seq(Piece) /\ ends \subseteq 1..Len(recipe) /\ start \in 0..Len(recipe)
      BY Zenon, <1>5 DEF R!ReadByte, Measured, Separated
    <3>2. Len(recipe') = Len(recipe) + 1 /\ \A e \in 1..Len(recipe) : recipe'[e] = recipe[e]
      BY <2>1, <2>2, <3>1
    <3>3. \A e \in ends : e < Len(recipe) => e + 1 \in 1..Len(recipe)
      BY <3>1
    <3>4. \A e \in ends : e <= start /\ (e = start => recipe[e].byte = "\n")
      BY Zenon, <3>1 DEF Separated
    <3>5. \A e \in ends : e < Len(recipe) \/ (e = Len(recipe) /\ e = start)
      BY <3>1, <3>4
    <3> HIDE DEF R!Newline
    <3>6. \A e \in ends : recipe'[e].byte = "\n" \/ recipe'[e + 1] = R!Newline
      BY Zenon, <3>1, <3>2, <3>3, <3>4, <3>5 DEF Separated
    <3>7. ends \subseteq 1..Len(recipe')
      BY <3>1, <3>2
    <3> QED
      BY Zenon, <2>2, <3>1, <3>2, <3>4, <3>6, <3>7 DEF Separated
  <2> QED
    BY Zenon, <2>3, <2>4, <2>5
<1>6. CASE R!ReadEnds
  <2>1. CASE R!Ends("too_large")
    BY Zenon, <1>6, <2>1 DEF R!ReadEnds, R!Ends, R!outside, Opened, Measured, Separated
  <2>2. CASE /\ R!Fits /\ fd' = None /\ paths' = Tail(paths)
             /\ at' = IF Len(paths) = 1 THEN "done" ELSE "open"
             /\ ends' = IF R!Taken = 0 THEN ends ELSE ends \cup {Len(recipe)}
             /\ UNCHANGED <<size, recipe, start>>
    <3>1. /\ paths' \in Seq(Paths) /\ (Len(paths) # 1 => paths' # <<>>)
          /\ at' \in {"open", "done"} /\ (at' = "open" => Len(paths) # 1)
      <4>1. paths \in Seq(Paths) /\ paths # <<>>
        BY Zenon, <1>6 DEF R!ReadEnds, Opened
      <4>2. Tail(paths) \in Seq(Paths) /\ (Len(paths) # 1 => Tail(paths) # <<>>)
        <5>1. Tail(paths) \in Seq(Paths) /\ Len(Tail(paths)) = Len(paths) - 1 /\ Len(paths) \in Nat
          BY <4>1
        <5>2. Len(<<>>) = 0
          BY Zenon
        <5>3. Len(paths) # 1 => Len(Tail(paths)) # 0
          BY <5>1
        <5> QED
          BY Zenon, <5>1, <5>2, <5>3
      <4>3. at' \in {"open", "done"} /\ (at' = "open" => Len(paths) # 1)
        BY Zenon, <2>2
      <4> QED
        BY Zenon, <2>2, <4>2, <4>3
    <3>2. Opened'
      BY Zenon, <1>6, <2>2, <3>1 DEF R!ReadEnds, R!outside, Opened
    <3>3. Measured'
      BY Zenon, <1>6, <2>2, <3>1 DEF R!ReadEnds, R!Fits, Measured
    <3>4. Len(recipe) \in Nat /\ (R!Taken # 0 => Len(recipe) \in 1..Len(recipe))
      BY DEF Measured, R!Taken
    <3>5. ends' \subseteq ends \cup {Len(recipe)} /\ (R!Taken = 0 => ends' = ends)
      BY Zenon, <2>2
    <3>6. Separated'
      <4>1. ends' \subseteq 1..Len(recipe)
        BY Zenon, <3>4, <3>5 DEF Separated
      <4>2. ASSUME NEW e \in ends', e < Len(recipe)
            PROVE  recipe[e].byte = "\n" \/ recipe[e + 1] = R!Newline
        BY <3>4, <3>5, <4>2 DEF Separated
      <4>3. at' # "read" /\ recipe' = recipe
        BY Zenon, <2>2, <3>1
      <4> QED
        BY Zenon, <4>1, <4>2, <4>3 DEF Separated
    <3> QED
      BY Zenon, <3>2, <3>3, <3>6
  <2> QED
    BY Zenon, <1>6, <2>1, <2>2 DEF R!ReadEnds
<1>7. CASE R!Fails
  BY Zenon, <1>7 DEF R!Fails, R!Ends, R!outside, Opened, Measured, Separated
<1>8. CASE R!Relink
  BY <1>8 DEF R!Relink, Opened, Measured, Separated
<1>9. CASE R!Rewrite
  BY <1>9 DEF R!Rewrite, Opened, Measured, Separated
<1>10. CASE UNCHANGED R!vars
  BY Zenon, <1>10 DEF R!vars, Opened, Measured, Separated
<1> QED
  BY Zenon, <1>1, <1>2, <1>3, <1>4, <1>5, <1>6, <1>7, <1>8, <1>9, <1>10 DEF R!Next

\* RecipeInv holds in every reachable state.
LEMMA RecipeInvariance == R!RecipeAssumption => (R!Spec => []RecipeInv)
  BY RecipeInit, RecipeNext, PTL DEF R!Spec

\* Every byte of a recipe comes from a file under a root, however the paths of the
\* request are relinked while read follows them.
THEOREM RecipesFromRoots == R!RecipeAssumption => (R!Spec => []FromRootsOnly)
<1>1. RecipeInv => FromRootsOnly
  <2> SUFFICES ASSUME RecipeInv, NEW i \in DOMAIN recipe PROVE recipe[i].from \in Rooted \cup {None}
    BY Zenon DEF FromRootsOnly, R!FromRootsOnly
  <2>1. recipe[i] \in Piece
    BY DEF RecipeInv, Measured
  <2> QED
    BY Zenon, <2>1 DEF Piece
<1> QED
  BY <1>1, RecipeInvariance, PTL

\* A recipe is never longer than max_len, nor buffered more than a byte past it,
\* whatever the files grow to between stat and read; and a newline stands between two
\* files that both have contents.
THEOREM RecipesJoined == R!RecipeAssumption => (R!Spec => []JoinedWithinLimit)
<1>1. RecipeInv => JoinedWithinLimit
  BY Zenon DEF RecipeInv, Measured, Separated, JoinedWithinLimit, R!JoinedWithinLimit
<1> QED
  BY <1>1, RecipeInvariance, PTL

=============================================================================
