------------------------------ MODULE Packages ------------------------------
(***************************************************************************)
(* Which package a request gets: the search directories (cli.rs), their     *)
(* discovery at startup (discovery.rs), the load of each manifest           *)
(* (manifest.rs), a request's choice of one and the load of it again by the *)
(* host process that runs it, while whoever installs packages re-points     *)
(* their links and removes what nothing links to, between any two of these  *)
(* system calls.  A package directory, once there, is not rewritten.        *)
(***************************************************************************)
EXTENDS Naturals, Sequences

CONSTANTS
  Package,         \* package directories
  Key,             \* of each, the name and version its service.toml gives
  WellFormed,      \* those whose service.toml parses, with a name, a version and mount
                   \* paths that are absolute
  Prepares, Runs,  \* the paths each names, in its prepare table and as its modules
  Plain,           \* the paths made of plain names
  Leads,           \* where each path in a package leads through any symlink, or Missing
  Children,        \* the names in each directory, as their rank
  Flags,           \* what --services-dir may give
  Environment,     \* what the environment may, Missing included
  Home,            \* the default directory there may be under $HOME, or none
  SYSTEM_DEFAULTS,
  MaxChanges,      \* bound: changes to what is installed
  Missing

VARIABLES
  search,    \* the search directories
  links,     \* where each child of each directory leads
  installed, \* the package directories that are there
  step,      \* "list", "resolve", "read", "check"; "serving", "host_read", "host_check"
             \* or "failed"
  todo,      \* search directories still to read, this one included
  unlisted,  \* its children not yet inspected
  found,     \* those with a manifest
  dir,       \* the package being loaded, by its resolved path or as it was named
  manifest,  \* whose service.toml was read there
  index,     \* for each key, where its packages were found: selected, then shadowed
  request,   \* what was asked of select and the manifest it gave
  host,      \* what the last host process to come up loaded, and for which request
  kept,      \* the links nobody touched during discovery
  changes

vars == <<search, links, installed, step, todo, unlisted, found, dir, manifest, index, request,
          host, kept, changes>>
outside == <<links, installed, kept, changes>>

Directories == DOMAIN Children
Places == UNION {{d} \X Children[d] : d \in Directories}
Keys == {Key[p] : p \in Package}
Nth == 1 + Len(search) - Len(todo)

\* service_dirs: the flags, or the environment's list without its empty parts, or the
\* defaults.
ServiceDirs(flags, environment, home) ==
  IF flags # <<>> THEN flags
  ELSE IF environment # Missing THEN SelectSeq(environment, LAMBDA d : d # "")
  ELSE home \o SYSTEM_DEFAULTS

\* A child's path is not a package's resolved one, and what the search may name is there.
PackageAssumption ==
  /\ Missing \notin Package /\ Package \cap Places = {}
  /\ \A d \in Directories : Children[d] \subseteq Nat
  /\ \A flags \in Flags, environment \in Environment, home \in Home :
       ServiceDirs(flags, environment, home) \in Seq(Directories)

Init ==
  /\ \E flags \in Flags, environment \in Environment, home \in Home :
       search = ServiceDirs(flags, environment, home)
  /\ links \in [Places -> Package \cup {Missing}] /\ installed = Package /\ kept = links
  /\ todo = search /\ found = {} /\ dir = Missing /\ manifest = Missing
  /\ unlisted = IF search = <<>> THEN {} ELSE Children[Head(search)]
  /\ step = IF search = <<>> THEN "serving" ELSE "list"
  /\ index = [k \in Keys |-> <<>>] /\ request = Missing /\ host = Missing
  /\ changes = 0

-----------------------------------------------------------------------------
(* Discovery.                                                                *)

Discovering == step \in {"list", "resolve", "read", "check"}
Location(d) == IF d \in Package THEN d ELSE links[d]
Present(d) == Location(d) \in installed

\* The error ends the command, or the bring-up.
Fails(from) ==
  /\ step' = IF from \in {"host_read", "host_check"} THEN "serving" ELSE "failed"
  /\ request' = Missing /\ dir' = Missing /\ manifest' = Missing

\* manifests_in: the next entry of readdir, in no order, or an error.
List ==
  /\ step = "list" /\ unlisted # {}
  /\ \/ /\ \E c \in unlisted :
             /\ unlisted' = unlisted \ {c}
             /\ found' = IF Present(<<Head(todo), c>>) THEN found \cup {c} ELSE found
        /\ UNCHANGED <<step, dir, manifest, request>>
     \/ Fails("list") /\ UNCHANGED <<unlisted, found>>
  /\ UNCHANGED <<search, todo, index, host, outside>>

\* The manifests of a directory are sorted.
Least(children) == CHOOSE c \in children : \A d \in children : c <= d

\* The next of the sorted manifests, or the next directory, or the end of discovery.
NextManifest(rest) ==
  IF rest # {} THEN step' = "resolve" /\ UNCHANGED <<todo, unlisted>>
  ELSE /\ todo' = Tail(todo)
       /\ step' = IF Len(todo) = 1 THEN "serving" ELSE "list"
       /\ unlisted' = IF Len(todo) = 1 THEN {} ELSE Children[todo[2]]

Listed ==
  /\ step = "list" /\ unlisted = {} /\ NextManifest(found)
  /\ UNCHANGED <<search, found, dir, manifest, index, request, host, outside>>

AsNamed(place) == place

\* insert's canonicalize.
Canonical(place) == links[place]

Resolve ==
  /\ step = "resolve"
  /\ LET place == <<Head(todo), Least(found)>> IN
     IF Present(place) THEN dir' = Canonical(place) /\ step' = "read" /\ UNCHANGED <<manifest, request>>
     ELSE Fails("resolve")
  /\ UNCHANGED <<search, todo, unlisted, found, index, host, outside>>

\* Manifest::load, up to its checks.
Read(from, to) ==
  /\ step = from
  /\ IF Present(dir) THEN manifest' = Location(dir) /\ step' = to /\ UNCHANGED <<dir, request>>
     ELSE Fails(from)
  /\ UNCHANGED <<search, todo, unlisted, found, index, host, outside>>

LastWins(entry) == [index EXCEPT ![Key[manifest]] = <<entry>> \o @]

\* insert: the first of its key is selected, the others are shadowed.
Inserted(entry) == [index EXCEPT ![Key[manifest]] = Append(@, entry)]

Target(path) == IF Present(dir) THEN Leads[Location(dir)][path] ELSE Missing

RejectEscape(path) == path \in Plain

\* What the path resolves to stays under the directory load resolved before.
EnsureContained(path) == Target(path) = manifest

ResolveFile(path) == RejectEscape(path) /\ Target(path) # Missing /\ EnsureContained(path)
ResolvePrepare == \A path \in Prepares[manifest] : ResolveFile(path)

\* The rest of load: what the manifest names is there and inside the package.
Checks ==
  manifest \in WellFormed /\ ResolvePrepare /\ \A path \in Runs[manifest] : ResolveFile(path)

Insert ==
  /\ step = "check"
  /\ \/ /\ Checks /\ found' = found \ {Least(found)} /\ NextManifest(found')
        /\ index' = Inserted([place |-> <<Nth, Least(found)>>, dir |-> dir, manifest |-> manifest])
        /\ dir' = Missing /\ manifest' = Missing /\ UNCHANGED request
     \/ ~Checks /\ Fails("check") /\ UNCHANGED <<todo, unlisted, found, index>>
  /\ UNCHANGED <<search, host, outside>>

-----------------------------------------------------------------------------
(* Requests, one at a time.                                                  *)

\* select's candidates, in the index's order.
Candidates(name, version) ==
  {k \in Keys : index[k] # <<>> /\ k.name = name /\ version \in {Missing, k.version}}

\* NotFound and Ambiguous answer the request; a single candidate is brought up.
Select(name, version) ==
  /\ step = "serving"
  /\ \E k \in Keys :
       /\ Candidates(name, version) = {k} /\ dir' = Head(index[k]).dir
       /\ request' = [name |-> name, version |-> version, of |-> Head(index[k])]
  /\ step' = "host_read"
  /\ UNCHANGED <<search, todo, unlisted, found, manifest, index, host, outside>>

\* The host process has loaded the manifest it was given the path of, and its modules.
ComesUp ==
  /\ step = "host_check"
  /\ \/ /\ Checks /\ host' = [request |-> request, manifest |-> manifest, modules |-> Location(dir)]
        /\ step' = "serving" /\ request' = Missing /\ dir' = Missing /\ manifest' = Missing
     \/ ~Checks /\ Fails("host_check") /\ UNCHANGED host
  /\ UNCHANGED <<search, todo, unlisted, found, index, outside>>

-----------------------------------------------------------------------------
(* Whoever installs packages.                                                *)

manager == <<search, step, todo, unlisted, found, dir, manifest, index, request, host>>

Changes == step # "failed" /\ changes < MaxChanges /\ changes' = changes + 1 /\ UNCHANGED manager

Repoint(place, to) ==
  /\ Changes /\ links[place] # to /\ links' = [links EXCEPT ![place] = to]
  /\ kept' = IF Discovering THEN [p \in DOMAIN kept \ {place} |-> kept[p]] ELSE kept
  /\ UNCHANGED installed

Uninstall(p) ==
  /\ Changes /\ p \in installed /\ \A place \in Places : links[place] # p
  /\ installed' = installed \ {p} /\ UNCHANGED <<links, kept>>

Next ==
  \/ List \/ Listed \/ Resolve \/ Read("read", "check") \/ Insert
  \/ Read("host_read", "host_check") \/ ComesUp
  \/ \E k \in Keys, version \in {Missing} \cup {k.version : k \in Keys} : Select(k.name, version)
  \/ \E place \in Places, to \in installed \cup {Missing} : Repoint(place, to)
  \/ \E p \in Package : Uninstall(p)

Spec == Init /\ [][Next]_vars

-----------------------------------------------------------------------------
(* Properties.                                                               *)

\* "Discovery is a startup snapshot": what the manager knows of a service from its
\* discovery is what the host process it starts later loads again, one package's
\* manifest and that package's modules, of the name and the version asked for (the only
\* version, where none was), although the links the package was found by lead elsewhere
\* by then.
RunsWhatWasNamed ==
  host # Missing =>
    /\ host.manifest = host.request.of.manifest /\ host.modules = host.manifest
    /\ Key[host.manifest].name = host.request.name
    /\ \/ host.request.version = Key[host.manifest].version
       \/ /\ host.request.version = Missing
          /\ \A k \in Keys : index[k] # <<>> /\ k.name = host.request.name => k = Key[host.manifest]

Earlier(a, b) == a[1] < b[1] \/ (a[1] = b[1] /\ a[2] < b[2])

\* "The first package for an exact name and version is selected and later packages are
\* recorded as shadowed": an installation nobody touches during discovery is in the
\* index under its own key, and comes before all that were found later in the search
\* order, whatever readdir's order and whatever happens to the other links meanwhile.
FirstFoundServes ==
  step \in {"serving", "host_read", "host_check"} =>
    /\ \A place \in DOMAIN kept, i \in DOMAIN search :
         search[i] = place[1] /\ kept[place] # Missing =>
           \E n \in DOMAIN index[Key[kept[place]]] :
             LET entry == index[Key[kept[place]]][n] IN
             entry.place = <<i, place[2]>> /\ entry.manifest = kept[place]
    /\ \A k \in Keys : \A m, n \in DOMAIN index[k] :
         m < n => Earlier(index[k][m].place, index[k][n].place)

=============================================================================
