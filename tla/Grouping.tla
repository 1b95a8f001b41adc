------------------------------ MODULE Grouping ------------------------------
(***************************************************************************)
(* pkg/group: the two trees in which the interactive program shows a       *)
(* snapshot, the sizes it adds up in them and the order it sorts them in.  *)
(*                                                                         *)
(* The snapshots are those of PlanRules with, besides,                     *)
(*   list       all objects in the order the daemon listed them: the       *)
(*              containers, the images, the volumes, the build cache       *)
(*   layers     bytes of all image layers (-1 when unknown)                *)
(*   container  project and service of its compose labels ("" for none)    *)
(*   volume     project of its compose label ("" for none)                 *)
(*                                                                         *)
(* A tree is a function from its inner nodes to the sequence of their      *)
(* children.  Names stand for what is displayed, and shared and estimated, *)
(* which are displayed only, are left out of the sizes.                    *)
(***************************************************************************)
EXTENDS PlanRules, FiniteSets, FiniteSetsExt

CONSTANTS Rank \* the alphabetical position of each name

Node(kind, id) == [kind |-> kind, id |-> id, project |-> ""]
ServiceNode(project, service) == [kind |-> "service", id |-> service, project |-> project]
Leaf(mark) == Node(mark.kind, mark.id)
Leaves(marks) == [k \in DOMAIN marks |-> Leaf(marks[k])]

Layouts == {"type", "project"}
Root(layout) == Node("root", layout)
Bucket(kind) == Node("type_bucket", kind)
ProjectNode(project) == [kind |-> "project", id |-> project, project |-> project]
SharedLayers == Node("project", "<shared image layers>")

Nodes(tree) == DOMAIN tree \cup UNION {ToSet(tree[n]) : n \in DOMAIN tree}
Kids(tree, n) == IF n \in DOMAIN tree THEN tree[n] ELSE <<>>

\* Some of the objects, in the order of the list.
Objects(snap) == ToSet(snap.list)
Listed(snap, marks) ==
  FoldLeft(LAMBDA some, m : IF m \in marks THEN Append(some, m) ELSE some, <<>>, snap.list)

ByType(snap) ==
  LET logs == Listed(snap, {m \in Objects(snap) : m.kind = "container"
                                                /\ snap.container[m.id].log > 0})
      buckets == <<"image", "container", "volume", "build_cache", "log_file">>
  IN [n \in {Root("type")} \cup {Bucket(k) : k \in ToSet(buckets)} |->
        CASE n = Root("type") -> [b \in DOMAIN buckets |-> Bucket(buckets[b])]
          [] n = Bucket("log_file") ->
               [k \in DOMAIN logs |-> Node("log_file", logs[k].id)]
          [] OTHER -> Leaves(Listed(snap, {m \in Objects(snap) : m.kind = n.id}))]

(***************************************************************************)
(* ByProject.                                                              *)
(***************************************************************************)
\* The project of the last container of the list that has one, out of some.
LastOwner(snap, users) ==
  LET owners == Listed(snap, {Mark("container", c) :
                                c \in {d \in users : snap.container[d].project # ""}})
  IN IF owners = <<>> THEN "" ELSE snap.container[Last(owners).id].project

ProjectOf(snap, mark) ==
  LET users == {c \in DOMAIN snap.container :
                  \/ mark.kind = "image" /\ snap.container[c].image = mark.id
                  \/ mark.kind = "volume" /\ mark.id \in snap.container[c].mounts}
      project == CASE mark.kind = "container" -> snap.container[mark.id].project
                   [] mark.kind = "volume" /\ snap.volume[mark.id].project # "" ->
                        snap.volume[mark.id].project
                   [] OTHER -> LastOwner(snap, users)
  IN IF project = "" THEN "<orphan>" ELSE project

\* There is an orphan project even when it is empty.
Projects(snap) == {ProjectOf(snap, m) : m \in Objects(snap)} \cup {"<orphan>"}

InService(snap, mark) ==
  mark.kind = "container" /\ snap.container[mark.id].service # ""

\* Where a project shows one of its objects: a container under its service, if it
\* has one, and anything else directly.
Place(snap, mark) ==
  IF InService(snap, mark)
    THEN ServiceNode(ProjectOf(snap, mark), snap.container[mark.id].service)
    ELSE Leaf(mark)

\* Mutant: the service is not looked for among the children.
AddedAgain(kids, place) == Append(kids, place)

\* findOrCreateService.
Added(kids, place) == IF Contains(kids, place) THEN kids ELSE Append(kids, place)

ProjectKids(snap, project) ==
  FoldLeft(LAMBDA kids, m : Added(kids, Place(snap, m)), <<>>,
           Listed(snap, {m \in Objects(snap) : ProjectOf(snap, m) = project}))

Services(snap) == {Place(snap, m) : m \in {n \in Objects(snap) : InService(snap, n)}}

ImagesExclusive(snap) ==
  SumFunction([i \in DOMAIN snap.image |-> Exclusive(snap.image[i])])

\* The projects come out of a map in any order.
ByProject(snap, order) ==
  [n \in {Root("project")} \cup {ProjectNode(p) : p \in Projects(snap)} \cup Services(snap) |->
     CASE n = Root("project") ->
            (IF snap.layers > ImagesExclusive(snap) THEN <<SharedLayers>> ELSE <<>>)
            \o [k \in DOMAIN order |-> ProjectNode(order[k])]
       [] n.kind = "project" ->
            ProjectKids(snap, CHOOSE p \in Projects(snap) : n = ProjectNode(p))
       [] n.kind = "service" ->
            Leaves(Listed(snap, {m \in Objects(snap) : InService(snap, m) /\ Place(snap, m) = n}))]

Trees(snap, layout) ==
  IF layout = "type" THEN {ByType(snap)}
  ELSE {ByProject(snap, order) : order \in SetToSeqs(Projects(snap))}

(***************************************************************************)
(* Sizes.                                                                  *)
(***************************************************************************)
OwnSize(snap, layout, n) ==
  LET all(bytes) == [total |-> bytes, exclusive |-> bytes]
  IN CASE n.kind = "image" -> [total |-> snap.image[n.id].size,
                               exclusive |-> Exclusive(snap.image[n.id])]
       [] n.kind = "container" ->
            all(NonNeg(snap.container[n.id].rw)
                + (IF layout = "project" THEN snap.container[n.id].log ELSE 0))
       [] n.kind = "log_file" -> all(snap.container[n.id].log)
       [] n.kind = "volume" -> all(NonNeg(snap.volume[n.id].usage))
       [] n.kind = "build_cache" -> all(snap.build_cache[n.id].size)
       [] n = SharedLayers -> [total |-> snap.layers - ImagesExclusive(snap), exclusive |-> 0]
       [] OTHER -> all(0)

ChargedInFull(kid, size) == size.total

\* What a child adds to the total of its parent: an image only what it does not
\* share.
Charged(kid, size) == IF kid.kind = "image" THEN size.exclusive ELSE size.total

\* sumChildren, and the size of all layers in the bucket of the images.
Sizes(snap, layout, tree) ==
  LET size[n \in Nodes(tree)] ==
        LET kids == Kids(tree, n)
            own == IF kids = <<>> THEN OwnSize(snap, layout, n)
                   ELSE [total |-> SumFunction([k \in DOMAIN kids |->
                                                  Charged(kids[k], size[kids[k]])]),
                         exclusive |-> SumFunction([k \in DOMAIN kids |->
                                                      size[kids[k]].exclusive])]
        IN IF n = Bucket("image") /\ snap.layers >= 0
             THEN [own EXCEPT !.total = snap.layers] ELSE own
  IN size

\* ComputeTotals, the figures of "dodu scan" and of the exports.
Totals(snap) ==
  LET container == snap.container  volume == snap.volume  cache == snap.build_cache
  IN [images |-> IF snap.layers >= 0 THEN snap.layers ELSE ImagesExclusive(snap),
      containers |-> SumFunction([c \in DOMAIN container |-> NonNeg(container[c].rw)]),
      logs |-> SumFunction([c \in DOMAIN container |-> container[c].log]),
      volumes |-> SumFunction([v \in DOMAIN volume |-> NonNeg(volume[v].usage)]),
      build_cache |-> SumFunction([b \in DOMAIN cache |-> cache[b].size])]

(***************************************************************************)
(* Node.Sort, which is stable: a child goes where as many come before it   *)
(* as are ahead of it in the order or, equal in the order, on the list.    *)
(***************************************************************************)
Sort(snap, layout, tree, by) ==
  LET size == Sizes(snap, layout, tree)
      before(a, b) ==
        CASE by = "size" -> size[a].exclusive > size[b].exclusive
          [] by = "count" -> Len(Kids(tree, a)) > Len(Kids(tree, b))
          [] by = "name" -> Rank[a.id] < Rank[b.id]
      ahead(kids, a, b) ==
        before(kids[a], kids[b]) \/ (~before(kids[b], kids[a]) /\ a < b)
  IN [n \in DOMAIN tree |-> [r \in DOMAIN tree[n] |->
        tree[n][CHOOSE k \in DOMAIN tree[n] :
                  Cardinality({j \in DOMAIN tree[n] : ahead(tree[n], j, k)}) = r - 1]]]
=============================================================================
