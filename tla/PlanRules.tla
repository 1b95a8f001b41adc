----------------------------- MODULE PlanRules -----------------------------
(***************************************************************************)
(* The rules by which pkg/plan decides what may be deleted, as operators   *)
(* on a snapshot of the daemon's inventory (pkg/scan.Snapshot).            *)
(*                                                                         *)
(* A snapshot is a record of four functions, each from the IDs the scan    *)
(* saw to what Build reads of the object:                                  *)
(*   image       size, size shared with other images (-1 when unknown),    *)
(*               its tags ("none", only the "placeholder", or "real"), and *)
(*               the daemon's count of its containers (-1 when unknown)    *)
(*   container   state, image, mounted volumes, writable layer (-1 when    *)
(*               unknown) and log file size (0 when unknown)               *)
(*   volume      reference count and usage (-1 when unknown)               *)
(*   build_cache size, whether it is in use, whether it is shared          *)
(***************************************************************************)
EXTENDS Integers, Sequences, SequencesExt

\* States in which a container holds nothing that is still running; every
\* other state, an unknown one included, counts as active.
Stopped(state) == state \in {"exited", "created", "dead"}

\* An unknown (negative) size is read as 0.
NonNeg(n) == IF n < 0 THEN 0 ELSE n

\* The bytes that go with the image; all of them when the daemon did not say
\* what it shares.
Exclusive(image) ==
  IF image.shared < 0 THEN image.size ELSE NonNeg(image.size - image.shared)

Kinds == {"image", "container", "volume", "build_cache"}

Mark(kind, id) == [kind |-> kind, id |-> id]

\* The containers that are active and were created from the image.
RunningByImage(snap, id) ==
  {c \in DOMAIN snap.container :
     ~Stopped(snap.container[c].state) /\ snap.container[c].image = id}

VolumesInRunningUse(snap) ==
  UNION {snap.container[c].mounts :
           c \in {d \in DOMAIN snap.container : ~Stopped(snap.container[d].state)}}

\* The volumes mounted by any container, running or not.
UsedVolumes(snap) ==
  UNION {snap.container[c].mounts : c \in DOMAIN snap.container}

Found(snap, mark) == mark.kind \in Kinds /\ mark.id \in DOMAIN snap[mark.kind]

\* Whether Build moves a mark it found to Blocked instead of Items.
Protected(snap, mark) ==
  \/ mark.kind = "image" /\ RunningByImage(snap, mark.id) # {}
  \/ mark.kind = "container" /\ ~Stopped(snap.container[mark.id].state)
  \/ /\ mark.kind = "volume"
     /\ \/ mark.id \in UsedVolumes(snap)
        \/ snap.volume[mark.id].refs > 0
  \/ mark.kind = "build_cache" /\ snap.build_cache[mark.id].inUse

\* A tagged image that containers (all stopped, or it would be blocked) still
\* refer to is planned with a warning.
TagWarning(snap, mark) ==
  /\ mark.kind = "image"
  /\ snap.image[mark.id].tags # "none"
  /\ snap.image[mark.id].containers > 0

EstimateWithSharedCache(snap, mark) ==
  CASE mark.kind = "image" -> Exclusive(snap.image[mark.id])
    [] mark.kind = "container" ->
         NonNeg(snap.container[mark.id].rw) + snap.container[mark.id].log
    [] mark.kind = "volume" -> NonNeg(snap.volume[mark.id].usage)
    [] mark.kind = "build_cache" -> snap.build_cache[mark.id].size

\* The bytes the plan expects to reclaim with the object.
Estimate(snap, mark) ==
  CASE mark.kind = "image" -> Exclusive(snap.image[mark.id])
    [] mark.kind = "container" ->
         NonNeg(snap.container[mark.id].rw) + snap.container[mark.id].log
    [] mark.kind = "volume" -> NonNeg(snap.volume[mark.id].usage)
    [] mark.kind = "build_cache" ->
         IF snap.build_cache[mark.id].shared
           THEN 0 ELSE snap.build_cache[mark.id].size

Item(snap, mark) == [mark |-> mark, est |-> Estimate(snap, mark)]

IsContainer(item) == item.mark.kind = "container"

Unsorted(items) == {items}

\* The stable sorts of the items that put the containers first: rearrangements
\* that move a container before every other item and otherwise keep the order.
ContainersFirst(items) ==
  {[r \in DOMAIN items |-> items[p[r]]] :
     p \in {q \in Bijection(DOMAIN items, DOMAIN items) :
              \A a, b \in DOMAIN items :
                 a < b => \/ IsContainer(items[q[a]]) /\ ~IsContainer(items[q[b]])
                          \/ /\ IsContainer(items[q[a]]) <=> IsContainer(items[q[b]])
                             /\ q[a] < q[b]}}

\* Build as seen from outside: the items a plan for a set of marks may list, in
\* any order that has the containers first.
PlansOf(snap, marks) ==
  {s \in SetToSeqs({Item(snap, m) : m \in {n \in marks : Found(snap, n) /\ ~Protected(snap, n)}}) :
     \A a, b \in DOMAIN s : a < b /\ IsContainer(s[b]) => IsContainer(s[a])}

SumEst(items) == SumFunction([k \in DOMAIN items |-> items[k].est])

(***************************************************************************)
(* What the callers of Build choose and show.                              *)
(***************************************************************************)

\* An image whose only name, if any, is the "<none>:<none>" placeholder.
Dangling(image) == image.tags # "real"

\* The marks of "dodu prune": every reclaimable candidate of the kinds asked.
DefaultMarks(snap, kinds) ==
  {m \in UNION {{Mark(k, id) : id \in DOMAIN snap[k]} : k \in kinds} :
     /\ m.kind = "image" => Dangling(snap.image[m.id])
     /\ m.kind = "container" => Stopped(snap.container[m.id].state)
     /\ m.kind = "volume" => snap.volume[m.id].refs = 0
     /\ m.kind = "build_cache" => ~snap.build_cache[m.id].inUse}

\* Totals.Reclaimable: what the views report as reclaimable.
Reclaimable(snap) ==
  LET image == snap.image  container == snap.container
      volume == snap.volume  cache == snap.build_cache
  IN SumFunction([i \in {i \in DOMAIN image : Dangling(image[i])} |-> Exclusive(image[i])])
     + SumFunction([c \in {c \in DOMAIN container : Stopped(container[c].state)} |->
                      NonNeg(container[c].rw) + container[c].log])
     + SumFunction([v \in {v \in DOMAIN volume : volume[v].refs = 0} |->
                      NonNeg(volume[v].usage)])
     + SumFunction([b \in {b \in DOMAIN cache : ~cache[b].inUse /\ ~cache[b].shared} |->
                      cache[b].size])
=============================================================================
