----------------------------- MODULE MCPlanner -----------------------------
(* Small inventories and mark sequences for Planner. *)
EXTENDS Planner

CONSTANTS MaxMarks \* longest sequence of marks

Opt(id, records) == {[x \in {} |-> 0]} \cup {[x \in {id} |-> r] : r \in records}

Merge(f, g) == [x \in DOMAIN f \cup DOMAIN g |-> IF x \in DOMAIN f THEN f[x] ELSE g[x]]

ImageRecords == {[size |-> 5, shared |-> 2, tags |-> "placeholder", containers |-> -1],
                 [size |-> 5, shared |-> -1, tags |-> "real", containers |-> 1],
                 [size |-> 5, shared |-> 6, tags |-> "none", containers |-> 0]}

ContainerOne == {[state |-> s, image |-> "i1", mounts |-> m, rw |-> 7, log |-> 1] :
                   s \in {"exited", "removing"}, m \in {{}, {"v1"}}}

ContainerTwo == {[state |-> s, image |-> "i1", mounts |-> {}, rw |-> -1, log |-> 11] :
                   s \in {"running", "dead"}}

VolumeRecords == {[refs |-> -1, usage |-> -1], [refs |-> 0, usage |-> 13],
                  [refs |-> 1, usage |-> 13]}

CacheRecords == {[inUse |-> u, shared |-> ~u, size |-> 17] : u \in BOOLEAN}
                \cup {[inUse |-> FALSE, shared |-> FALSE, size |-> 17]}

\* The daemon counts the containers that mount a volume, or does not say (-1).
Consistent(s) ==
  \A v \in DOMAIN s.volume : v \in UsedVolumes(s) => s.volume[v].refs # 0

MCSnapshots ==
  {s \in
  {[image |-> i, container |-> Merge(c, d), volume |-> v, build_cache |-> b] :
     i \in Opt("i1", ImageRecords), c \in Opt("c1", ContainerOne),
     d \in Opt("c2", ContainerTwo), v \in {[x \in {"v1"} |-> r] : r \in VolumeRecords},
     b \in {[x \in {"b1"} |-> r] : r \in CacheRecords}} :
   Consistent(s)}

MCMarks == {Mark("image", "i1"), Mark("container", "c1"), Mark("container", "c2"),
            Mark("volume", "v1"), Mark("build_cache", "b1"), Mark("stack", "s1")}

MCMarkSeqs == UNION {[1..n -> MCMarks] : n \in 0..MaxMarks}
=============================================================================
