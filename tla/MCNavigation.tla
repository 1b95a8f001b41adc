---------------------------- MODULE MCNavigation ----------------------------
(***************************************************************************)
(* Four snapshots: two compose projects that share an image and a volume,  *)
(* with two replicas of one service, listed in two orders; the same daemon *)
(* later, read without the size of the layers; and an empty daemon.        *)
(***************************************************************************)
EXTENDS Navigation

MCContainer(image, mounts, rw, log, project, service) ==
  [state |-> "exited", image |-> image, mounts |-> mounts, rw |-> rw, log |-> log,
   project |-> project, service |-> service]

MCImage(size, shared) == [size |-> size, shared |-> shared, tags |-> "real", containers |-> -1]
MCVolume(usage, project) == [refs |-> -1, usage |-> usage, project |-> project]
MCCache == [x \in {"b1"} |-> [size |-> 4, inUse |-> FALSE, shared |-> FALSE]]

Busy ==
  [container |-> [c1 |-> MCContainer("i1", {"v1"}, 1, 0, "web", "api"),
                  c2 |-> MCContainer("i1", {}, 2, 3, "web", "api"),
                  c3 |-> MCContainer("i1", {"v1"}, -1, 0, "db", "")],
   image |-> [i1 |-> MCImage(9, 2), i2 |-> MCImage(6, 2)],
   volume |-> [v1 |-> MCVolume(7, "")],
   build_cache |-> MCCache,
   layers |-> 13,
   list |-> <<Mark("container", "c3"), Mark("container", "c1"), Mark("container", "c2"),
              Mark("image", "i2"), Mark("image", "i1"), Mark("volume", "v1"),
              Mark("build_cache", "b1")>>]

Later ==
  [container |-> [c2 |-> MCContainer("i1", {}, 2, 0, "web", "api"),
                  c4 |-> MCContainer("i1", {}, 5, 1, "", "")],
   image |-> [i1 |-> MCImage(9, -1)],
   volume |-> [v1 |-> MCVolume(-1, "db")],
   build_cache |-> MCCache,
   layers |-> -1,
   list |-> <<Mark("container", "c4"), Mark("container", "c2"), Mark("image", "i1"),
              Mark("volume", "v1"), Mark("build_cache", "b1")>>]

MCNothing == [x \in {} |-> 0]
Empty == [container |-> MCNothing, image |-> MCNothing, volume |-> MCNothing,
          build_cache |-> MCNothing, layers |-> 0, list |-> <<>>]

\* The daemon lists the containers in another order: another project is the last to
\* refer to what both share.
Relisted ==
  [Busy EXCEPT !.list = <<Mark("container", "c1"), Mark("container", "c2"),
                          Mark("container", "c3"), Mark("image", "i1"), Mark("image", "i2"),
                          Mark("volume", "v1"), Mark("build_cache", "b1")>>]

MCSnapshots == <<Busy, Relisted, Later, Empty>>

MCNames == <<"<orphan>", "<shared image layers>", "api", "b1", "build_cache", "c1", "c2",
             "c3", "c4", "container", "db", "i1", "i2", "image", "log_file", "v1", "volume",
             "web">>
MCRank == [n \in ToSet(MCNames) |-> SelectInSeq(MCNames, LAMBDA m : m = n)]
=============================================================================
