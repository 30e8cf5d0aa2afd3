------------------------- MODULE MCLayoutSnapshots --------------------------
(* Instances of LayoutSnapshots for TLC. *)
EXTENDS LayoutSnapshots

AllPoints == LayoutPoints

Route(m, s, t) == [method |-> m, storage |-> s, tail |-> t]
AllRoutes == {Route("umap", "memory", FALSE), Route("umap", "memory", TRUE),
              Route("umap", "mmap", FALSE), Route("umap", "mmap", TRUE),
              Route("tsne", "memory", FALSE)}
MappedRoute == {Route("umap", "mmap", FALSE)}
=============================================================================
