------------------------ MODULE MCFullBackedPipeline ------------------------
(* Instances of FullBackedPipeline for TLC. *)
EXTENDS FullBackedPipeline

Anywhere == Points \X AllStages

Route(m, p, k) == [method |-> m, mapped |-> p, keep_knn |-> k]
AllRoutes == {Route("umap", TRUE, FALSE), Route("umap", FALSE, FALSE),
              Route("umap", FALSE, TRUE), Route("tsne", FALSE, FALSE)}
TsneRoute == {Route("tsne", FALSE, TRUE)}
=============================================================================
