--------------------------- MODULE MCStreamedPca ----------------------------
(* Seven rows in chunks of two, the last of them with fewer rows than      *)
(* threads; a record after every second block; a resident matrix over two  *)
(* GPUs in batches of two.                                                 *)
EXTENDS StreamedPca

PcaJob(kind, backend, centered, scaled, save, init) ==
    [route |-> kind, backend |-> backend, rows |-> 7, chunk |-> 2, workers |-> 2, every |-> 2,
     centered |-> centered, scaled |-> scaled, save |-> save, init |-> init]

MCPcaJobs == {PcaJob("covariance", "cpu", TRUE, FALSE, TRUE, TRUE),
              PcaJob("covariance", "cuda", TRUE, FALSE, TRUE, FALSE),
              PcaJob("covariance", "cpu", FALSE, FALSE, FALSE, FALSE),
              PcaJob("wide", "cpu", TRUE, TRUE, TRUE, FALSE),
              PcaJob("wide", "cuda", TRUE, FALSE, TRUE, FALSE),
              PcaJob("resident", "cuda", TRUE, FALSE, FALSE, FALSE)}

MCInitJobs == {PcaJob("covariance", "cpu", TRUE, FALSE, TRUE, TRUE)}
=============================================================================
