---------------------------- MODULE MCPreviewWorker ----------------------------
(***************************************************************************)
(* Small instances of the preview worker.                                  *)
(***************************************************************************)
EXTENDS PreviewWorker, TLC

Pv(st, pg, w, r, e, i, l, f) ==
    [status |-> st, pages |-> pg, workers |-> w, refreshes |-> r, edits |-> e, images |-> i, losses |-> l, faults |-> f]
PreviewPlans ==
    {Pv(<<"ok", "pending">>, {"failed"}, 1, 2, 0, 0, 0, 0),
     Pv(<<"pending">>, {"failed", "image", "bare"}, 1, 1, 0, 0, 0, 1),
     Pv(<<"pending">>, {"bare", "image"}, 2, 1, 1, 0, 0, 0),
     Pv(<<"pending">>, {"bare"}, 1, 0, 0, 2, 1, 0)}
=============================================================================
