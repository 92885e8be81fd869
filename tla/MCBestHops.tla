----------------------------- MODULE MCBestHops -----------------------------
(***************************************************************************)
(* Hashes of three bytes of two bits, so distances 0..5; 2 and below count  *)
(* as implausible.  Up to four nodes in a reply, of which two are pursued.  *)
(***************************************************************************)
EXTENDS BestHops

MCTarget == {<<{}, {}, {}>>, <<{1}, {2}, {}>>}

MCNode ==
    {<<{1}, {}, {}>>, <<{2}, {}, {}>>, <<{1, 2}, {1}, {}>>,
     <<{}, {1}, {2}>>, <<{}, {2}, {}>>, <<{1}, {2}, {2}>>, <<{1}, {2}, {}>>}

=============================================================================
