---------------------------- MODULE MCAuditChain ----------------------------
(* A hash is the sequence of bodies it stands for, so different logs have    *)
(* different hashes.  Longer sequences than the log reaches keep their last  *)
(* MaxEvents bodies: the set of hashes stays finite and H total.             *)
EXTENDS AuditChain, TLC

MCHashes == UNION {[1..n -> Bodies] : n \in 0..MaxEvents}
MCH(p, b) == Append(IF Len(p) < MaxEvents THEN p ELSE Tail(p), b)
MCGenesis == <<>>
=============================================================================
