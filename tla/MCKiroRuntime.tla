--------------------------- MODULE MCKiroRuntime ---------------------------
(* KiroRuntime with an answer of each kind the code acts on differently.   *)
EXTENDS KiroRuntime, TLC

MCAnswers ==
  { Answer(403, NoException, {}, Absent),
    Answer(429, NoException, {}, <<60>>),
    Answer(429, "ThrottlingException", {Allowance}, <<61>>),
    Answer(503, NoException, {}, <<61>>),
    Answer(200, "ThrottlingException", {Allowance}, Absent) }

Symmetry == Permutations(Requests)
=============================================================================
