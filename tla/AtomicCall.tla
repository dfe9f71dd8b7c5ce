----------------------------- MODULE AtomicCall -----------------------------
(***************************************************************************)
(* What a test expects of one blockchain write, whichever helper sends it: *)
(* the write takes effect at most once, the call returns only after it has *)
(* taken effect, and a call that throws never takes effect afterwards.     *)
(***************************************************************************)
CONSTANT Calls

VARIABLES
  answer,   \* what the caller knows: "none", "returned", "threw"
  applied   \* has the write taken effect?

acvars == <<answer, applied>>

Init ==
  /\ answer = [c \in Calls |-> "none"]
  /\ applied = [c \in Calls |-> FALSE]

Apply(c) ==
  /\ answer[c] = "none" /\ ~applied[c]
  /\ applied' = [applied EXCEPT ![c] = TRUE]
  /\ UNCHANGED answer

Return(c) ==
  /\ answer[c] = "none" /\ applied[c]
  /\ answer' = [answer EXCEPT ![c] = "returned"]
  /\ UNCHANGED applied

Throw(c) ==
  /\ answer[c] = "none" /\ ~applied[c]
  /\ answer' = [answer EXCEPT ![c] = "threw"]
  /\ UNCHANGED applied

Next == \E c \in Calls : Apply(c) \/ Return(c) \/ Throw(c)
Spec == Init /\ [][Next]_acvars

=============================================================================
