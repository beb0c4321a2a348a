------------------------------- MODULE MCMail -------------------------------
(* Two desks, an address and a tagged form of it, for TLC. *)
EXTENDS Mail, TLC

CONSTANTS a, aTag, d1, d2, r1

MCBaseOf == (a :> a) @@ (aTag :> a)
MCDeskOf == (r1 :> d1)

\* An envelope, a tagged one with a To: of another desk, a forwarded message
\* and a message that has headers only.
MCPayloads ==
  {[delivery |-> <<a>>, headers |-> {}],
   [delivery |-> <<aTag>>, headers |-> {a}],
   [delivery |-> <<>>, headers |-> {a, aTag}]}
=============================================================================
