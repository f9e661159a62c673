------------------------------- MODULE Consent -------------------------------
(***************************************************************************)
(* What asking the user promises, without prompts, locks, turns or gates:  *)
(* a call is let through because the user said yes to it, because the user *)
(* said yes to its scope for the session, or because a posture the user    *)
(* chose covers it; never because of anything else, and never after a no.  *)
(* Approval implements this specification.                                 *)
(***************************************************************************)
EXTENDS Naturals

CONSTANTS Calls, Scopes, Kinds

VARIABLES
    kind, scope,  \* what each call asks for
    status,       \* "unasked", "asking", "allowed" or "refused"
    answer,       \* what was decided on the prompt: "none", "allow", "session",
                  \* "deny", or "posture" for a switch that answered it
    standing,     \* the scopes the user allowed for the session
    posture,      \* "ask", "auto" or "yolo"
    window        \* an approved plan is being executed

vars == <<kind, scope, status, answer, standing, posture, window>>

Init ==
    /\ kind \in [Calls -> Kinds] /\ scope \in [Calls -> Scopes]
    /\ status = [c \in Calls |-> "unasked"]
    /\ answer = [c \in Calls |-> "none"]
    /\ standing = {} /\ posture = "ask" /\ window = FALSE

\* Only tool permissions may be answered by a posture, and the ones an explicit
\* rule asks for only by "yolo".
Covers(m, c) ==
    \/ m = "auto" /\ kind[c] = "writer"
    \/ m = "yolo" /\ kind[c] \in {"writer", "askRule"}

\* Remembering an answer is open to permissions and to trust decisions.
MayRemember(c) == kind[c] \in {"writer", "askRule", "trust"}

Consented(c) ==
    \/ Covers(posture, c)
    \/ window /\ kind[c] \in {"writer", "askRule"}
    \/ MayRemember(c) /\ scope[c] \in standing

Ask(c) ==
    /\ status[c] = "unasked"
    /\ \/ status' = [status EXCEPT ![c] = "asking"]
       \/ Consented(c) /\ status' = [status EXCEPT ![c] = "allowed"]
    /\ UNCHANGED <<kind, scope, answer, standing, posture, window>>

Decide(c, a) ==
    /\ status[c] = "asking"
    /\ answer[c] = "none"
    /\ answer' = [answer EXCEPT ![c] = a]
    /\ UNCHANGED <<kind, scope, status, standing, posture, window>>

\* A switch decides some of the calls it covers, and no other.
SwitchTo(m) ==
    /\ posture' = m
    /\ \E S \in SUBSET {c \in Calls : /\ status[c] = "asking" /\ answer[c] = "none"
                                      /\ Covers(m, c)} :
          answer' = [c \in Calls |-> IF c \in S THEN "posture" ELSE answer[c]]
    /\ UNCHANGED <<kind, scope, status, standing, window>>

SetWindow(b) ==
    /\ window' = b
    /\ UNCHANGED <<kind, scope, status, answer, standing, posture>>

Allow(c) ==
    /\ status[c] = "asking"
    /\ \/ answer[c] \in {"allow", "session", "posture"}
       \/ answer[c] = "none" /\ Consented(c)
    /\ status' = [status EXCEPT ![c] = "allowed"]
    /\ standing' = IF answer[c] = "session" /\ MayRemember(c)
                   THEN standing \cup {scope[c]} ELSE standing
    /\ UNCHANGED <<kind, scope, answer, posture, window>>

\* The user's no, or nobody to wait for the answer any more.
Refuse(c) ==
    /\ status[c] = "asking"
    /\ status' = [status EXCEPT ![c] = "refused"]
    /\ UNCHANGED <<kind, scope, answer, standing, posture, window>>

Next ==
    \/ \E c \in Calls : \/ Ask(c) \/ Allow(c) \/ Refuse(c)
                        \/ \E a \in {"allow", "session", "deny"} : Decide(c, a)
    \/ \E m \in {"ask", "auto", "yolo"} : SwitchTo(m)
    \/ \E b \in BOOLEAN : SetWindow(b)

Spec == Init /\ [][Next]_vars
=============================================================================
