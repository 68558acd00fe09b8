--------------------------------- MODULE Session ---------------------------------
(***************************************************************************)
(* What a session with minsc is, without any of its machinery: one         *)
(* submission at a time is made, refused or carried out at a stroke, and   *)
(* replied to.  The store of variables outlives the submissions.           *)
(*                                                                         *)
(* A submission stands for what its text means: whether it is accepted,    *)
(* its value, and the values it gives to variables.                        *)
(***************************************************************************)
EXTENDS Naturals, Sequences

CONSTANTS Name,            \* variables
          Value,           \* what an expression evaluates to
          Trap             \* the value of what has none: the process dies of it

VARIABLES submission,      \* the submission under way, if there is one
          store,           \* variable -> value
          reply,           \* the reply to the submission, if there is one
          open             \* the end of the input has not been reached

session_vars == << submission, store, reply, open >>

Stores     == UNION { [ names -> Value ] : names \in SUBSET Name }
Submission == [ accepted : BOOLEAN, value : Value \cup { Trap }, assigns : Stores ]

Empty    == [ name \in {} |-> Trap ]
Refusal  == [ type |-> "refusal" ]
None     == <<>>
The(x)   == << x >>

Init ==
    /\ submission = None /\ reply = None
    /\ store = Empty
    /\ open = TRUE

Submit ==
    /\ open /\ submission = None
    /\ submission' # None /\ submission'[1] \in Submission
    /\ UNCHANGED << store, reply, open >>

Waiting == submission # None /\ reply = None

\* A submission with anything wrong in it changes nothing ...
Refuse ==
    /\ Waiting /\ ~submission[1].accepted
    /\ reply' = The(Refusal)
    /\ UNCHANGED << submission, store, open >>

\* ... and any other one is carried out as a whole.
CarryOut ==
    /\ Waiting /\ submission[1].accepted
    /\ reply' = The(submission[1].value)
    /\ LET assigns == submission[1].assigns IN
       store' = [ name \in DOMAIN store \cup DOMAIN assigns |->
                    IF name \in DOMAIN assigns THEN assigns[name] ELSE store[name] ]
    /\ UNCHANGED << submission, open >>

\* The reply is delivered, unless there is nobody left to do it.
Deliver ==
    /\ reply # None /\ reply[1] # Trap
    /\ submission' = None /\ reply' = None
    /\ UNCHANGED << store, open >>

Close ==
    /\ open /\ submission = None
    /\ open' = FALSE
    /\ store' = Empty
    /\ UNCHANGED << submission, reply >>

Next == Submit \/ Refuse \/ CarryOut \/ Deliver \/ Close

\* Every submission is replied to and every reply delivered, if anybody is left.
Replied   == Waiting ~> reply # None
Delivered == (reply # None /\ reply[1] # Trap) ~> submission = None

\* What a session may do, and what it has to do in the end.
Safety == Init /\ [][Next]_session_vars
Spec   == Safety /\ Replied /\ Delivered
================================================================================
