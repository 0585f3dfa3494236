------------------------------- MODULE Console -------------------------------
(***************************************************************************)
(* The local appliance console (console/src/lib.rs and the menu loop of    *)
(* console/src/main.rs), one process on each terminal.                     *)
(*                                                                         *)
(* A console decides by itself whether a lifecycle action needs the        *)
(* operator's password: Platform1 trusts its service identity.  What it    *)
(* knows of the account is one Boolean, `enrolled', read from Session1     *)
(* before each decision, while the other console, the browser that pairs   *)
(* and a sequence that outlived its caller change the account.  An         *)
(* operator is a number that no later enrollment has again: the code never *)
(* sees it.                                                                *)
(***************************************************************************)
EXTENDS Naturals

CONSTANTS
    Consoles,       \* the terminals: tty1 and ttyS0 in the image
    NoConsole,
    MAX_OPERATOR    \* bound: enrollments of one behaviour

ASSUME ConsolesAssumption == NoConsole \notin Consoles
ASSUME OperatorAssumption == MAX_OPERATOR \in Nat \ {0}

VARIABLES
    operator,       \* the enrolled operator, 0 when there is none
    enrollments,    \* how many operators there have been
    code,           \* the pairing code: none, pending, or shown on a console
    reset_pending,  \* the marker of an incomplete reset
    sequence,       \* the lifecycle sequence that holds platformd's permit
    ctl,            \* ctl[c]: the fields of Controller
    pc,             \* pc[c]: where the menu loop and the controller are
    next,           \* next[c]: the action being performed
    seen,           \* history: the operator at c's last status read
    proof           \* history: the operator whose password unlocked c

world == <<operator, enrollments, code, reset_pending, sequence>>
history == <<seen, proof>>
vars == <<world, ctl, pc, next, history>>

Action == {"Enable", "Disable", "Reenroll"}
None == "none"
NoSequence == [action |-> None, owner |-> NoConsole, reset |-> FALSE]
NewController ==
    [authenticated |-> FALSE, last_enrolled |-> None, reset_incomplete |-> FALSE]
(* Where a person has to type: run's lines and read_secret's. *)
Lines == {"menu", "error"}
Secrets == {"password", "recovery"}
Prompts == Lines \cup Secrets
(* main: without a connection to the bus. *)
Offline == {"connect", "sleep"}
Places == Prompts \cup Offline \cup
    {"refresh", "enrollment", "settle", "settle_enrollment", "authenticate",
     "verify", "reauthenticate", "act", "platform", "waiting", "recover"}

Goto(c, place) == pc' = [pc EXCEPT ![c] = place]
Set(c, controller) == ctl' = [ctl EXCEPT ![c] = controller]
Reads(c) == pc[c] \in {"enrollment", "settle_enrollment"}
Knows(c) == ctl[c].last_enrolled = "enrolled"

-----------------------------------------------------------------------------
(* Controller::status. *)

Enrolled == IF operator # 0 THEN "enrolled" ELSE "not enrolled"

status(c) ==
    [ctl[c] EXCEPT
        !.authenticated = @ /\ ctl[c].last_enrolled \in {None, Enrolled},
        !.last_enrolled = Enrolled]

(* The history of a status read that answered. *)
Saw(c) ==
    /\ seen' = [seen EXCEPT ![c] = operator]
    /\ proof' = [proof EXCEPT ![c] = IF operator = 0 THEN 0 ELSE @]

(* The read fails: a refresh shows the error prompt, the rest a message. *)
status_unavailable(c) ==
    /\ pc[c] \in {"refresh", "settle", "authenticate", "reauthenticate", "act"}
    /\ Goto(c, IF pc[c] = "refresh" THEN "error" ELSE "refresh")
    /\ UNCHANGED <<world, ctl, next, history>>

-----------------------------------------------------------------------------
(* Controller::refresh, by the menu loop or at the end of an operation. *)

refresh(c) ==
    /\ pc[c] \in {"refresh", "settle"}
    /\ Set(c, status(c)) /\ Saw(c)
    /\ Goto(c, IF pc[c] = "refresh" THEN "enrollment" ELSE "settle_enrollment")
    /\ UNCHANGED <<world, next>>

(* GetRemoteManagementEnrollment answers with the pairing code.  It takes the *)
(* permit, and it never says ResetIncomplete.                                 *)
enrollment(c) ==
    /\ Reads(c) /\ sequence = NoSequence
    /\ Set(c, [ctl[c] EXCEPT !.reset_incomplete = FALSE])
    /\ code' = IF code = "pending" THEN "shown" ELSE code
    /\ Goto(c, IF pc[c] = "enrollment" THEN "menu" ELSE "refresh")
    /\ UNCHANGED <<operator, enrollments, reset_pending, sequence, next, history>>

\* Mutant: the menu loop tries again at once.
enrollment_retries(c) ==
    /\ Reads(c)
    /\ Goto(c, "refresh")
    /\ UNCHANGED <<world, ctl, next, history>>

enrollment_unavailable(c) ==
    /\ Reads(c)
    /\ Goto(c, IF pc[c] = "enrollment" THEN "error" ELSE "refresh")
    /\ UNCHANGED <<world, ctl, next, history>>

-----------------------------------------------------------------------------
(* The menu.  What it shows of the account is what refresh left.  *)

perform(c, action) ==
    /\ pc[c] = "menu"
    /\ next' = [next EXCEPT ![c] = action]
    /\ Goto(c, IF Knows(c) /\ ~ctl[c].authenticated THEN "password" ELSE "act")
    /\ UNCHANGED <<world, ctl, history>>

choose_authenticate(c) ==
    /\ pc[c] = "menu" /\ ~ctl[c].authenticated /\ Knows(c)
    /\ next' = [next EXCEPT ![c] = None]
    /\ Goto(c, "password")
    /\ UNCHANGED <<world, ctl, history>>

logout(c) ==
    /\ pc[c] = "menu" /\ ctl[c].authenticated
    /\ Set(c, [ctl[c] EXCEPT !.authenticated = FALSE])
    /\ proof' = [proof EXCEPT ![c] = 0]
    /\ Goto(c, "refresh")
    /\ UNCHANGED <<world, next, seen>>

choose_recover(c) ==
    /\ pc[c] = "menu"
    /\ Goto(c, "recovery")
    /\ UNCHANGED <<world, ctl, next, history>>

(* R, Enter, an unknown choice, a cancelled one, Enter at the error prompt. *)
choose_refresh(c) ==
    /\ pc[c] \in Lines
    /\ Goto(c, "refresh")
    /\ UNCHANGED <<world, ctl, next, history>>

(* The password, or the recovery key and the new password twice. *)
read_secret(c) ==
    /\ pc[c] \in Secrets
    /\ Goto(c, IF pc[c] = "password" THEN "authenticate" ELSE "recover")
    /\ UNCHANGED <<world, ctl, next, history>>

(* A secret cannot be read, or the new passwords differ: a message. *)
read_secret_fails(c) ==
    /\ pc[c] \in Secrets
    /\ Goto(c, "refresh")
    /\ UNCHANGED <<world, ctl, next, history>>

(* A line cannot be read: the Controller is dropped, main starts over. *)
read_line_fails(c) ==
    /\ pc[c] \in Lines
    /\ Set(c, NewController)
    /\ proof' = [proof EXCEPT ![c] = 0]
    /\ Goto(c, "sleep")
    /\ UNCHANGED <<world, next, seen>>

-----------------------------------------------------------------------------
(* main: a connection and a new Controller, or another try after RETRY_DELAY. *)

connect(c) ==
    /\ pc[c] = "connect"
    /\ Goto(c, "refresh")
    /\ UNCHANGED <<world, ctl, next, history>>

connect_fails(c) ==
    /\ pc[c] = "connect"
    /\ Goto(c, "sleep")
    /\ UNCHANGED <<world, ctl, next, history>>

retry(c) ==
    /\ pc[c] = "sleep"
    /\ Goto(c, "connect")
    /\ UNCHANGED <<world, ctl, next, history>>

-----------------------------------------------------------------------------
(* Controller::authenticate. *)

authenticate(c) ==
    /\ pc[c] = "authenticate"
    /\ Saw(c)
    /\ IF operator = 0
       THEN Set(c, [status(c) EXCEPT !.authenticated = FALSE]) /\ Goto(c, "refresh")
       ELSE Set(c, status(c)) /\ Goto(c, "verify")
    /\ UNCHANGED <<world, next>>

(* The operator enrolled now typed the password. *)
verify_password(c) ==
    /\ pc[c] = "verify" /\ operator # 0
    /\ proof' = [proof EXCEPT ![c] = operator]
    /\ Goto(c, "reauthenticate")
    /\ UNCHANGED <<world, ctl, next, seen>>

verify_fails(c) ==
    /\ pc[c] = "verify"
    /\ Goto(c, "refresh")
    /\ UNCHANGED <<world, ctl, next, history>>

\* Mutant: a success is published whatever the second status says.
reauthenticate_unread(c) ==
    /\ pc[c] = "reauthenticate"
    /\ Saw(c)
    /\ Set(c, [status(c) EXCEPT !.authenticated = TRUE])
    /\ Goto(c, IF next[c] = None THEN "refresh" ELSE "act")
    /\ UNCHANGED <<world, next>>

(* A success is not published if the operator is gone by now. *)
reauthenticate(c) ==
    /\ pc[c] = "reauthenticate"
    /\ Saw(c)
    /\ IF operator = 0
       THEN Set(c, [status(c) EXCEPT !.authenticated = FALSE]) /\ Goto(c, "refresh")
       ELSE /\ Set(c, [status(c) EXCEPT !.authenticated = TRUE])
            /\ Goto(c, IF next[c] = None THEN "refresh" ELSE "act")
    /\ UNCHANGED <<world, next>>

-----------------------------------------------------------------------------
(* Controller::act and the sequence of platformd it calls. *)

act(c) ==
    /\ pc[c] = "act"
    /\ Set(c, status(c)) /\ Saw(c)
    /\ Goto(c, IF \/ operator # 0 /\ ~status(c).authenticated
                  \/ next[c] = "Enable" /\ ctl[c].reset_incomplete
               THEN "refresh" ELSE "platform")
    /\ UNCHANGED <<world, next>>

(* A sequence or the read of another console has the permit. *)
platform_busy(c) ==
    /\ pc[c] = "platform"
    /\ sequence # NoSequence \/ \E other \in Consoles : Reads(other)
    /\ Goto(c, "refresh")
    /\ UNCHANGED <<world, ctl, next, history>>

(* ResetIncomplete, which only Enable answers. *)
platform_reset_incomplete(c) ==
    /\ pc[c] = "platform" /\ sequence = NoSequence
    /\ next[c] = "Enable" /\ reset_pending
    /\ Set(c, [ctl[c] EXCEPT !.reset_incomplete = TRUE])
    /\ Goto(c, "refresh")
    /\ UNCHANGED <<world, next, history>>

platform(c) ==
    /\ pc[c] = "platform" /\ sequence = NoSequence
    /\ ~(next[c] = "Enable" /\ reset_pending)
    /\ sequence' = [action |-> next[c], owner |-> c, reset |-> FALSE]
    /\ Goto(c, "waiting")
    /\ UNCHANGED <<operator, enrollments, code, reset_pending, ctl, next, history>>

(* The deadline passes; the sequence goes on in platformd. *)
platform_timeout(c) ==
    /\ pc[c] = "waiting" /\ sequence.owner = c
    /\ sequence' = [sequence EXCEPT !.owner = NoConsole]
    /\ Goto(c, "refresh")
    /\ UNCHANGED <<operator, enrollments, code, reset_pending, ctl, next, history>>

(* Auth1.EnsurePendingPairing, a step of Enable, and of Reenroll if enabled. *)
Ensured == IF operator = 0 /\ code = None THEN "pending" ELSE code

(* Auth1.ResetEnrollment, a step of Reenroll. *)
SequenceResets ==
    /\ sequence.action = "Reenroll" /\ ~sequence.reset
    /\ sequence' = [sequence EXCEPT !.reset = TRUE]
    /\ operator' = 0 /\ code' = None
    /\ UNCHANGED <<enrollments, reset_pending, ctl, pc, next, history>>

(* Any step may fail, also after the reset, after the marker went, and after *)
(* the call that makes or cancels the code took effect.                      *)
SequenceFails ==
    /\ sequence # NoSequence
    /\ sequence' = NoSequence
    /\ reset_pending' \in {reset_pending, reset_pending /\ ~sequence.reset}
    /\ code' \in {code} \cup
          (IF sequence.action = "Enable" \/ sequence.reset THEN {Ensured} ELSE {}) \cup
          (IF sequence.action = "Disable" THEN {None} ELSE {})
    /\ pc' = [c \in Consoles |-> IF c = sequence.owner THEN "refresh" ELSE pc[c]]
    /\ UNCHANGED <<operator, enrollments, ctl, next, history>>

(* What act does with a success, before it refreshes. *)
acted(controller, action) ==
    IF action = "Reenroll"
    THEN [controller EXCEPT !.authenticated = FALSE, !.reset_incomplete = FALSE]
    ELSE controller

SequenceSucceeds ==
    /\ sequence # NoSequence
    /\ sequence.action = "Reenroll" => sequence.reset
    /\ sequence' = NoSequence
    /\ reset_pending' = (reset_pending /\ sequence.action # "Reenroll")
    /\ \/ sequence.action = "Enable" /\ code' = Ensured
       \/ sequence.action = "Disable" /\ code' = None
       \/ sequence.action = "Reenroll" /\ code' \in {code, Ensured}
    /\ LET Owns(c) == c = sequence.owner
           Locks(c) == Owns(c) /\ sequence.action = "Reenroll"
       IN /\ ctl' = [c \in Consoles |->
                        IF Owns(c) THEN acted(ctl[c], sequence.action) ELSE ctl[c]]
          /\ pc' = [c \in Consoles |-> IF Owns(c) THEN "settle" ELSE pc[c]]
          /\ proof' = [c \in Consoles |-> IF Locks(c) THEN 0 ELSE proof[c]]
    /\ UNCHANGED <<operator, enrollments, next, seen>>

-----------------------------------------------------------------------------
(* Controller::recover_password. *)

recover_password(c) ==
    /\ pc[c] = "recover" /\ operator # 0
    /\ Set(c, [ctl[c] EXCEPT !.authenticated = FALSE])
    /\ proof' = [proof EXCEPT ![c] = 0]
    /\ Goto(c, "settle")
    /\ UNCHANGED <<world, next, seen>>

recover_fails(c) ==
    /\ pc[c] = "recover"
    /\ Goto(c, "refresh")
    /\ UNCHANGED <<world, ctl, next, history>>

(* A browser pairs with the code that a console shows, and confirms. *)
Enroll ==
    /\ operator = 0 /\ code = "shown" /\ enrollments < MAX_OPERATOR
    /\ operator' = enrollments + 1
    /\ enrollments' = enrollments + 1
    /\ code' = None
    /\ UNCHANGED <<reset_pending, sequence, ctl, pc, next, history>>

-----------------------------------------------------------------------------
Init ==
    /\ operator \in {0, 1} /\ enrollments = operator
    /\ code = None
    /\ reset_pending \in BOOLEAN
    /\ sequence = NoSequence
    /\ ctl = [c \in Consoles |-> NewController]
    /\ pc = [c \in Consoles |-> "connect"]
    /\ next = [c \in Consoles |-> None]
    /\ seen = [c \in Consoles |-> 0]
    /\ proof = [c \in Consoles |-> 0]

(* What a person at the terminal does. *)
Person(c) ==
    \/ \E action \in Action : perform(c, action)
    \/ choose_authenticate(c) \/ logout(c) \/ choose_recover(c) \/ choose_refresh(c)
    \/ read_secret(c) \/ read_secret_fails(c) \/ read_line_fails(c)

(* What the program does by itself: calls, each with a deadline, and the delay. *)
Program(c) ==
    \/ retry(c)
    \/ status_unavailable(c) \/ refresh(c) \/ enrollment(c) \/ enrollment_unavailable(c)
    \/ authenticate(c) \/ verify_password(c) \/ verify_fails(c) \/ reauthenticate(c)
    \/ act(c) \/ platform_busy(c) \/ platform_reset_incomplete(c) \/ platform(c)
    \/ recover_password(c) \/ recover_fails(c)

Platformd == SequenceResets \/ SequenceFails \/ SequenceSucceeds

Next ==
    \/ \E c \in Consoles : 
          \/ Person(c) \/ Program(c) \/ platform_timeout(c)
          \/ connect(c) \/ connect_fails(c)
    \/ Platformd
    \/ Enroll

Spec == Init /\ [][Next]_vars

(* Every call has a deadline, and every step of a sequence has one.  Nobody *)
(* has to type, and BusBackend::connect, which has no deadline, may hang.   *)
LiveSpec == Spec /\ (\A c \in Consoles : WF_vars(Program(c))) /\ WF_vars(Platformd)

-----------------------------------------------------------------------------
(* Every variable has its type; a console waits exactly while a sequence is its own. *)
TypeOK ==
    /\ operator \in 0..MAX_OPERATOR /\ enrollments \in operator..MAX_OPERATOR
    /\ code \in {None, "pending", "shown"} /\ reset_pending \in BOOLEAN
    /\ sequence \in [action : Action \cup {None},
                     owner : Consoles \cup {NoConsole}, reset : BOOLEAN]
    /\ ctl \in [Consoles -> [authenticated : BOOLEAN, reset_incomplete : BOOLEAN,
                             last_enrolled : {None, "enrolled", "not enrolled"}]]
    /\ pc \in [Consoles -> Places] /\ next \in [Consoles -> Action \cup {None}]
    /\ seen \in [Consoles -> 0..MAX_OPERATOR] /\ proof \in [Consoles -> 0..MAX_OPERATOR]
    /\ \A c \in Consoles : sequence.owner = c <=> pc[c] = "waiting"

(* A console is unlocked only by a password check it has not forgotten: since *)
(* that VerifyPassword it read no status without an operator, completed no    *)
(* recovery or Reenroll of its own, was not locked and did not start over.    *)
(* (Controller: status, authenticate, act, recover_password.)                 *)
UnlockedByCheck ==
    \A c \in Consoles : ctl[c].authenticated => proof[c] # 0

(* Whoever was enrolled when act read the status gave the password that       *)
(* unlocks this call of Platform1: an unlocked console never acts for an      *)
(* operator who has not authenticated at it.                                  *)
AuthorisedByOperator ==
    \A c \in Consoles : pc[c] = "platform" => seen[c] \in {0, proof[c]}

(* Whatever fails, a console that has a connection comes back to a prompt,    *)
(* and one without comes to a prompt if the bus takes a connection in the end *)
(* when it is asked again and again (main.rs main, run, read_secret).         *)
ConsoleAnswers ==
    \A c \in Consoles :
        /\ pc[c] \notin Prompts \cup Offline ~> pc[c] \in Prompts
        /\ SF_vars(connect(c)) => (pc[c] \in Offline ~> pc[c] \in Prompts)

=============================================================================
