------------------------------ MODULE ServedMC ------------------------------
(***************************************************************************)
(* An instance of the parts of the served tree that clients drive through  *)
(* files of its own: field files with ctl, the inbox, and search.  They    *)
(* share no state, so a behaviour is of one of them: what one part does    *)
(* to a property of another is nothing.                                    *)
(***************************************************************************)
EXTENDS FilesMC, Inbox, SearchHandles

CONSTANTS snapX, snapY, askX, askY

VARIABLE part

ServedInit == Init /\ InboxInit /\ SearchInit /\ part \in {"files", "inbox", "search"}

ServedNext ==
  /\ \/ part = "files" /\ Next /\ UNCHANGED <<inboxvars, searchvars>>
     \/ part = "inbox" /\ InboxNext /\ UNCHANGED <<vars, searchvars>>
     \/ part = "search" /\ SearchNext /\ UNCHANGED <<vars, inboxvars>>
  /\ UNCHANGED part

ServedSpec == ServedInit /\ [][ServedNext]_<<vars, inboxvars, searchvars, part>>

\* askX finds snapX and askY finds snapY, so what swaps both pairs is a symmetry.
SomeAnswers == [ask \in Queries |-> IF ask = askX THEN {snapX} ELSE {snapY}]

Swaps ==
  {(snapX :> snapY) @@ (snapY :> snapX) @@ (askX :> askY) @@ (askY :> askX),
   [z \in {snapX, snapY, askX, askY} |-> z]}

ServedSymmetry ==
  {a @@ b @@ c @@ d : a \in Permutations(Readers), b \in Permutations(CloneFids), c \in Swaps,
                      d \in Permutations(Fids)}
=============================================================================
