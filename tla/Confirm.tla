------------------------------ MODULE Confirm ------------------------------
(***************************************************************************)
(* The confirmation dialog of the web front end (showConfirm in            *)
(* backend/web/static/js/app.js), asked before everything that cannot be   *)
(* undone: restore, import, delete, terminate, uninstall, restart, ...     *)
(*                                                                         *)
(* One dialog is on the screen.  Opening another removes its element, but  *)
(* neither settles its promise nor takes back the key handler it put on    *)
(* the document; a handler leaves only with the Enter or Escape it acts    *)
(* on, whatever that key was pressed for.                                  *)
(***************************************************************************)
CONSTANTS
  Box,      \* the calls of showConfirm
  NoBox     \* no dialog on the screen

ASSUME ConfirmAssumption == NoBox \notin Box

VARIABLES
  box,       \* the dialog on the screen
  open,      \* the calls whose promise is not settled
  handlers,  \* the calls whose key handler is on the document
  swapped    \* history: the open calls whose dialog another one removed

confirmVars == <<box, open, handlers, swapped>>

ConfirmTypeOK ==
  /\ box \in open \cup {NoBox}
  /\ handlers \subseteq Box /\ open \subseteq handlers
  /\ swapped \subseteq open

ConfirmInit == box = NoBox /\ open = {} /\ handlers = {} /\ swapped = {}

\* A call that is over and has left no handler may be made again; of the names
\* that are free it does not matter which.
showConfirm(b) ==
  /\ b \notin handlers /\ b = CHOOSE c \in Box : c \notin handlers
  /\ box' = b
  /\ open' = open \cup {b}
  /\ handlers' = handlers \cup {b}
  /\ swapped' = swapped \cup ({box} \ {NoBox})

\* A promise settles once.
Settled(bs) == open' = open \ bs /\ swapped' = swapped \ bs

\* Variant for checking the properties: the backdrop only removes the dialog.
PressRemoves ==
  /\ box # NoBox
  /\ box' = NoBox
  /\ UNCHANGED <<open, handlers, swapped>>

\* The buttons, the cross and the backdrop leave the key handler behind.
Press ==
  /\ box # NoBox
  /\ Settled({box}) /\ box' = NoBox
  /\ UNCHANGED handlers

\* Enter or Escape: every handler on the document acts on it and goes.
Key ==
  /\ handlers # {}
  /\ Settled(handlers) /\ box' = NoBox
  /\ handlers' = {}
=============================================================================
