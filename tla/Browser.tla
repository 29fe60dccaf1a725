------------------------------ MODULE Browser ------------------------------
(***************************************************************************)
(* What the pages of the web client share.  A page is one state machine:   *)
(* an event handler or the continuation of an await runs to its end before *)
(* the next one starts, and other requests may be served in between.       *)
(***************************************************************************)
EXTENDS Naturals

CONSTANTS
  Tables,        \* the table definitions a page may show
  Nothing        \* no answer yet, nothing open

ASSUME BrowserAssumption == Nothing \notin Nat
=============================================================================
