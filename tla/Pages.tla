--------------------------------- MODULE Pages ---------------------------------
(***************************************************************************)
(* The pages of the web client that post with an idempotency key, their    *)
(* user, and the network between them and the service, which takes a key   *)
(* once (StockLedger, SaleLedger and ReturnLedger say so).                 *)
(***************************************************************************)
EXTENDS Integers, FiniteSets

CONSTANTS
  Operations,   \* what the user means to do; each is entered once
  Nothing,      \* an empty form
  MaxKeys       \* how many calls are made; bounds the keys

Forms == {"movement", "transfer", "sale", "return"}

\* The forms of a page share its loading flag.
Page(f) == CASE f \in {"movement", "transfer"} -> "inventory"
             [] f = "sale" -> "sales"
             [] f = "return" -> "receipt"
Showing == {Page(f) : f \in Forms}

\* The forms whose Button is given a disabled property of its own.  The properties are
\* spread after disabled={loading || props.disabled} and so replace it.
Overriding == {"transfer", "sale", "return"}

VARIABLES
  form,      \* the operation that each form holds
  entered,   \* the operations that have been entered
  loading,   \* of each page
  calls,     \* the calls that have not settled, with how far each has come
  keys,      \* how many keys have been made
  applied    \* what the service has recorded: an operation under a key

vars == <<form, entered, loading, calls, keys, applied>>

Disabled(f) == f \notin Overriding /\ loading[Page(f)]

Enter(f) ==
  /\ form[f] = Nothing
  /\ \E o \in Operations \ entered :
       /\ form' = [form EXCEPT ![f] = o]
       /\ entered' = entered \cup {o}
  /\ UNCHANGED <<loading, calls, keys, applied>>

\* recordMovement, transferStock, confirmSale, submitReturn up to the await: the key is
\* made in the call.
Submit(f) ==
  /\ form[f] # Nothing /\ ~Disabled(f)
  /\ keys < MaxKeys
  /\ keys' = keys + 1
  /\ calls' = calls \cup {[form |-> f, key |-> keys, operation |-> form[f], at |-> "sent"]}
  /\ loading' = [loading EXCEPT ![Page(f)] = TRUE]
  /\ UNCHANGED <<form, entered, applied>>

\* The service takes the call, or refuses it.
Serve(c) ==
  /\ c.at = "sent"
  /\ \/ /\ applied' = applied \cup {[key |-> c.key, operation |-> c.operation]}
        /\ calls' = (calls \ {c}) \cup {[c EXCEPT !.at = "taken"]}
     \/ /\ calls' = (calls \ {c}) \cup {[c EXCEPT !.at = "refused"]}
        /\ UNCHANGED applied
  /\ UNCHANGED <<form, entered, loading, keys>>

Settle(c) ==
  /\ calls' = calls \ {c}
  /\ loading' = [loading EXCEPT ![Page(c.form)] = FALSE]
  /\ UNCHANGED <<entered, keys, applied>>

\* The answer arrives and the form is emptied; confirmSale reads the receipt first.
Succeed(c) ==
  /\ c.at = "taken"
  /\ form' = [form EXCEPT ![c.form] = Nothing]
  /\ Settle(c)

\* catch: the page shows an error and keeps the form, if the call was refused, if it or its
\* answer is lost, or if a sale was made and then its receipt was not read.
Catch(c) == UNCHANGED form /\ Settle(c)

Init ==
  /\ form = [f \in Forms |-> Nothing]
  /\ entered = {}
  /\ loading = [p \in Showing |-> FALSE]
  /\ calls = {}
  /\ keys = 0
  /\ applied = {}

Next ==
  \/ \E f \in Forms : Enter(f) \/ Submit(f)
  \/ \E c \in calls : Serve(c) \/ Succeed(c) \/ Catch(c)

Spec == Init /\ [][Next]_vars

-------------------------------------------------------------------------------
\* decisions/0005 has clients make "a new key for each new business operation and reuse
\* it only for retries", so that what a user enters once takes effect at most once.  It
\* does not: a second click on Confirm sale while the first call is running, or a second
\* try after a lost answer, is another call with another key.
OneKeyPerOperation ==
  \A a, b \in applied : a.operation = b.operation => a.key = b.key
===============================================================================
