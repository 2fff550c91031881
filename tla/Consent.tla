------------------------------- MODULE Consent -------------------------------
(***************************************************************************)
(* What data debits promise the owner of a HAT, whatever requests and      *)
(* transactions carry it out: data leave through a bundle only by a        *)
(* reading that found the bundle open, and a bundle is opened only by the  *)
(* owner, for the debit that asked for it, one debit at a time.            *)
(***************************************************************************)
CONSTANTS Keys,     \* data debits
          Bundles   \* the bundles of data that they ask for

VARIABLES granted,  \* <<debit, bundle>> that the owner has enabled some time
          open,     \* <<debit, bundle>> whose data may be asked for
          reading   \* <<debit, bundle>> that somebody found open, and reads

vars == <<granted, open, reading>>

Of(k) == {k} \X Bundles

Init == granted = {} /\ open = {} /\ reading = {}

(* The owner enables a debit: one bundle of it opens, others may close.    *)
Enable(k, b) ==
    /\ granted' = granted \cup {<<k, b>>}
    /\ \E closed \in SUBSET (open \cap Of(k)) :
          open' = (open \ closed) \cup {<<k, b>>}
    /\ UNCHANGED reading

(* The owner disables a debit, at once or at the end of its period: until  *)
(* then, bundles once granted to it may be open.                           *)
Disable(k) ==
    /\ \E left \in SUBSET (granted \cap Of(k)) : open' = (open \ Of(k)) \cup left
    /\ UNCHANGED <<granted, reading>>

(* A client asks for the data of a debit, and gets them, or does not when  *)
(* the conditions of the debit are not met.                                *)
Read(k, b) ==
    /\ <<k, b>> \in open
    /\ reading' = reading \cup {<<k, b>>}
    /\ UNCHANGED <<granted, open>>

Serve(k, b) ==
    /\ <<k, b>> \in reading
    /\ reading' \in {reading, reading \ {<<k, b>>}}   \* others may read it too
    /\ UNCHANGED <<granted, open>>

Next == \E k \in Keys : \/ Disable(k)
                        \/ \E b \in Bundles : Enable(k, b) \/ Read(k, b) \/ Serve(k, b)

Spec == Init /\ [][Next]_vars
=============================================================================
