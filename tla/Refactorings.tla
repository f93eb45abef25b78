----------------------------- MODULE Refactorings -----------------------------
(***************************************************************************)
(* One refactoring of rope: an extraction of a method (ExtractMethod), or a *)
(* change of a signature (Signature).  The two share no state; the          *)
(* variables of the one that is not performed are None all the time.        *)
(***************************************************************************)
EXTENDS ExtractMethod

CONSTANTS NoValue, None, Names, Definitions, MaxChangers

VARIABLES definition, mapping, wanted, removed, unset, applied

signature == <<definition, mapping, wanted, removed, unset, applied>>
extraction == vars

Sig == INSTANCE Signature

ASSUME SignatureAssumption ==
    MaxChangers \in Nat /\ \A def \in Definitions : Sig!IsDefinition(def)

NoSignature ==
  /\ definition = None /\ mapping = None /\ wanted = None
  /\ removed = None /\ unset = None /\ applied = None
NoExtraction ==
  /\ program = None /\ params = None /\ region = None /\ pc = None
  /\ env = None /\ outer = None /\ inner = None /\ broken = None

OneInit == (Sig!Init /\ NoExtraction) \/ (Init /\ NoSignature)
OneNext ==
  \/ program # None /\ Next /\ UNCHANGED signature
  \/ definition # None /\ Sig!Next /\ UNCHANGED extraction
OneSpec == OneInit /\ [][OneNext]_<<signature, extraction>>

\* A changed signature and a changed call of it bind what they bound before:
\* see Signature (change_signature.py).
SignatureKept == definition # None => Sig!BindingKept

\* A function reads with a piece extracted what it read before: see
\* ExtractMethod (extract.py).
ExtractionKept == program # None => ReadsKept
=============================================================================
