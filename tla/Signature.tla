------------------------------ MODULE Signature ------------------------------
(***************************************************************************)
(* ChangeSignature of rope/refactor/change_signature.py, on one definition  *)
(* and one call of it: the DefinitionInfo, CallInfo and ArgumentMapping of  *)
(* functionutils.py and the changers, applied one after the other.  (rope   *)
(* changes the definition through all changers first, and then the mapping; *)
(* a changer sees the definition as it was before it in both orders.)       *)
(*                                                                         *)
(*   definition   args: the parameters with their defaults, in order; star  *)
(*                and kw: it has *args, it has **kw                         *)
(*   call         args: the positional arguments; keywords: name -> value   *)
(*   mapping      ArgumentMapping: param_dict, args_arg and keyword_args    *)
(*                                                                         *)
(* The instance a method or a constructor gets is an argument like others.  *)
(* Values are opaque: each expression of the call and of the definition is  *)
(* a value of its own.                                                      *)
(***************************************************************************)
EXTENDS Integers, Sequences
Seqs == INSTANCE SequencesExt

CONSTANTS
    Names,         \* the names of parameters and keywords
    NoValue,       \* None as a default or as a value
    Definitions,   \* the definitions to start from
    MaxChangers    \* bound: how many changers are applied

VARIABLES
    definition,   \* the definition as the changers so far leave it
    mapping,      \* the ArgumentMapping of the call
    wanted,       \* what each parameter that is left was bound to by the call
    removed,      \* the names of removed parameters whose argument is kept
    unset,        \* the parameters added with neither a default nor a value
    applied       \* how many changers were applied

vars == <<definition, mapping, wanted, removed, unset, applied>>

Argument(i) == <<"argument", i>>
Keyword(name) == <<"keyword", name>>
Default(name) == <<"default", name>>
Given(name) == <<"given", name>>

\* The definitions there are: no parameter twice, each default its own.
Parameter == [name : Names, default : {NoValue} \cup {Default(name) : name \in Names}]
IsDefinition(def) ==
    /\ def \in [args : Seq(Parameter), star : BOOLEAN, kw : BOOLEAN]
    /\ \A i, j \in DOMAIN def.args : def.args[i].name = def.args[j].name => i = j

Count(def) == Len(def.args)
NameAt(def, i) == def.args[i].name
Parameters(def) == {NameAt(def, i) : i \in 1..Count(def)}
DefaultOf(def, name) ==
    LET i == CHOOSE i \in 1..Count(def) : NameAt(def, i) = name IN def.args[i].default

Only(f, S) == [x \in S |-> f[x]]

-----------------------------------------------------------------------------
(* What Python makes of a call: the reference. *)

Positional(def, call) == {NameAt(def, i) : i \in 1..Count(def) \cap DOMAIN call.args}

\* Each argument has a parameter, and none has two.
Fits(def, call) ==
    /\ Len(call.args) <= Count(def) \/ def.star
    /\ DOMAIN call.keywords \cap Positional(def, call) = {}
    /\ DOMAIN call.keywords \subseteq Parameters(def) \/ def.kw

\* The parameters that are neither passed nor have a default.
Missing(def, call) ==
    {p \in Parameters(def) \ (Positional(def, call) \cup DOMAIN call.keywords) :
        DefaultOf(def, p) = NoValue}

Accepts(def, call) == Fits(def, call) /\ Missing(def, call) = {}

Bound(def, call) ==
    [params |-> [p \in Parameters(def) |->
        IF \E i \in DOMAIN call.args : i <= Count(def) /\ NameAt(def, i) = p
        THEN call.args[CHOOSE i \in DOMAIN call.args : i <= Count(def) /\ NameAt(def, i) = p]
        ELSE IF p \in DOMAIN call.keywords THEN call.keywords[p] ELSE DefaultOf(def, p)],
     args_arg |-> SubSeq(call.args, Count(def) + 1, Len(call.args)),
     keyword_args |-> Only(call.keywords, DOMAIN call.keywords \ Parameters(def))]

-----------------------------------------------------------------------------
(* ArgumentMapping *)

\* __init__: by place, then by name.
ArgumentMapping(def, call) ==
    LET places == DOMAIN call.args \cap 1..Count(def)
        named == DOMAIN call.keywords \cap Parameters(def)
    IN  [param_dict |->
           [p \in {NameAt(def, i) : i \in places} \cup named |->
              IF p \in named THEN call.keywords[p]
              ELSE call.args[CHOOSE i \in places : NameAt(def, i) = p]],
         args_arg |-> SubSeq(call.args, Count(def) + 1, Len(call.args)),
         keyword_args |-> Only(call.keywords, DOMAIN call.keywords \ named)]

\* The parameters that are passed by place: up to the first one that is not
\* in the mapping.
Leading(def, map) ==
    {i \in 1..Count(def) : \A j \in 1..i : NameAt(def, j) \in DOMAIN map.param_dict}

\* to_call_info: behind a gap parameters are passed by name; what is left
\* over for *args follows the ones that are passed by place.
ToCallInfo(def, map) ==
    LET places == Leading(def, map)
        named == {NameAt(def, i) : i \in 1..Count(def) \ places} \cap DOMAIN map.param_dict
    IN  [args |-> [i \in places |-> map.param_dict[NameAt(def, i)]] \o map.args_arg,
         keywords |-> [p \in named \cup DOMAIN map.keyword_args |->
                         IF p \in named THEN map.param_dict[p] ELSE map.keyword_args[p]]]

-----------------------------------------------------------------------------
\* The calls of a definition that Python accepts, each argument a value of
\* its own: some by place, some of the rest by name.
CallsOf(def) ==
    LET calls == {[args |-> [i \in 1..n |-> Argument(i)],
                   keywords |-> [p \in named |-> Keyword(p)]] :
                     n \in 0..(Count(def) + 1), named \in SUBSET Names}
    IN  {call \in calls : Accepts(def, call)}

Init ==
    /\ definition \in Definitions
    /\ \E call \in CallsOf(definition) :
         /\ mapping = ArgumentMapping(definition, call)
         /\ wanted = Bound(definition, call)
    /\ removed = {} /\ unset = {} /\ applied = 0

Apply(def) ==
    /\ applied < MaxChangers /\ applied' = applied + 1
    /\ definition' = def

Inserted(s, i, x) == SubSeq(s, 1, i - 1) \o <<x>> \o SubSeq(s, i, Len(s))

\* ArgumentAdder raises RefactoringError for a parameter that is there.
Duplicate(name) == name \in Parameters(definition)

\* ArgumentAdder, with a default, a value for the calls, both or neither.
Add ==
    \E i \in 1..(Count(definition) + 1), name \in Names,
       default \in {NoValue, Default("new")}, value \in {NoValue, Given("new")} :
        /\ ~Duplicate(name)
        /\ Apply([definition EXCEPT !.args =
                    Inserted(@, i, [name |-> name, default |-> default])])
        /\ mapping' = IF value = NoValue THEN mapping
                      ELSE [mapping EXCEPT !.param_dict =
                              [p \in DOMAIN @ \cup {name} |-> IF p = name THEN value ELSE @[p]]]
        /\ wanted' = [wanted EXCEPT !.params =
                        [p \in DOMAIN @ \cup {name} |->
                           IF p # name THEN @[p] ELSE IF value = NoValue THEN default ELSE value]]
        /\ removed' = IF value = NoValue THEN removed ELSE removed \ {name}
        /\ unset' = IF default = NoValue /\ value = NoValue THEN unset \cup {name} ELSE unset

\* ArgumentRemover of a parameter.  It looks for the pair of the first name
\* and its default among the names of the mapping: nothing is deleted there.
RemoveParameter ==
    \E i \in 1..Count(definition) :
        LET name == NameAt(definition, i)
        IN  /\ Apply([definition EXCEPT !.args = Seqs!RemoveAt(@, i)])
            /\ wanted' = [wanted EXCEPT !.params = Only(@, DOMAIN @ \ {name})]
            /\ removed' = removed \cup ({name} \cap DOMAIN mapping.param_dict)
            /\ unset' = unset \ {name}
            /\ UNCHANGED mapping

\* ArgumentRemover of *args and of **kw.
RemoveStar ==
    /\ definition.star
    /\ Apply([definition EXCEPT !.star = FALSE])
    /\ wanted' = [wanted EXCEPT !.args_arg = <<>>]
    /\ UNCHANGED <<mapping, removed, unset>>

RemoveKeywords ==
    /\ definition.kw
    /\ Apply([definition EXCEPT !.kw = FALSE])
    /\ wanted' = [wanted EXCEPT !.keyword_args = [p \in {} |-> NoValue]]
    /\ UNCHANGED <<mapping, removed, unset>>

\* Mutant: the default takes the place of the argument that is given.
Inlined_Always(i) ==
    [mapping EXCEPT !.param_dict =
        [p \in DOMAIN @ \cup {NameAt(definition, i)} |->
            IF p = NameAt(definition, i) THEN definition.args[i].default ELSE @[p]]]

\* ArgumentDefaultInliner.change_argument_mapping
Inlined(i) ==
    LET name == NameAt(definition, i)
    IN  IF name \in DOMAIN mapping.param_dict THEN mapping
        ELSE [mapping EXCEPT !.param_dict =
                [p \in DOMAIN @ \cup {name} |->
                    IF p = name THEN definition.args[i].default ELSE @[p]]]

\* ArgumentDefaultInliner, which takes the default away when `remove` is set.
InlineDefault ==
    \E i \in 1..Count(definition), remove \in BOOLEAN :
        /\ definition.args[i].default # NoValue
        /\ Apply(IF remove THEN [definition EXCEPT !.args[i].default = NoValue]
                           ELSE definition)
        /\ mapping' = Inlined(i)
        /\ UNCHANGED <<wanted, removed, unset>>

Orders(n) == {o \in [1..n -> 1..n] : \A i, j \in 1..n : o[i] = o[j] => i = j}

\* A parameter behind one that has a default gets one, too.
Filled(args, autodef) ==
    [i \in DOMAIN args |->
        IF args[i].default = NoValue /\ \E j \in 1..i : args[j].default # NoValue
        THEN [args[i] EXCEPT !.default = autodef] ELSE args[i]]

\* ArgumentReorderer; autodef None fills nothing.
Reorder ==
    \E order \in Orders(Count(definition)), autodef \in {NoValue, Default("auto")} :
        LET args == [i \in DOMAIN order |-> definition.args[order[i]]]
        IN  /\ Apply([definition EXCEPT !.args = Filled(args, autodef)])
            /\ UNCHANGED <<mapping, wanted, removed, unset>>

Next == Add \/ RemoveParameter \/ RemoveStar \/ RemoveKeywords \/ InlineDefault \/ Reorder

Spec == Init /\ [][Next]_vars

-----------------------------------------------------------------------------
(* Properties *)

\* What a changer cannot do, and says nothing about: arguments for *args move
\* up when a parameter before them is not given; arguments for *args or **kw
\* are passed on when it is removed; a name that a call already uses, or that
\* a removed parameter had, is passed to the parameter that gets it.
ExtrasMove == mapping.args_arg # <<>> /\ Leading(definition, mapping) # 1..Count(definition)
ExtrasStay ==
    \/ mapping.args_arg # <<>> /\ ~definition.star
    \/ DOMAIN mapping.keyword_args # {} /\ ~definition.kw
NamesMix ==
    Parameters(definition) \cap (DOMAIN mapping.keyword_args \cup removed) # {}

\* The changed definition has no parameter twice, and by it each argument of
\* the changed call has one parameter: each parameter is bound to the value it
\* had, whatever was passed by place or by name, and whichever changers were
\* applied, but for the cases above.  Only a parameter that was added with
\* neither a default nor a value may be missing from the call.
BindingKept ==
    /\ \A i, j \in 1..Count(definition) :
          NameAt(definition, i) = NameAt(definition, j) => i = j
    /\ ExtrasMove \/ ExtrasStay \/ NamesMix \/
          LET call == ToCallInfo(definition, mapping)
              bound == Bound(definition, call)
          IN  /\ Fits(definition, call) /\ Missing(definition, call) \subseteq unset
              /\ \A p \in Parameters(definition) \ unset : bound.params[p] = wanted.params[p]
              /\ bound.args_arg = wanted.args_arg
              /\ bound.keyword_args = wanted.keyword_args
=============================================================================
