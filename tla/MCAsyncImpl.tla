----------------------------- MODULE MCAsyncImpl -----------------------------
(* AsyncImpl.tla on impl blocks of a method with any two arguments, and on    *)
(* blocks of up to two items with any one.                                    *)
EXTENDS AsyncImpl

\* The types that the macro can tell apart.
MCTypes ==
    [wrap : {"no", "Option<_>"}, ref : {"&", "&mut"}, elem : {"str", "[_]", "T"}]
    \cup [wrap : {"no", "Option<_>"}, ref : {"no"}, elem : {"T"}]
    \cup [wrap : {"Option", "Option<'a>", "Option<>"}, ref : {"no"}, elem : {"T"}]
    \cup [wrap : {"std::Option<_>"}, ref : {"&"}, elem : {"str"}]
MCTyped == [arg : {"typed"}, this : BOOLEAN, ident : BOOLEAN, type : MCTypes]

One == {<<>>} \cup {<<a>> : a \in MCTyped \cup Receivers}
Two == {<<a, b>> : a \in MCTyped \cup Receivers, b \in MCTyped}
Fn(signatures) == [item : {"fn"}, async : BOOLEAN, inputs : signatures]
Item == Fn(One) \cup {[item |-> "other"]}

MCInputs ==
    [kind : {"other", "trait_impl"}, items : {<<>>}]
    \cup [kind : {"impl"}, items : {<<>>} \cup {<<f>> : f \in Fn(Two)} \cup (Item \X Item)]
=============================================================================
