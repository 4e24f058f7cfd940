------------------------------ MODULE AsyncImpl ------------------------------
(***************************************************************************)
(* php_async_impl (crates/macros/src/lib.rs): goes through the items of an *)
(* impl block and through the arguments of each method, and turns the body *)
(* of an async method into a future given to suspend_on(), once the        *)
(* receiver and the arguments that are references have the lifetime        *)
(* 'static.                                                                *)
(***************************************************************************)
EXTENDS Naturals, Sequences

CONSTANT Inputs  \* what the attribute is put on

\* A type: Option<...> or not, a reference or not, and what is referred to.
Types == [wrap : {"no", "Option<_>", "Option", "Option<'a>", "Option<>", "std::Option<_>"},
          ref : {"no", "&", "&mut"}, elem : {"str", "[_]", "T"}]
Receivers == [arg : {"self"}, kind : {"self", "&self", "&mut_self"}]
Typed == [arg : {"typed"}, this : BOOLEAN, ident : BOOLEAN, type : Types]

\* What syn parses: the arguments of a method, the items of a block.
Signatures == {s \in Seq(Receivers \cup Typed) : \A k \in 2..Len(s) : s[k].arg = "typed"}
Items == [item : {"fn"}, async : BOOLEAN, inputs : Signatures] \cup [item : {"other"}]

\* Rust's grammar: self is the first argument.
ASSUME InputsAssumption ==
    Inputs \subseteq [kind : {"impl", "trait_impl", "other"}, items : Seq(Items)]

VARIABLES
    input,             \* the macro's input
    items,             \* the items still to be handled, the first one being handled
    inputs,            \* its arguments still to be handled
    index,             \* how many were
    receiver,          \* as in handle_method()
    receiver_mutable,  \* as in handle_method()
    hack_tokens,       \* as in handle_method(): <<argument, how it is converted>>
    tokens,            \* the items that were generated
    output             \* "none" yet, a compile error or an impl block

vars == <<input, items, inputs, index, receiver, receiver_mutable, hack_tokens, tokens, output>>
method == <<index, receiver, receiver_mutable, hack_tokens>>

\* handle_method(): the next item's arguments, nothing known of them yet.
Method(rest) ==
    /\ items' = rest
    /\ inputs' = IF rest # <<>> /\ Head(rest).item = "fn" THEN Head(rest).inputs ELSE <<>>
    /\ index' = 0 /\ receiver' = FALSE /\ receiver_mutable' = FALSE /\ hack_tokens' = {}

Init ==
    /\ input \in Inputs /\ items = <<>> /\ inputs = <<>>
    /\ index = 0 /\ receiver = FALSE /\ receiver_mutable = FALSE /\ hack_tokens = {}
    /\ tokens = <<>> /\ output = "none"

Stops(error) == output' = error /\ UNCHANGED <<input, items, inputs, method, tokens>>

\* expand() and parser(): what isn't an impl block, or implements a trait, is refused.
Expand ==
    /\ output = "none" /\ items = <<>>
    /\ \/ input.kind = "impl" /\ output' = "parsing" /\ Method(input.items)
          /\ UNCHANGED <<input, tokens>>
       \/ input.kind \in {"other", "trait_impl"} /\ Stops("compile_error")

Parsing(kind) == output = "parsing" /\ items # <<>> /\ Head(items).item = kind

\* parser(): constants, types and macros stay as they are.
OtherItem ==
    /\ Parsing("other")
    /\ tokens' = Append(tokens, Head(items)) /\ Method(Tail(items))
    /\ UNCHANGED <<input, output>>

Arg(kind) == Parsing("fn") /\ inputs # <<>> /\ Head(inputs).arg = kind
NextArg == inputs' = Tail(inputs) /\ index' = index + 1 /\ UNCHANGED <<input, items, tokens, output>>

\* Must the receiver be a reference?
Refused(kind) == kind = "self" /\ Head(items).async

Mutable(kind) == kind = "&mut_self"

\* FnArg::Receiver
Receiver ==
    /\ Arg("self")
    /\ \/ Refused(Head(inputs).kind) /\ Stops("compile_error")
       \/ /\ ~Refused(Head(inputs).kind)
          /\ receiver' = TRUE
          /\ receiver_mutable' = Mutable(Head(inputs).kind)
          /\ NextArg /\ UNCHANGED hack_tokens

\* Mutant: Option<_> isn't looked into.
Reference_Bare(type) == type.wrap = "no" /\ type.ref # "no"

\* Option<_> is looked into if Option is the path's first segment.
IsOption(type) == type.wrap = "Option<_>"
Reference(type) == type.wrap \in {"no", "Option<_>"} /\ type.ref # "no"

\* Mutant: &mut str is transmuted to &'static str.
IsStr_AnyMutability(type) == type.elem = "str"

IsStr(type) == type.ref = "&" /\ type.elem = "str"

\* How an argument of the type gets its lifetime.
Conversion(type) == [option |-> IsOption(type), to |-> IF IsStr(type) THEN "transmute" ELSE "borrow_unchecked"]

\* FnArg::Typed.  Those marked #[this] are skipped; Option<> has no argument 0.
TypedArg ==
    /\ Arg("typed")
    /\ LET arg == Head(inputs) IN
       \/ arg.this /\ NextArg /\ UNCHANGED <<receiver, receiver_mutable, hack_tokens>>
       \/ ~arg.this /\ ~arg.ident /\ Stops("compile_error")
       \/ ~arg.this /\ arg.ident /\ arg.type.wrap = "Option<>" /\ Stops("panicked")
       \/ /\ ~arg.this /\ arg.ident /\ arg.type.wrap # "Option<>"
          /\ hack_tokens' = hack_tokens \cup
                IF Reference(arg.type) THEN {<<index + 1, Conversion(arg.type)>>} ELSE {}
          /\ NextArg /\ UNCHANGED <<receiver, receiver_mutable>>

\* let this = ...
This == CASE ~receiver -> "none" [] receiver /\ receiver_mutable -> "&mut" [] OTHER -> "&"

\* The generated method: a future given to suspend_on(), or the method as it is.
Generated(fn) ==
    IF fn.async THEN [item |-> "suspend_on", of |-> fn.inputs, this |-> This, lets |-> hack_tokens]
    ELSE fn

\* handle_method() returns.
Generate ==
    /\ Parsing("fn") /\ inputs = <<>>
    /\ tokens' = Append(tokens, Generated(Head(items))) /\ Method(Tail(items))
    /\ UNCHANGED <<input, output>>

\* parser() returns the impl block, marked #[php_impl].
Output ==
    /\ output = "parsing" /\ items = <<>>
    /\ output' = "php_impl" /\ UNCHANGED <<input, items, inputs, method, tokens>>

Next == Expand \/ OtherItem \/ Receiver \/ TypedArg \/ Generate \/ Output

Spec == Init /\ [][Next]_vars

-----------------------------------------------------------------------------
(* The extension of lifetimes (src/borrow_unchecked.rs).                   *)

\* What a conversion takes: BorrowUnchecked is implemented for references to a
\* type parameter, which is a sized type.
Takes(conversion) ==
    CASE conversion.to = "transmute" -> {<<"&", "str">>}
      [] conversion.to = "borrow_unchecked" -> {"&", "&mut"} \X {"T"}

-----------------------------------------------------------------------------
(* Properties.                                                             *)

Fns == {i \in 1..Len(input.items) : input.items[i].item = "fn"}
ArgsOf(fn) == {fn.inputs[k] : k \in 1..Len(fn.inputs)}
Referred(a) == <<a.type.ref, a.type.elem>>
BadArg(fn, a) == IF a.arg = "self" THEN fn.async /\ a.kind = "self"
                 ELSE ~a.this /\ (~a.ident \/ a.type.wrap = "Option<>")

\* What the macro's users may expect of a method: each of its arguments that is a
\* reference, by itself or in an Option, is converted and nothing else is, and this
\* stands for self.
ExpectedMethod(fn) ==
    [item |-> "suspend_on", of |-> fn.inputs,
     this |-> IF [arg |-> "self", kind |-> "&mut_self"] \in ArgsOf(fn) THEN "&mut"
              ELSE IF [arg |-> "self", kind |-> "&self"] \in ArgsOf(fn) THEN "&" ELSE "none",
     lets |-> {<<k, [option |-> fn.inputs[k].type.wrap # "no",
                     to |-> IF Referred(fn.inputs[k]) = <<"&", "str">>
                            THEN "transmute" ELSE "borrow_unchecked"]>> :
               k \in {k \in 1..Len(fn.inputs) :
                        LET a == fn.inputs[k] IN
                        a.arg = "typed" /\ ~a.this /\ a.type.ref # "no"
                                        /\ a.type.wrap \in {"no", "Option<_>"}}}]

\* The macro generates what is expected, item by item and in their order, or nothing
\* at all if one of them is refused (lib.rs:38-171).
ExpandsAsExpected ==
    /\ output = "php_impl" =>
          /\ Len(tokens) = Len(input.items)
          /\ \A i \in 1..Len(tokens) :
                tokens[i] = IF i \in Fns /\ input.items[i].async THEN ExpectedMethod(input.items[i])
                            ELSE input.items[i]
    /\ output \in {"php_impl", "compile_error", "panicked"} =>
          (output = "php_impl" <=>
              input.kind = "impl" /\ \A i \in Fns : \A a \in ArgsOf(input.items[i]) : ~BadArg(input.items[i], a))

\* A lifetime is only extended for a future that suspend_on() waits for, of a method
\* that is async, and never turns a shared reference into a mutable one: the safety
\* that borrow_unchecked() asks of the macro (borrow_unchecked.rs:22-29).  The
\* conversion takes the argument's type, but for &mut str and references to slices,
\* for which BorrowUnchecked has no implementation (the method doesn't compile).
Unsized(referred) == referred[2] # "T" /\ referred # <<"&", "str">>
ExtensionsAreSound ==
    \A i \in 1..Len(tokens) : tokens[i].item = "suspend_on" =>
        /\ input.items[i].async
        /\ tokens[i].this # "none" =>
              [arg |-> "self", kind |-> IF tokens[i].this = "&" THEN "&self" ELSE "&mut_self"]
                 \in ArgsOf(input.items[i])
        /\ \A let \in tokens[i].lets :
              LET referred == Referred(tokens[i].of[let[1]])
              IN  referred \in Takes(let[2]) \/ (let[2].to # "transmute" /\ Unsized(referred))
=============================================================================
