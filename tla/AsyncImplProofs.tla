-------------------------- MODULE AsyncImplProofs --------------------------
(***************************************************************************)
(* Proofs about AsyncImpl, for any impl block that Rust's grammar allows:  *)
(* any number of items, and any number of arguments.                       *)
(***************************************************************************)
EXTENDS AsyncImpl, Integers, TLAPS

Args == Receivers \cup Typed
Conversions == [option : BOOLEAN, to : {"transmute", "borrow_unchecked"}]
Methods == [item : {"suspend_on"}, of : Signatures, this : {"none", "&", "&mut"},
            lets : SUBSET (Nat \X Conversions)]
Outputs == {"none", "parsing", "php_impl", "compile_error", "panicked"}

\* What the macro goes through, and what it generates, is well formed.
WellFormed ==
    /\ input.kind \in {"impl", "trait_impl", "other"} /\ input.items \in Seq(Items)
    /\ items \in Seq(Items) /\ inputs \in Seq(Args) /\ index \in Nat
    /\ hack_tokens \subseteq Nat \X Conversions
    /\ tokens \in Seq(Items \cup Methods) /\ output \in Outputs

\* The arguments whose lifetime the macro extends, and the lets that the first n
\* arguments of a method give.
Extended(a) == a.arg = "typed" /\ ~a.this /\ Reference(a.type)
Lets(fn, n) == {<<k, Conversion(fn.inputs[k].type)>> : k \in {j \in 1..n : Extended(fn.inputs[j])}}

\* handle_method(): what it knows of the arguments it went through, none of which
\* is refused, and the others.
ArgsHandled(fn) ==
    /\ index + Len(inputs) = Len(fn.inputs)
    /\ \A k \in 1..Len(inputs) : inputs[k] = fn.inputs[index + k]
    /\ hack_tokens = Lets(fn, index)
    /\ receiver <=> (index > 0 /\ fn.inputs[1].arg = "self")
    /\ receiver_mutable <=> (receiver /\ fn.inputs[1].kind = "&mut_self")
    /\ \A k \in 1..index : ~BadArg(fn, fn.inputs[k])
MethodHandled ==
    IF items # <<>> /\ Head(items).item = "fn" THEN ArgsHandled(Head(items)) ELSE inputs = <<>>

\* parser(): what an item becomes, and whether it is accepted.
Expected(item) == IF item.item = "fn" /\ item.async THEN ExpectedMethod(item) ELSE item
Accepted(item) == item.item = "fn" => \A k \in 1..Len(item.inputs) : ~BadArg(item, item.inputs[k])

\* The items that were generated are as expected.
ItemsHandled ==
    /\ Len(tokens) <= Len(input.items)
    /\ \A i \in 1..Len(tokens) : tokens[i] = Expected(input.items[i]) /\ Accepted(input.items[i])

\* Those that are left follow them; the macro ends with all of them or an error.
ItemsLeft ==
    /\ output = "none" => items = <<>> /\ tokens = <<>>
    /\ output \in {"parsing", "php_impl"} =>
          /\ input.kind = "impl" /\ Len(tokens) + Len(items) = Len(input.items)
          /\ \A k \in 1..Len(items) : items[k] = input.items[Len(tokens) + k]
    /\ output = "php_impl" => items = <<>>
    /\ output \in {"compile_error", "panicked"} =>
          input.kind # "impl" \/ \E i \in 1..Len(input.items) : ~Accepted(input.items[i])

MacroInv == WellFormed /\ MethodHandled /\ ItemsHandled /\ ItemsLeft

-----------------------------------------------------------------------------
\* The first argument is a receiver or none is.
LEMMA FirstIsReceiver ==
    ASSUME NEW fn \in Items, fn.item = "fn"
    PROVE  /\ fn.inputs \in Seq(Args) /\ Len(fn.inputs) \in Nat /\ fn.async \in BOOLEAN
           /\ \A k \in 1..Len(fn.inputs) : fn.inputs[k] \in Args /\ (fn.inputs[k].arg = "self" => k = 1)
<1>1. fn.inputs \in Signatures /\ fn.async \in BOOLEAN
  BY DEF Items
<1>2. fn.inputs \in Seq(Args) /\ \A k \in 2..Len(fn.inputs) : fn.inputs[k].arg = "typed"
  BY <1>1 DEF Signatures, Args
<1> QED
  BY <1>1, <1>2

\* Nothing is known of the arguments of a method that is not gone through yet.
LEMMA MethodBegins ==
    ASSUME NEW rest \in Seq(Items), Method(rest)
    PROVE  /\ items' \in Seq(Items) /\ inputs' \in Seq(Args) /\ index' = 0
           /\ receiver' = FALSE /\ receiver_mutable' = FALSE /\ hack_tokens' = {}
           /\ MethodHandled'
<1>1. CASE rest # <<>> /\ Head(rest).item = "fn"
  <2>1. Head(rest) \in Items
    BY <1>1
  <2>2. inputs' = Head(rest).inputs /\ items' = rest /\ inputs' \in Seq(Args)
    BY <1>1, <2>1, FirstIsReceiver DEF Method
  <2>3. ArgsHandled(Head(rest))'
    <3>1. Len(inputs') \in Nat /\ \A k \in 1..Len(inputs') : inputs'[k] = Head(rest).inputs[0 + k]
      BY <2>2
    <3>2. Lets(Head(rest), 0) = {} /\ 1..0 = {}
      BY DEF Lets
    <3> QED
      BY <2>2, <3>1, <3>2 DEF Method, ArgsHandled
  <2> QED
    BY <1>1, <2>2, <2>3 DEF Method, MethodHandled
<1>2. CASE ~(rest # <<>> /\ Head(rest).item = "fn")
  BY <1>2 DEF Method, MethodHandled
<1> QED
  BY <1>1, <1>2

\* The item being handled is the next one of the input.
LEMMA ItemHandled ==
    ASSUME MacroInv, NEW kind, Parsing(kind)
    PROVE  /\ Head(items) \in Items /\ Tail(items) \in Seq(Items)
           /\ Len(tokens) + 1 \in 1..Len(input.items)
           /\ Head(items) = input.items[Len(tokens) + 1]
           /\ Len(Tail(items)) = Len(items) - 1
           /\ \A k \in 1..Len(Tail(items)) : Tail(items)[k] = items[k + 1]
<1> USE DEF MacroInv, WellFormed, Parsing
<1>1. Len(items) \in Nat \ {0} /\ Len(tokens) \in Nat /\ Len(input.items) \in Nat
  OBVIOUS
<1>2. Len(tokens) + Len(items) = Len(input.items) /\ items[1] = input.items[Len(tokens) + 1]
  BY <1>1 DEF ItemsLeft
<1> QED
  BY <1>1, <1>2

\* An item that was handled goes from those left to those generated.
LEMMA OneMoved ==
    ASSUME NEW a \in Nat, NEW b \in Nat, NEW c, NEW d, c = a + 1, d = b - 1 PROVE c + d = a + b
OBVIOUS

\* Going on to the next item.
LEMMA NextItem ==
    ASSUME MacroInv, NEW kind, Parsing(kind), NEW t \in Items \cup Methods,
           t = Expected(Head(items)), Accepted(Head(items)),
           tokens' = Append(tokens, t), Method(Tail(items)), UNCHANGED <<input, output>>
    PROVE  MacroInv'
<1>1. /\ Head(items) \in Items /\ Tail(items) \in Seq(Items)
      /\ Len(tokens) + 1 \in 1..Len(input.items)
      /\ Head(items) = input.items[Len(tokens) + 1]
      /\ Len(Tail(items)) = Len(items) - 1
      /\ \A k \in 1..Len(Tail(items)) : Tail(items)[k] = items[k + 1]
  BY ItemHandled
<1>2. /\ tokens' \in Seq(Items \cup Methods) /\ Len(tokens') = Len(tokens) + 1
      /\ Len(tokens) \in Nat /\ tokens'[Len(tokens) + 1] = t
      /\ \A i \in 1..Len(tokens) : tokens'[i] = tokens[i]
  BY DEF MacroInv, WellFormed
<1>3. MethodHandled' /\ WellFormed' /\ items' = Tail(items)
  BY <1>1, <1>2, MethodBegins DEF MacroInv, WellFormed, Method
<1>4. ItemsHandled'
  <2>1. \A i \in 1..Len(tokens') : i \in 1..Len(tokens) \/ i = Len(tokens) + 1
    BY <1>2
  <2>2. Len(tokens') <= Len(input.items)
    BY <1>1, <1>2 DEF MacroInv, WellFormed
  <2> QED
    BY <1>1, <1>2, <2>1, <2>2 DEF MacroInv, ItemsHandled
<1>5. ItemsLeft'
  <2>1. output' = "parsing" /\ input' = input /\ items' = Tail(items)
    BY <1>3 DEF Parsing
  <2>2. Len(items) \in Nat /\ Len(input.items) \in Nat
    BY DEF MacroInv, WellFormed
  <2>3. Len(tokens') + Len(items') = Len(input.items)
    <3>1. Len(tokens) + Len(items) = Len(input.items)
      BY DEF MacroInv, ItemsLeft, Parsing
    <3>2. Len(items') = Len(items) - 1
      BY <1>1, <2>1
    <3>3. Len(tokens') = Len(tokens) + 1 /\ Len(tokens) \in Nat
      BY <1>2
    <3> QED
      BY <2>2, <3>1, <3>2, <3>3, OneMoved
  <2>4. ASSUME NEW k \in 1..Len(items') PROVE items'[k] = input.items[Len(tokens') + k]
    <3>1. items'[k] = items[k + 1] /\ k + 1 \in 1..Len(items)
      BY <1>1, <2>1, <2>2
    <3>2. items[k + 1] = input.items[Len(tokens) + (k + 1)]
      BY <3>1 DEF MacroInv, ItemsLeft, Parsing
    <3> QED
      BY <1>2, <2>1, <2>2, <3>1, <3>2
  <2> QED
    BY <2>1, <2>3, <2>4 DEF MacroInv, ItemsLeft, Parsing
<1> QED
  BY <1>3, <1>4, <1>5 DEF MacroInv

\* The argument being handled is the next one of the method.
LEMMA ArgHandled ==
    ASSUME MacroInv, NEW kind, Arg(kind)
    PROVE  /\ Head(items) \in Items /\ Head(items).item = "fn" /\ ArgsHandled(Head(items))
           /\ Len(tokens) + 1 \in 1..Len(input.items)
           /\ Head(items) = input.items[Len(tokens) + 1]
           /\ Head(inputs) \in Args /\ index + 1 \in 1..Len(Head(items).inputs)
           /\ Head(inputs) = Head(items).inputs[index + 1] /\ Head(inputs).arg = kind
<1>1. /\ Head(items) \in Items /\ Head(items).item = "fn" /\ ArgsHandled(Head(items))
      /\ Len(tokens) + 1 \in 1..Len(input.items)
      /\ Head(items) = input.items[Len(tokens) + 1]
  BY ItemHandled DEF Arg, Parsing, MacroInv, MethodHandled
<1>2. inputs \in Seq(Args) /\ inputs # <<>> /\ index \in Nat /\ Head(inputs).arg = kind
  BY DEF Arg, MacroInv, WellFormed
<1>3. Len(inputs) \in Nat \ {0} /\ Head(inputs) = inputs[1] /\ Head(inputs) \in Args
  BY <1>2
<1>4. index + Len(inputs) = Len(Head(items).inputs) /\ inputs[1] = Head(items).inputs[index + 1]
  BY <1>1, <1>3 DEF ArgsHandled
<1> QED
  BY <1>1, <1>2, <1>3, <1>4

\* The let of an argument is added to those of the ones before it.
LEMMA LetAdded ==
    ASSUME NEW fn, NEW n \in Nat, NEW lets, lets = Lets(fn, n)
    PROVE  Lets(fn, n + 1) =
             lets \cup (IF Extended(fn.inputs[n + 1])
                        THEN {<<n + 1, Conversion(fn.inputs[n + 1].type)>>} ELSE {})
<1>1. 1..(n + 1) = 1..n \cup {n + 1}
  OBVIOUS
<1> QED
  BY <1>1, Zenon DEF Lets

\* Going on to the next argument.
LEMMA ArgumentHandled ==
    ASSUME MacroInv, NEW kind, Arg(kind), NextArg,
           ~BadArg(Head(items), Head(inputs)),
           hack_tokens' = hack_tokens \cup (IF Extended(Head(inputs))
                                            THEN {<<index + 1, Conversion(Head(inputs).type)>>} ELSE {}),
           receiver' <=> (receiver \/ Head(inputs).arg = "self"),
           receiver_mutable' <=>
               (receiver_mutable \/ (Head(inputs).arg = "self" /\ Head(inputs).kind = "&mut_self"))
    PROVE  MacroInv'
<1> SUFFICES ASSUME NEW fn, fn = Head(items), NEW a, a = Head(inputs) PROVE MacroInv'
  OBVIOUS
<1>1. /\ fn \in Items /\ fn.item = "fn" /\ ArgsHandled(fn)
      /\ a \in Args /\ index + 1 \in 1..Len(fn.inputs) /\ a = fn.inputs[index + 1] /\ a.arg = kind
  BY ArgHandled
<1>2. /\ inputs \in Seq(Args) /\ inputs # <<>> /\ index \in Nat
      /\ inputs' = Tail(inputs) /\ index' = index + 1 /\ UNCHANGED <<input, items, tokens, output>>
  BY DEF NextArg, Arg, MacroInv, WellFormed
<1>3. /\ Len(inputs) \in Nat /\ inputs' \in Seq(Args) /\ Len(inputs') = Len(inputs) - 1
      /\ \A k \in 1..Len(inputs') : inputs'[k] = inputs[k + 1] /\ k + 1 \in 1..Len(inputs)
  BY <1>2
<1>4. fn.inputs \in Seq(Args) /\ \A k \in 1..Len(fn.inputs) : fn.inputs[k].arg = "self" => k = 1
  BY <1>1, FirstIsReceiver
<1>5. index' + Len(inputs') = Len(fn.inputs)
  <2>1. index + Len(inputs) = Len(fn.inputs)
    BY <1>1 DEF ArgsHandled
  <2> QED
    BY <1>2, <1>3, <2>1
<1>6. ASSUME NEW k \in 1..Len(inputs') PROVE inputs'[k] = fn.inputs[index' + k]
  <2>1. inputs'[k] = inputs[k + 1] /\ k + 1 \in 1..Len(inputs)
    BY <1>3
  <2>2. inputs[k + 1] = fn.inputs[index + (k + 1)]
    BY <1>1, <2>1 DEF ArgsHandled
  <2> QED
    BY <1>2, <1>3, <2>1, <2>2
<1>7. hack_tokens' = Lets(fn, index + 1)
  <2>1. hack_tokens = Lets(fn, index)
    BY <1>1 DEF ArgsHandled
  <2>2. Lets(fn, index + 1) = hack_tokens \cup (IF Extended(a) THEN {<<index + 1, Conversion(a.type)>>} ELSE {})
    BY <1>1, <1>2, <2>1, LetAdded
  <2> QED
    BY <2>2
<1>8. receiver' <=> (index' > 0 /\ fn.inputs[1].arg = "self")
  <2>1. CASE index = 0
    BY <1>1, <1>2, <2>1 DEF ArgsHandled
  <2>2. CASE index > 0
    BY <1>1, <1>2, <1>4, <2>2 DEF ArgsHandled
  <2> QED
    BY <1>2, <2>1, <2>2
<1>9. receiver_mutable' <=> (receiver' /\ fn.inputs[1].kind = "&mut_self")
  <2>1. CASE index = 0
    BY <1>1, <1>2, <2>1 DEF ArgsHandled
  <2>2. CASE index > 0
    <3>1. a.arg # "self"
      BY <1>1, <1>2, <1>4, <2>2
    <3> QED
      BY <1>1, <3>1 DEF ArgsHandled
  <2> QED
    BY <1>2, <2>1, <2>2
<1>10. \A k \in 1..index' : ~BadArg(fn, fn.inputs[k])
  <2>1. \A k \in 1..index' : k \in 1..index \/ k = index + 1
    BY <1>2
  <2> QED
    BY <1>1, <2>1 DEF ArgsHandled
<1>11. MethodHandled'
  <2>1. ArgsHandled(fn)'
    BY <1>2, <1>5, <1>6, <1>7, <1>8, <1>9, <1>10 DEF ArgsHandled
  <2> QED
    BY <1>1, <1>2, <2>1 DEF MethodHandled, Arg, Parsing
<1>12. WellFormed'
  <2>1. hack_tokens' \subseteq Nat \X Conversions
    <3>1. hack_tokens \subseteq Nat \X Conversions
      BY DEF MacroInv, WellFormed
    <3>2. <<index + 1, Conversion(Head(inputs).type)>> \in Nat \X Conversions
      <4>1. IsOption(Head(inputs).type) \in BOOLEAN
        BY DEF IsOption
      <4>2. Conversion(Head(inputs).type) \in Conversions
        BY <4>1 DEF Conversion, Conversions
      <4> QED
        BY <1>2, <4>2
    <3> QED
      BY <3>1, <3>2
  <2> QED
    BY <1>2, <1>3, <2>1 DEF MacroInv, WellFormed
<1>13. ItemsHandled' /\ ItemsLeft'
  BY <1>2 DEF MacroInv, ItemsHandled, ItemsLeft
<1> QED
  BY <1>11, <1>12, <1>13 DEF MacroInv

\* An argument that is refused ends the macro.
LEMMA ArgumentRefused ==
    ASSUME MacroInv, NEW kind, Arg(kind), BadArg(Head(items), Head(inputs)),
           NEW error \in {"compile_error", "panicked"}, Stops(error)
    PROVE  MacroInv'
<1>1. /\ Head(items).item = "fn" /\ Len(tokens) + 1 \in 1..Len(input.items)
      /\ Head(items) = input.items[Len(tokens) + 1]
      /\ index + 1 \in 1..Len(Head(items).inputs) /\ Head(inputs) = Head(items).inputs[index + 1]
  BY ArgHandled
<1>2. ~Accepted(input.items[Len(tokens) + 1])
  BY <1>1 DEF Accepted
<1>3. UNCHANGED <<input, items, inputs, index, receiver, receiver_mutable, hack_tokens, tokens>> /\ output' = error
  BY DEF Stops, method
<1>4. ItemsLeft'
  BY <1>1, <1>2, <1>3 DEF ItemsLeft
<1>5. WellFormed' /\ ItemsHandled'
  BY <1>3 DEF MacroInv, WellFormed, Outputs, ItemsHandled
<1>6. MethodHandled'
  BY <1>3 DEF MacroInv, MethodHandled, ArgsHandled
<1> QED
  BY <1>4, <1>5, <1>6 DEF MacroInv

\* ~receiver, &self and &mut self are told apart as expected.
LEMMA ThisIsExpected ==
    ASSUME MacroInv, Parsing("fn"), inputs = <<>>, Head(items).async
    PROVE  This = ExpectedMethod(Head(items)).this
<1> SUFFICES ASSUME NEW fn, fn = Head(items) PROVE This = ExpectedMethod(fn).this
  OBVIOUS
<1>1. fn \in Items /\ fn.item = "fn" /\ fn.async /\ ArgsHandled(fn)
  BY ItemHandled DEF Parsing, MacroInv, MethodHandled
<1>2. index = Len(fn.inputs) /\ index \in Nat
  BY <1>1 DEF ArgsHandled, MacroInv, WellFormed
<1>3. \A k \in 1..Len(fn.inputs) : fn.inputs[k] \in Args /\ (fn.inputs[k].arg = "self" => k = 1)
  BY <1>1, FirstIsReceiver
<1> DEFINE self(kind) == [arg |-> "self", kind |-> kind]
<1>4. ASSUME NEW kind PROVE self(kind) \in ArgsOf(fn) <=> (receiver /\ fn.inputs[1] = self(kind))
  <2>1. ASSUME self(kind) \in ArgsOf(fn) PROVE receiver /\ fn.inputs[1] = self(kind)
    <3>1. PICK k \in 1..Len(fn.inputs) : fn.inputs[k] = self(kind)
      BY <2>1 DEF ArgsOf
    <3>2. k = 1
      BY <1>3, <3>1
    <3> QED
      BY <1>1, <1>2, <3>1, <3>2 DEF ArgsHandled
  <2>2. ASSUME receiver, fn.inputs[1] = self(kind) PROVE self(kind) \in ArgsOf(fn)
    <3>1. 1 \in 1..Len(fn.inputs)
      BY <1>1, <1>2, <2>2 DEF ArgsHandled
    <3> QED
      BY <2>2, <3>1 DEF ArgsOf
  <2> QED
    BY <2>1, <2>2
<1>5. receiver => fn.inputs[1] \in {self("&self"), self("&mut_self")}
  <2>1. receiver => 1 \in 1..Len(fn.inputs) /\ fn.inputs[1].arg = "self" /\ ~BadArg(fn, fn.inputs[1])
    BY <1>1, <1>2 DEF ArgsHandled
  <2> QED
    BY <1>1, <1>3, <2>1 DEF BadArg, Args, Receivers, Typed
<1>6. receiver => (receiver_mutable <=> fn.inputs[1] = self("&mut_self"))
  BY <1>1, <1>5 DEF ArgsHandled
<1>7. self("&self") # self("&mut_self")
  OBVIOUS
<1> HIDE DEF self
<1>8. ExpectedMethod(fn).this = IF self("&mut_self") \in ArgsOf(fn) THEN "&mut"
                                ELSE IF self("&self") \in ArgsOf(fn) THEN "&" ELSE "none"
  BY DEF ExpectedMethod, self
<1> QED
  BY <1>4, <1>5, <1>6, <1>7, <1>8 DEF This

\* So are the lifetimes that are extended.
LEMMA LetsAreExpected ==
    ASSUME NEW fn PROVE Lets(fn, Len(fn.inputs)) = ExpectedMethod(fn).lets
<1> DEFINE converted == {k \in 1..Len(fn.inputs) :
                           LET a == fn.inputs[k] IN
                           a.arg = "typed" /\ ~a.this /\ a.type.ref # "no"
                                           /\ a.type.wrap \in {"no", "Option<_>"}}
           conversion(k) == [option |-> fn.inputs[k].type.wrap # "no",
                             to |-> IF Referred(fn.inputs[k]) = <<"&", "str">>
                                    THEN "transmute" ELSE "borrow_unchecked"]
<1>1. {k \in 1..Len(fn.inputs) : Extended(fn.inputs[k])} = converted
  BY DEF Extended, Reference
<1>2. \A k \in converted : Conversion(fn.inputs[k].type) = conversion(k)
  BY DEF Conversion, IsOption, IsStr, Referred
<1>3. ExpectedMethod(fn).lets = {<<k, conversion(k)>> : k \in converted}
  BY DEF ExpectedMethod
<1> HIDE DEF converted, conversion
<1>4. {<<k, Conversion(fn.inputs[k].type)>> : k \in converted} = {<<k, conversion(k)>> : k \in converted}
  BY <1>2
<1> QED
  BY <1>1, <1>3, <1>4 DEF Lets

\* handle_method() generates what is expected of an accepted method.
LEMMA GeneratedIsExpected ==
    ASSUME MacroInv, Parsing("fn"), inputs = <<>>
    PROVE  /\ Generated(Head(items)) = Expected(Head(items)) /\ Accepted(Head(items))
           /\ Generated(Head(items)) \in Items \cup Methods
<1> SUFFICES ASSUME NEW fn, fn = Head(items)
             PROVE  /\ Generated(fn) = Expected(fn) /\ Accepted(fn)
                    /\ Generated(fn) \in Items \cup Methods
  OBVIOUS
<1>1. fn \in Items /\ fn.item = "fn" /\ ArgsHandled(fn)
  BY ItemHandled DEF Parsing, MacroInv, MethodHandled
<1>2. index = Len(fn.inputs)
  BY <1>1 DEF ArgsHandled, MacroInv, WellFormed
<1>3. Accepted(fn)
  BY <1>1, <1>2 DEF Accepted, ArgsHandled
<1>4. CASE fn.async
  <2>1. This = ExpectedMethod(fn).this /\ hack_tokens = ExpectedMethod(fn).lets
    BY <1>1, <1>2, <1>4, ThisIsExpected, LetsAreExpected DEF ArgsHandled
  <2>2. Generated(fn) = ExpectedMethod(fn)
    BY <1>4, <2>1 DEF Generated, ExpectedMethod
  <2>3. Generated(fn) \in Methods
    <3>1. fn.inputs \in Signatures
      BY <1>1 DEF Items
    <3>2. This \in {"none", "&", "&mut"} /\ hack_tokens \in SUBSET (Nat \X Conversions)
      BY DEF This, MacroInv, WellFormed
    <3> QED
      BY <1>4, <3>1, <3>2 DEF Generated, Methods
  <2> QED
    BY <1>1, <1>3, <1>4, <2>2, <2>3 DEF Expected
<1>5. CASE ~fn.async
  BY <1>1, <1>3, <1>5 DEF Generated, Expected
<1> QED
  BY <1>4, <1>5

\* MacroInv is inductive.
LEMMA MacroInvariant == Spec => []MacroInv
<1>1. Init => MacroInv
  <2> SUFFICES ASSUME Init PROVE MacroInv
    OBVIOUS
  <2>1. input.kind \in {"impl", "trait_impl", "other"} /\ input.items \in Seq(Items)
    BY InputsAssumption DEF Init
  <2>2. WellFormed
    BY <2>1 DEF Init, WellFormed, Outputs
  <2> QED
    BY <2>1, <2>2 DEF Init, MacroInv, MethodHandled, ItemsHandled, ItemsLeft
<1>2. MacroInv /\ [Next]_vars => MacroInv'
  <2> SUFFICES ASSUME MacroInv, [Next]_vars PROVE MacroInv'
    OBVIOUS
  <2>1. CASE Expand
    <3>1. items = <<>> /\ tokens = <<>> /\ input.items \in Seq(Items)
      BY <2>1 DEF Expand, MacroInv, WellFormed, ItemsLeft
    <3>2. CASE input.kind = "impl" /\ output' = "parsing" /\ Method(input.items) /\ UNCHANGED <<input, tokens>>
      <4>1. MethodHandled' /\ WellFormed' /\ items' = input.items
        BY <3>1, <3>2, MethodBegins DEF MacroInv, WellFormed, Outputs, Method
      <4> QED
        BY <3>1, <3>2, <4>1 DEF MacroInv, ItemsHandled, ItemsLeft
    <3>3. CASE input.kind # "impl" /\ Stops("compile_error")
      <4>1. UNCHANGED <<input, items, inputs, index, receiver, receiver_mutable, hack_tokens, tokens>>
            /\ output' = "compile_error"
        BY <3>3 DEF Stops, method
      <4>2. MethodHandled' /\ WellFormed' /\ ItemsHandled'
        BY <4>1 DEF MacroInv, WellFormed, Outputs, MethodHandled, ArgsHandled, ItemsHandled
      <4> QED
        BY <3>3, <4>1, <4>2 DEF MacroInv, ItemsLeft
    <3> QED
      BY <2>1, <3>2, <3>3 DEF Expand
  <2>2. CASE OtherItem
    <3>1. Head(items) \in Items
      BY <2>2, ItemHandled DEF OtherItem
    <3> QED
      BY <2>2, <3>1, NextItem DEF OtherItem, Parsing, Expected, Accepted
  <2>3. CASE Receiver
    <3>1. Arg("self") /\ Head(inputs).arg = "self" /\ BadArg(Head(items), Head(inputs)) = Refused(Head(inputs).kind)
      BY <2>3 DEF Receiver, Arg, BadArg, Refused
    <3>2. CASE Refused(Head(inputs).kind) /\ Stops("compile_error")
      BY <3>1, <3>2, ArgumentRefused
    <3>3. CASE ~Refused(Head(inputs).kind) /\ NextArg
      <4>1. receiver' /\ (receiver_mutable' <=> Head(inputs).kind = "&mut_self") /\ hack_tokens' = hack_tokens
        BY <2>3, <3>3 DEF Receiver, Mutable, Stops, NextArg
      <4>2. index + 1 = 1 /\ ArgsHandled(Head(items)) /\ index \in Nat
        BY <3>1, ArgHandled, FirstIsReceiver DEF MacroInv, WellFormed
      <4>3. ~receiver_mutable /\ ~Extended(Head(inputs))
        BY <3>1, <4>2 DEF ArgsHandled, Extended
      <4> QED
        BY <3>1, <3>3, <4>1, <4>3, ArgumentHandled
    <3> QED
      BY <2>3, <3>2, <3>3 DEF Receiver
  <2>4. CASE TypedArg
    <3>1. Arg("typed") /\ Head(inputs).arg = "typed"
      BY <2>4 DEF TypedArg, Arg
    <3>2. CASE BadArg(Head(items), Head(inputs))
      BY <2>4, <3>1, <3>2, ArgumentRefused DEF TypedArg, BadArg
    <3>3. CASE ~BadArg(Head(items), Head(inputs))
      BY <2>4, <3>1, <3>3, ArgumentHandled DEF TypedArg, BadArg, Extended
    <3> QED
      BY <3>2, <3>3
  <2>5. CASE Generate
    BY <2>5, GeneratedIsExpected, NextItem DEF Generate
  <2>6. CASE Output
    BY <2>6 DEF Output, method, MacroInv, WellFormed, Outputs, MethodHandled, ArgsHandled, ItemsHandled, ItemsLeft
  <2>7. CASE UNCHANGED vars
    BY <2>7 DEF vars, MacroInv, WellFormed, MethodHandled, ArgsHandled, ItemsHandled, ItemsLeft
  <2> QED
    BY <2>1, <2>2, <2>3, <2>4, <2>5, <2>6, <2>7 DEF Next
<1> QED
  BY <1>1, <1>2, PTL DEF Spec

\* The macro generates what is expected, item by item and in their order, or nothing at
\* all if one of them is refused (crates/macros/src/lib.rs:38-171): for any number of
\* items and arguments.
THEOREM MacroExpandsAsExpected == Spec => []ExpandsAsExpected
<1>1. MacroInv => ExpandsAsExpected
  <2> SUFFICES ASSUME MacroInv PROVE ExpandsAsExpected
    OBVIOUS
  <2>1. /\ Len(tokens) \in Nat /\ Len(input.items) \in Nat /\ input.items \in Seq(Items)
        /\ \A i \in 1..Len(input.items) : input.items[i] \in Items
    BY DEF MacroInv, WellFormed
  <2>2. output = "php_impl" => input.kind = "impl" /\ Len(tokens) = Len(input.items)
    <3>1. output = "php_impl" => input.kind = "impl" /\ items = <<>> /\ Len(tokens) + Len(items) = Len(input.items)
      BY DEF MacroInv, ItemsLeft
    <3> QED
      BY <2>1, <3>1
  <2>3. \A i \in 1..Len(tokens) : i \in 1..Len(input.items) /\ tokens[i] = Expected(input.items[i]) /\ Accepted(input.items[i])
    BY <2>1 DEF MacroInv, ItemsHandled
  <2>4. \A i \in 1..Len(tokens) :
           tokens[i] = IF i \in Fns /\ input.items[i].async THEN ExpectedMethod(input.items[i])
                       ELSE input.items[i]
    BY <2>3 DEF Expected, Fns
  <2>5. ASSUME NEW i \in 1..Len(input.items)
        PROVE  Accepted(input.items[i]) <=>
                 (i \in Fns => \A a \in ArgsOf(input.items[i]) : ~BadArg(input.items[i], a))
    BY DEF Accepted, Fns, ArgsOf
  <2>6. output = "php_impl" => \A i \in Fns : \A a \in ArgsOf(input.items[i]) : ~BadArg(input.items[i], a)
    BY <2>2, <2>3, <2>5 DEF Fns
  <2>7. output \in {"compile_error", "panicked"} =>
          input.kind # "impl" \/ ~(\A i \in Fns : \A a \in ArgsOf(input.items[i]) : ~BadArg(input.items[i], a))
    BY <2>5 DEF MacroInv, ItemsLeft
  <2> QED
    BY <2>2, <2>4, <2>6, <2>7 DEF ExpandsAsExpected
<1> QED
  BY <1>1, MacroInvariant, PTL

\* A lifetime is only extended for a future that suspend_on() waits for, and never turns
\* a shared reference into a mutable one (borrow_unchecked.rs:22-29), whatever the
\* method's arguments.
THEOREM MacroExtensionsAreSound == Spec => []ExtensionsAreSound
<1>1. MacroInv => ExtensionsAreSound
  <2> SUFFICES ASSUME MacroInv, NEW i \in 1..Len(tokens), tokens[i].item = "suspend_on",
                      NEW fn, fn = input.items[i]
               PROVE  /\ fn.async
                      /\ tokens[i].this # "none" =>
                            [arg |-> "self", kind |-> IF tokens[i].this = "&" THEN "&self" ELSE "&mut_self"]
                               \in ArgsOf(fn)
                      /\ \A let \in tokens[i].lets :
                            LET referred == Referred(tokens[i].of[let[1]])
                            IN  referred \in Takes(let[2]) \/ (let[2].to # "transmute" /\ Unsized(referred))
    BY DEF ExtensionsAreSound
  <2>1. fn \in Items /\ tokens[i] = Expected(fn)
    BY DEF MacroInv, ItemsHandled, WellFormed
  <2>2. fn.item = "fn" /\ fn.async /\ tokens[i] = ExpectedMethod(fn)
    BY <2>1 DEF Expected, Items
  <2>3. tokens[i].this # "none" =>
          [arg |-> "self", kind |-> IF tokens[i].this = "&" THEN "&self" ELSE "&mut_self"] \in ArgsOf(fn)
    <3> DEFINE self(kind) == [arg |-> "self", kind |-> kind]
    <3>1. ExpectedMethod(fn).this =
            IF self("&mut_self") \in ArgsOf(fn) THEN "&mut" ELSE IF self("&self") \in ArgsOf(fn) THEN "&" ELSE "none"
      BY DEF ExpectedMethod
    <3>2. tokens[i].this # "none" => self(IF tokens[i].this = "&" THEN "&self" ELSE "&mut_self") \in ArgsOf(fn)
      <4> HIDE DEF self
      <4> QED
        BY <2>2, <3>1
    <3> QED
      BY <3>2
  <2>4. tokens[i].of = fn.inputs /\ tokens[i].lets = Lets(fn, Len(fn.inputs))
    <3>1. ExpectedMethod(fn).of = fn.inputs
      BY DEF ExpectedMethod
    <3> QED
      BY <2>2, <3>1, LetsAreExpected
  <2>5. ASSUME NEW k \in 1..Len(fn.inputs), Extended(fn.inputs[k])
        PROVE  LET referred == Referred(fn.inputs[k])
                   conversion == Conversion(fn.inputs[k].type)
               IN  referred \in Takes(conversion) \/ (conversion.to # "transmute" /\ Unsized(referred))
    <3>1. fn.inputs[k] \in Typed
      BY <2>1, <2>2, <2>5, FirstIsReceiver DEF Args, Receivers, Extended
    <3>2. fn.inputs[k].type \in Types /\ fn.inputs[k].type.ref # "no"
      BY <3>1, <2>5 DEF Typed, Extended, Reference
    <3> QED
      BY <3>2 DEF Types, Referred, Conversion, IsStr, Takes, Unsized
  <2> QED
    BY <2>2, <2>3, <2>4, <2>5 DEF Lets
<1> QED
  BY <1>1, MacroInvariant, PTL
=============================================================================
