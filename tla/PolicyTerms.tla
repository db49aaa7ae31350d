---------------------------- MODULE PolicyTerms ----------------------------
(***************************************************************************)
(* Properties and constraints of policies, and when a node policy and a    *)
(* deployment policy are compatible.  A constraint is the sequence of its  *)
(* tokens: property expressions, "and", "or", "(" and ")".  A text value   *)
(* is the sequence of its comma separated words: <<"word", w>>, or         *)
(* <<"version", v>>, or <<"range", r>>.                                    *)
(***************************************************************************)
EXTENDS VersionRanges, SequencesExt

-----------------------------------------------------------------------------
(* Properties. *)
Property(n, type, v) == [name |-> n, type |-> type, value |-> v]
IsVersion(words) == Len(words) = 1 /\ words[1][1] = "version"

\* Validate: does a declared type fit the kind of the value?  Numbers are whole.
ValidProperty(p) ==
  CASE p.value[1] = "bool"   -> p.type \in {"", "boolean"}
    [] p.value[1] = "number" -> p.type \in {"", "int", "float"}
    [] OTHER -> \/ p.type \in {"", "string", "list"}
                \/ p.type = "version" /\ IsVersion(p.value[2])

\* Property.IsSame: one of the types may be undeclared, and lists have no order.
IsSame(p, q) ==
  /\ p.name = q.name /\ (p.type = q.type \/ "" \in {p.type, q.type})
  /\ p.value[1] = q.value[1]
  /\ IF p.value[1] = "text" /\ "list" \in {p.type, q.type}
     THEN ToSet(p.value[2]) = ToSet(q.value[2]) ELSE p.value = q.value

\* Compatible_With: no property has two values, but for memory and cpu, which change.
Compatible_With(ps, qs) ==
  \A i \in 1..Len(ps), j \in 1..Len(qs) :
    ps[i].name = qs[j].name /\ ps[i].name \notin {"memory", "cpu"} => IsSame(ps[i], qs[j])

\* Add_Property: a property with the name is replaced, or the addition fails.
Add_Property(ps, p, replace) ==
  LET at == {i \in 1..Len(ps) : ps[i].name = p.name} IN
  IF ~ValidProperty(p) THEN ps
  ELSE IF at = {} THEN Append(ps, p)
  ELSE IF replace THEN [ps EXCEPT ![Min(at)] = p]
  ELSE ps
MergeProperties(ps, qs, replace) ==
  FoldLeft(LAMBDA acc, q : Add_Property(acc, q, replace), ps, qs)

-----------------------------------------------------------------------------
(* One property expression against the properties. *)
Atom(n, op, v) == [tok |-> "exp", name |-> n, op |-> op, value |-> v]

NumberHolds(a, op, b) ==
  CASE op = "<" -> a < b [] op = ">" -> a > b [] op = "<=" -> a <= b
    [] op = ">=" -> a >= b [] op = "!=" -> a # b [] OTHER -> a = b

\* A text that is no version is in no range.  A single version asks for it or a later one.
containsVersion(have, want) ==
  /\ IsVersion(have) /\ Len(want) = 1
  /\ CASE want[1][1] = "range" -> Is_within_range(want[1][2], have[1][2])
       [] want[1][1] = "version" -> Is_within_range(SingleVersion(want[1][2]), have[1][2])
       [] OTHER -> FALSE

\* Texts: "==" asks for one of the words, "!=" of anything but a list for
\* another text, "in" for a version in a range or a word in the list.
TextHolds(p, e) ==
  LET have == p.value[2]
      want == e.value[2]
      oneOf == Len(want) = 1 /\ want[1] \in ToSet(have)
      inRange == IsVersion(have) /\ Len(want) = 1 /\ want[1][1] = "range"
  IN  CASE e.op = "!=" -> IF p.type = "list" THEN ~oneOf ELSE have # want
        [] e.op = "in" -> IF p.type = "version" \/ inRange THEN containsVersion(have, want)
                          ELSE IF p.type = "list" THEN ToSet(have) \cap ToSet(want) # {}
                          ELSE Len(have) = 1 /\ have[1] \in ToSet(want)
        [] e.op \in {"=", "=="} -> oneOf \/ have = want
        [] OTHER -> FALSE

\* The first property with the name decides, unless it is a boolean asked to be
\* "in" something.  A value of the constraint that cannot be read as the kind of
\* the property satisfies nothing; as a text it differs from every other.
propertyInArray(e, ps) ==
  LET named == SelectSeq(ps, LAMBDA p : p.name = e.name /\ (p.value[1] = e.value[1] /\ e.op = "in" => p.value[1] # "bool")) IN
  /\ named # <<>>
  /\ LET p == named[1] IN
     CASE p.value[1] # e.value[1] -> p.value[1] = "text" /\ e.op = "!="
       [] p.value[1] = "number" -> NumberHolds(p.value[2], e.op, e.value[2])
       [] p.value[1] = "bool" -> /\ e.op \in {"=", "==", "!="}
                                 /\ (p.value = e.value) = (e.op # "!=")
       [] OTHER -> TextHolds(p, e)

-----------------------------------------------------------------------------
(* Constraints: parsed into an "or" of "and"s of expressions and of          *)
(* parenthesised constraints.                                                *)
Token(t) == [tok |-> t]
IsAtom(t) == t.tok = "exp"
AndOf(s) == [op |-> "and", args |-> s]
OrOf(s) == [op |-> "or", args |-> s]

\* Mutant: an "or" is not told from an "and".
GetNextOperatorAnd(s) ==
  IF s = <<>> THEN [op |-> "", rest |-> <<>>, err |-> FALSE]
  ELSE [op |-> IF s[1].tok = "or" THEN "and" ELSE s[1].tok, rest |-> Tail(s), err |-> IsAtom(s[1])]

\* The next operator or parenthesis; an expression in its place is an error.
GetNextOperator(s) ==
  IF s = <<>> THEN [op |-> "", rest |-> <<>>, err |-> FALSE]
  ELSE [op |-> s[1].tok, rest |-> Tail(s), err |-> IsAtom(s[1])]

\* "in" is for lists and versions, and only it for lists of several words and for
\* ranges; numbers alone have an order.
validOpValuePair(e) ==
  CASE e.op = "in" -> e.value[1] = "text"
    [] e.op \in {"=", "==", "!="} ->
         e.value[1] = "text" => Len(e.value[2]) = 1 /\ e.value[2][1][1] # "range"
    [] OTHER -> e.value[1] = "number"

\* The next expression; there is none before a parenthesis and at the end.
GetNextExpression(s) ==
  IF s # <<>> /\ IsAtom(s[1]) THEN [exp |-> <<s[1]>>, rest |-> Tail(s), err |-> ~validOpValuePair(s[1])]
  ELSE [exp |-> <<>>, rest |-> s, err |-> s # <<>> /\ s[1].tok \in {"and", "or"}]

\* parseConstraintExpression, and getConstraintExpressionWithName when only the
\* expressions with a name are kept.  A parenthesis is read as a constraint of its own.
RECURSIVE ParseFrom(_, _, _, _)
ParseFrom(s, names, ands, ors) ==
  LET e == GetNextExpression(s)
      o == GetNextOperator(e.rest)
      paren == o.op = "("
      sub == ParseFrom(o.rest, names, <<>>, <<>>)
      op == IF paren THEN GetNextOperator(sub.rest) ELSE o
      ands1 == ands \o SelectSeq(e.exp, LAMBDA x : names = {} \/ x.name \in names)
                    \o (IF paren THEN <<sub.tree>> ELSE <<>>)
  IN  IF e.err \/ o.err \/ (paren /\ (sub.err \/ op.err)) THEN [err |-> TRUE, tree |-> OrOf(<<>>), rest |-> s]
      ELSE CASE op.op = "or" -> ParseFrom(op.rest, names, <<>>, Append(ors, AndOf(ands1)))
             [] op.op \in {")", ""} -> [err |-> FALSE, tree |-> OrOf(Append(ors, AndOf(ands1))), rest |-> op.rest]
             [] OTHER -> ParseFrom(op.rest, names, ands1, ors)
parseConstraintExpression(s) == ParseFrom(s, {}, <<>>, <<>>)
getConstraintExpressionWithName(s, n) == ParseFrom(s, {n}, <<>>, <<>>)

\* The number of parentheses at the start.
Parens(s) ==
  LET other == {i \in 1..Len(s) : s[i].tok \notin {"(", ")"}}
  IN  IF other = {} THEN Len(s) ELSE Min(other) - 1

\* Validate: expressions, each followed by parentheses and an operator, or by nothing;
\* the parentheses are counted, their order is not looked at.  Where there are only
\* parentheses before an expression no operator is asked for.
RECURSIVE ValidFrom(_, _)
ValidFrom(s, open) ==
  IF s = <<>> THEN open = 0
  ELSE LET e == GetNextExpression(s)
           n == Parens(e.rest)
           rest == SubSeq(e.rest, n + 1, Len(e.rest))
           o == GetNextOperator(rest)
           opened == Cardinality({i \in 1..n : e.rest[i].tok = "("})
       IN  ~e.err /\ (o.err => e.exp = <<>>)
             /\ ValidFrom(IF o.err THEN rest ELSE o.rest, open + opened - (n - opened))
ValidConstraint(s) == ValidFrom(s, 0)

\* IsValid, verify: the operators are known ones and hold expressions and operators.
RECURSIVE verify(_)
verify(t) ==
  t.op \in {"and", "or"} /\ \A i \in 1..Len(t.args) :
    IF "args" \in DOMAIN t.args[i] THEN verify(t.args[i]) ELSE IsAtom(t.args[i])

RECURSIVE satisfied(_, _)
satisfied(t, ps) ==
  LET holds(a) == IF "args" \in DOMAIN a THEN satisfied(a, ps) ELSE propertyInArray(a, ps)
  IN  IF t.op = "and" THEN \A i \in 1..Len(t.args) : holds(t.args[i])
      ELSE \E i \in 1..Len(t.args) : holds(t.args[i])

\* All the constraints of a policy, parsed; an error when one is not valid.
RequiredPropertyFromConstraint(cs) ==
  LET parsed == [i \in 1..Len(cs) |-> parseConstraintExpression(cs[i])]
  IN  [err |-> \E i \in 1..Len(cs) : ~ValidConstraint(cs[i]) \/ parsed[i].err,
       tree |-> AndOf([i \in 1..Len(cs) |-> parsed[i].tree])]
IsSatisfiedBy(cs, ps) ==
  cs = <<>> \/ LET rp == RequiredPropertyFromConstraint(cs)
               IN  ~rp.err /\ verify(rp.tree) /\ satisfied(rp.tree, ps)

\* The other constraints, without the ones there are.
MergeConstraints(cs, others) ==
  FoldLeft(LAMBDA acc, c : IF c \in ToSet(acc) THEN acc ELSE Append(acc, c), cs, others)

\* A deployment policy that names a namespace its own constraints refuse.  Only the
\* expressions about the namespace are looked at, of the constraints that have one.
ValidateClusterNSWithConstraint(ns, cs) ==
  LET about == SelectSeq(cs, LAMBDA c : \E j \in 1..Len(c) : IsAtom(c[j]) /\ c[j].name = "namespace")
      parsed == [i \in 1..Len(about) |-> getConstraintExpressionWithName(about[i], "namespace")]
      required == AndOf([i \in 1..Len(about) |-> parsed[i].tree])
  IN  /\ ns # "" /\ \A i \in 1..Len(about) : ValidConstraint(about[i]) /\ ~parsed[i].err
      /\ ~satisfied(required, <<Property("namespace", "", <<"text", <<<<"word", ns>>>>>>)>>)

-----------------------------------------------------------------------------
(* Agreement protocols: a name and blockchains. *)
NoChains(name) == [name |-> name, chains |-> <<>>]
SharedChains(a, b) ==
  IF a = <<>> THEN b ELSE IF b = <<>> THEN a ELSE SelectSeq(a, LAMBDA c : c \in ToSet(b))

\* The protocols of both, none named means any.  One whose blockchains do not meet is an error.
Intersects_With(ps, qs) ==
  LET shared(p) == LET same == SelectSeq(qs, LAMBDA q : q.name = p.name)
                   IN  [j \in 1..Len(same) |-> [p EXCEPT !.chains = SharedChains(@, same[j].chains)]]
      both == FlattenSeq([i \in 1..Len(ps) |-> shared(ps[i])])
      apart == \E i \in 1..Len(ps), j \in 1..Len(qs) :
                 /\ ps[i].name = qs[j].name /\ ps[i].chains # <<>> /\ qs[j].chains # <<>>
                 /\ SharedChains(ps[i].chains, qs[j].chains) = <<>>
  IN  IF ps = <<>> \/ qs = <<>>
      THEN [err |-> FALSE, list |-> IF ps \o qs = <<>> THEN <<NoChains("Basic")>> ELSE ps \o qs]
      ELSE [err |-> apart \/ both = <<>>, list |-> both]

\* The first protocol, with its first blockchain.
Single_Element(ps) == <<[ps[1] EXCEPT !.chains = SubSeq(@, 1, Min({1, Len(@)}))]>>

-----------------------------------------------------------------------------
(* Data verification, and the metering in it: tokens in a unit of time. *)
NoMeter == [tokens |-> 0, unit |-> "", notify |-> 0]
PerDay(m) == CASE m.unit = "min" -> m.tokens * 1440 [] m.unit = "hour" -> m.tokens * 24 [] OTHER -> m.tokens

\* The shorter of two intervals, where 0 is none.
ShorterSet(a, b) == IF 0 \in {a, b} THEN Max({a, b}) ELSE Min({a, b})

\* Meter.MergeWith takes the consumer's tokens when it has some, and
\* Meter.ProducerMergeWith the greater amount, in the greater unit of time.
MergeMeter(m, o, rate, tokens) ==
  LET unit == IF "day" \in {m.unit, o.unit} THEN "day" ELSE IF "hour" \in {m.unit, o.unit} THEN "hour" ELSE "min"
      notify == ShorterSet(m.notify, o.notify)
  IN  IF m = NoMeter /\ o = NoMeter THEN NoMeter
      ELSE [unit |-> unit,
            tokens |-> tokens \div (CASE unit = "min" -> 1440 [] unit = "hour" -> 24 [] OTHER -> 1),
            notify |-> IF notify = 0 THEN Max({10, rate}) ELSE notify]
ConsumerMeter(m, o, rate) == MergeMeter(m, o, rate, PerDay(IF o = NoMeter THEN m ELSE o))
ProducerMeter(m, o, rate) == MergeMeter(m, o, rate, Max({PerDay(m), PerDay(o)}))

\* internalCompatibleWith: two that are enabled verify at the same place, as the same user.
SameVerifier(d, o) ==
  d.enabled /\ o.enabled => /\ "" \in {d.url, o.url} \/ d.url = o.url
                            /\ "" \in {d.user, o.user} \/ d.user = o.user
VerifyCompatible(d, o) ==
  SameVerifier(d, o) /\ (NoMeter \in {d.meter, o.meter} \/ PerDay(o.meter) >= PerDay(d.meter))

\* What both sides have in common; DefaultNoData is the interval of the configuration.
MergeVerify(d, o, default) ==
  LET set(x, none, field) == IF x.enabled THEN x[field] ELSE none
      first(field) == IF set(d, "", field) # "" THEN d[field] ELSE set(o, "", field)
      interval == ShorterSet(set(d, 0, "interval"), set(o, 0, "interval"))
  IN  [enabled |-> d.enabled \/ o.enabled, url |-> first("url"), user |-> first("user"),
       interval |-> IF interval = 0 /\ (d.enabled \/ o.enabled) THEN default ELSE interval,
       rate |-> ShorterSet(set(d, 0, "rate"), set(o, 0, "rate"))]
MergeConsumerVerify(d, o, default) ==
  LET m == MergeVerify(d, o, default)
      meter(x) == IF x.enabled THEN x.meter ELSE NoMeter
  IN  m @@ [meter |-> ConsumerMeter(meter(d), meter(o), m.rate)]
MergeProducerVerify(d, o, default) ==
  LET m == MergeVerify(d, o, default)
  IN  m @@ [meter |-> ProducerMeter(d.meter, o.meter, m.rate)]

-----------------------------------------------------------------------------
(* Policies. *)
Are_Compatible(producer, consumer) ==
  /\ producer.schema = consumer.schema
  /\ IsSatisfiedBy(consumer.cons, producer.props)
  /\ IsSatisfiedBy(producer.cons, consumer.props)
  /\ ~Intersects_With(producer.protocols, consumer.protocols).err
  /\ VerifyCompatible(producer.verify, consumer.verify)

\* Two policies of a node, merged into one: the later values of properties and the
\* constraints of both.
CompatibleProducers(p, q) ==
  /\ p.schema = q.schema
  /\ ~Intersects_With(p.protocols, q.protocols).err
  /\ Compatible_With(p.props, q.props)
  /\ SameVerifier(p.verify, q.verify)
Are_Compatible_Producers(p, q, default) ==
  [schema |-> p.schema,
   props |-> MergeProperties(MergeProperties(<<>>, p.props, TRUE), q.props, TRUE),
   cons |-> MergeConstraints(MergeConstraints(<<>>, p.cons), q.cons),
   protocols |-> Intersects_With(p.protocols, q.protocols).list,
   verify |-> MergeProducerVerify(p.verify, q.verify, default)]

\* A policy with the properties and constraints of another added; its own properties stay.
MergePolicyWithExternalPolicy(pol, ext) ==
  [pol EXCEPT !.props = MergeProperties(@, ext.props, FALSE), !.cons = MergeConstraints(@, ext.cons)]

\* The terms of an agreement: what the deployment asks, with one common protocol,
\* and nothing when the policies are not compatible.
Create_Terms_And_Conditions(producer, consumer, default) ==
  IF ~Are_Compatible(producer, consumer) THEN {}
  ELSE {[props |-> MergeProperties(<<>>, consumer.props, FALSE), cons |-> consumer.cons,
         protocols |-> Single_Element(Intersects_With(producer.protocols, consumer.protocols).list),
         verify |-> MergeConsumerVerify(producer.verify, consumer.verify, default)]}

-----------------------------------------------------------------------------
(* What a constraint means: a tree of "and" and "or" over expressions, and   *)
(* its text, with parentheses where an "or" stands under an "and" (and, if   *)
(* asked for, around every operand).                                         *)
RECURSIVE Write(_, _)
Write(t, all) ==
  IF "args" \notin DOMAIN t THEN <<t>>
  ELSE LET arg(i) == LET w == Write(t.args[i], all) IN
                     IF all \/ ("args" \in DOMAIN t.args[i] /\ t.op = "and" /\ t.args[i].op = "or")
                     THEN <<Token("(")>> \o w \o <<Token(")")>> ELSE w
       IN  arg(1) \o <<Token(t.op)>> \o arg(2)
=============================================================================
