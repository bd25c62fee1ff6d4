----------------------------- MODULE BiDiProofs -----------------------------
(***************************************************************************)
(* Theorems about the BiDi adapter, for any contexts, realms, tasks and     *)
(* scenarios, arrays of any length and values nested to any depth:          *)
(*   TypeCorrect   every variable keeps its type                           *)
(*   RealmsEnd     the end of a realm reaches the session of its beginning *)
(*   AnswersTold   a call of several commands answers what they did        *)
(*   ValuesReturn  values come back as they are and arguments arrive       *)
(***************************************************************************)
EXTENDS BiDi, FiniteSetTheorems, SequenceTheorems, WellFoundedInduction, TLAPS

------------------------------------------------------------------------------
(* Values.  The translation is a recursive function, of which the prover     *)
(* knows what its equation says once there is a function that satisfies it:  *)
(* one is built level by level, up to Depth.                                 *)

\* A set of numbers has a least one.
LEMMA LeastOf ==
    ASSUME NEW S, S \subseteq Nat, S # {}
    PROVE  \E n \in S : \A k \in S : ~(k < n)
  <1>1. PICK n \in S : \A k \in S : ~(<<k, n>> \in OpToRel(<, Nat))
    BY NatLessThanWellFounded, WFMin
  <1> QED BY <1>1 DEF OpToRel

\* Induction on the depth, for a set of depths.
LEMMA DepthInduction ==
    ASSUME NEW S, 0 \in S, \A n \in 1 .. Depth : n - 1 \in S => n \in S
    PROVE  \A n \in 0 .. Depth : n \in S
  <1> DEFINE Missing == {n \in 0 .. Depth : n \notin S}
  <1> SUFFICES ASSUME Missing # {} PROVE FALSE
    OBVIOUS
  <1>1. Missing \subseteq Nat
    BY ValuesAssumption
  <1>2. PICK n \in Missing : \A k \in Missing : ~(k < n)
    <2> HIDE DEF Missing
    <2> QED BY <1>1, LeastOf
  <1>3. n # 0
    BY <1>2
  <1>4. n \in 1 .. Depth /\ n - 1 \in 0 .. Depth /\ n - 1 < n
    BY <1>2, <1>3, ValuesAssumption
  <1>5. n - 1 \in S
    BY <1>2, <1>4
  <1> QED BY <1>2, <1>4, <1>5

LEMMA Levels == Level = [n \in 0 .. Depth |-> IF n = 0 THEN Scalars ELSE Nested(Level[n - 1])]
  <1> DEFINE Built(g, n) == g = [k \in 0 .. n |-> IF k = 0 THEN Scalars ELSE Nested(g[k - 1])]
             Done        == {n \in 0 .. Depth : \E g : Built(g, n)}
  <1>1. 0 \in Done
    <2> DEFINE g == [k \in 0 .. 0 |-> Scalars]
    <2>1. Built(g, 0)
      OBVIOUS
    <2>2. \E f : Built(f, 0)
      BY <2>1
    <2> QED BY <2>2, ValuesAssumption
  <1>2. ASSUME NEW n \in 1 .. Depth, n - 1 \in Done PROVE n \in Done
    <2>1. n \in Nat /\ n # 0 /\ n - 1 \in Nat
      BY ValuesAssumption
    <2>2. PICK f : Built(f, n - 1)
      BY <1>2
    <2> DEFINE g == [k \in 0 .. n |-> IF k = n THEN Nested(f[n - 1]) ELSE f[k]]
    <2>3. \A k \in 0 .. n - 1 : g[k] = f[k]
      BY <2>1
    <2>4. ASSUME NEW k \in 0 .. n PROVE g[k] = IF k = 0 THEN Scalars ELSE Nested(g[k - 1])
      <3>1. CASE k = n
        BY <2>1, <2>3, <3>1
      <3>2. CASE k = 0
        BY <2>1, <2>2, <2>3, <3>2
      <3>3. CASE k \in 1 .. n - 1
        <4>1. g[k] = f[k] /\ g[k - 1] = f[k - 1]
          BY <2>1, <2>3, <3>3
        <4>2. f[k] = Nested(f[k - 1])
          BY <2>1, <2>2, <3>3
        <4> QED BY <3>3, <4>1, <4>2
      <3> QED BY <2>1, <3>1, <3>2, <3>3
    <2>5. Built(g, n)
      BY <2>4
    <2>6. \E h : Built(h, n)
      BY <2>5
    <2>7. n \in 0 .. Depth
      BY ValuesAssumption
    <2> QED BY <2>6, <2>7
  <1>3. Depth \in Done
    <2> HIDE DEF Done
    <2> QED BY <1>1, <1>2, DepthInduction, ValuesAssumption
  <1>4. \E g : Built(g, Depth)
    BY <1>3
  <1> QED BY <1>4 DEF Level

LEMMA LevelFacts ==
    /\ Level[0] = Scalars
    /\ \A n \in 1 .. Depth : n - 1 \in 0 .. Depth /\ Level[n] = Nested(Level[n - 1])
    /\ Values = Level[Depth] /\ Depth \in 0 .. Depth
  BY Levels, ValuesAssumption DEF Values

LEMMA TypesOf ==
    /\ \A v \in Scalars : Type(v) \in {"null", "undefined", "string", "boolean", "number", "date"}
    /\ \A v \in Scalars : Type(v) = "null" => v = Null
    /\ \A v \in Scalars : Type(v) = "boolean" => v = Of("boolean", TRUE)
    /\ Null \in Scalars /\ Undefined \in Scalars /\ Of("number", Number) \in Scalars
  BY DEF Scalars, Null, Undefined, Of, Only, Type

\* What a value is made of is of the level below.
LEMMA Parts ==
    ASSUME NEW S, Scalars \subseteq S, NEW v \in Nested(S)
    PROVE  /\ v \in Scalars \/ Type(v) \in {"array", "object", "set", "map"}
           /\ Type(v) = "array" => v = Of("array", Value(v)) /\ Value(v) \in Seq(S)
           /\ Type(v) \in {"object", "map"} => \A i \in DOMAIN Value(v) : Value(v)[i][2] \in S
  <1>1. CASE v \in Scalars
    BY <1>1, TypesOf
  <1>2. ASSUME NEW l \in Lists(S), v = Of("array", l) PROVE Type(v) = "array" /\ Value(v) = l /\ l \in Seq(S)
    <2>1. l = <<>> \/ (\E w \in S : l = <<w>>) \/ (\E w, x \in S : l = <<w, x>>)
      BY <1>2, TypesOf DEF Lists
    <2>2. <<>> \in Seq(S) /\ (\A w \in S : <<w>> \in Seq(S)) /\ (\A w, x \in S : <<w, x>> \in Seq(S))
      OBVIOUS
    <2>3. l \in Seq(S)
      BY <2>1, <2>2
    <2> QED BY <1>2, <2>3 DEF Of, Type, Value
  <1>3. ASSUME NEW l \in Pairs(S), v = Of("object", l)
        PROVE  Type(v) = "object" /\ \A i \in DOMAIN Value(v) : Value(v)[i][2] \in S
    BY <1>3, TypesOf DEF Pairs, Of, Type, Value
  <1>4. ASSUME NEW w \in S, v = Of("map", << <<Text, w>> >>)
        PROVE  Type(v) = "map" /\ \A i \in DOMAIN Value(v) : Value(v)[i][2] \in S
    BY <1>4 DEF Of, Type, Value
  <1>5. ASSUME NEW w \in S, v = Of("set", <<w>>) PROVE Type(v) = "set"
    BY <1>5 DEF Of, Type
  <1> QED BY <1>1, <1>2, <1>3, <1>4, <1>5 DEF Nested

LEMMA Growing ==
    \A n \in 0 .. Depth : Scalars \subseteq Level[n] /\ (n > 0 => Level[n - 1] \subseteq Level[n])
  <1>1. ASSUME NEW n \in 0 .. Depth PROVE Scalars \subseteq Level[n]
    <2>1. n = 0 \/ n \in 1 .. Depth
      BY ValuesAssumption
    <2> QED BY <2>1, LevelFacts DEF Nested
  <1> DEFINE Grown == {n \in 0 .. Depth : n > 0 => Level[n - 1] \subseteq Level[n]}
  <1>2. 0 \in Grown
    BY ValuesAssumption
  <1>3. ASSUME NEW n \in 1 .. Depth, n - 1 \in Grown PROVE n \in Grown
    <2>1. n = 1 \/ n - 1 \in 1 .. Depth
      BY ValuesAssumption
    <2>2. CASE n = 1
      BY <1>1, <2>2, LevelFacts, ValuesAssumption
    <2>3. CASE n - 1 \in 1 .. Depth
      <3>1. Level[n - 1] = Nested(Level[(n - 1) - 1]) /\ Level[n] = Nested(Level[n - 1])
        BY <2>3, LevelFacts
      <3>2. Level[(n - 1) - 1] \subseteq Level[n - 1]
        BY <1>3, <2>3, ValuesAssumption
      <3>3. \A S, T : S \subseteq T => Nested(S) \subseteq Nested(T)
        BY DEF Nested, Lists, Pairs
      <3>4. Nested(Level[(n - 1) - 1]) \subseteq Nested(Level[n - 1])
        BY <3>2, <3>3
      <3> QED BY <3>1, <3>4, ValuesAssumption
    <2> QED BY <2>1, <2>2, <2>3
  <1>4. \A n \in 0 .. Depth : n \in Grown
    <2> HIDE DEF Grown
    <2> QED BY <1>2, <1>3, DepthInduction
  <1> QED BY <1>1, <1>4

\* The equations of the three functions.
LEMMA PlainValues ==
    BidiValueToPlain =
      [v \in Values |->
        CASE Type(v) \in {"string", "boolean"} -> v
          [] Type(v) = "number" -> Decoded(v)
          [] Type(v) = "array" -> Of("array", [i \in DOMAIN Value(v) |-> BidiValueToPlain[Value(v)[i]]])
          [] Type(v) \in {"object", "map"} ->
               Of("object", {<<Value(v)[i][1], BidiValueToPlain[Value(v)[i][2]]>> : i \in DOMAIN Value(v)})
          [] OTHER -> Null]
  <1> DEFINE Body(g, v) ==
               CASE Type(v) \in {"string", "boolean"} -> v
                 [] Type(v) = "number" -> Decoded(v)
                 [] Type(v) = "array" -> Of("array", [i \in DOMAIN Value(v) |-> g[Value(v)[i]]])
                 [] Type(v) \in {"object", "map"} ->
                      Of("object", {<<Value(v)[i][1], g[Value(v)[i][2]]>> : i \in DOMAIN Value(v)})
                 [] OTHER -> Null
  <1>1. ASSUME NEW S, Scalars \subseteq S, NEW v \in Nested(S), NEW f, NEW g, \A w \in S : f[w] = g[w]
        PROVE  Body(f, v) = Body(g, v)
    <2>1. CASE v \in Scalars
      BY <2>1, TypesOf
    <2>2. CASE Type(v) = "array"
      <3>1. \A i \in DOMAIN Value(v) : f[Value(v)[i]] = g[Value(v)[i]]
        BY <1>1, <2>2, Parts
      <3> QED BY <2>2, <3>1
    <2>3. CASE Type(v) \in {"object", "map"}
      <3>1. \A i \in DOMAIN Value(v) : f[Value(v)[i][2]] = g[Value(v)[i][2]]
        BY <1>1, <2>3, Parts
      <3>2. {<<Value(v)[i][1], f[Value(v)[i][2]]>> : i \in DOMAIN Value(v)}
            = {<<Value(v)[i][1], g[Value(v)[i][2]]>> : i \in DOMAIN Value(v)}
        BY <3>1
      <3> QED BY <2>3, <3>2
    <2>4. CASE Type(v) = "set"
      BY <2>4
    <2> QED BY <1>1, <2>1, <2>2, <2>3, <2>4, Parts
  <1>2. ASSUME NEW f, NEW g, NEW v \in Scalars PROVE Body(f, v) = Body(g, v)
    BY <1>2, TypesOf
  <1> HIDE DEF Body
  <1> DEFINE Built(g, n) == g = [v \in Level[n] |-> Body(g, v)]
             Done        == {n \in 0 .. Depth : \E g : Built(g, n)}
  <1>3. 0 \in Done
    <2> DEFINE g == [v \in Level[0] |-> Body(Null, v)]
    <2>1. \A v \in Level[0] : Body(Null, v) = Body(g, v)
      BY <1>2, LevelFacts
    <2>2. Built(g, 0)
      BY <2>1
    <2>3. \E f : Built(f, 0)
      BY <2>2
    <2> QED BY <2>3, ValuesAssumption
  <1>4. ASSUME NEW n \in 1 .. Depth, n - 1 \in Done PROVE n \in Done
    <2>1. PICK f : Built(f, n - 1)
      BY <1>4
    <2>2. Level[n] = Nested(Level[n - 1]) /\ Scalars \subseteq Level[n - 1] /\ Level[n - 1] \subseteq Level[n]
      BY LevelFacts, Growing, ValuesAssumption
    <2> DEFINE g == [v \in Level[n] |-> Body(f, v)]
    <2>3. \A v \in Level[n - 1] : g[v] = f[v]
      BY <2>1, <2>2
    <2>4. \A v \in Level[n] : Body(f, v) = Body(g, v)
      <3> HIDE DEF g, Built
      <3> QED BY <2>2, <2>3, <1>1
    <2>5. Built(g, n)
      BY <2>4
    <2>6. \E h : Built(h, n)
      BY <2>5
    <2>7. n \in 0 .. Depth
      BY ValuesAssumption
    <2> QED BY <2>6, <2>7
  <1>5. Depth \in Done
    <2> HIDE DEF Done
    <2> QED BY <1>3, <1>4, DepthInduction, LevelFacts
  <1>6. PICK g : Built(g, Depth)
    BY <1>5
  <1>7. g = [v \in Values |-> Body(g, v)]
    BY <1>6 DEF Values
  <1> QED BY <1>7 DEF BidiValueToPlain, Body

LEMMA DataValues ==
    Data =
      [v \in Values |->
        CASE Type(v) = "array" -> Of("array", [i \in DOMAIN Value(v) |-> Data[Value(v)[i]]])
          [] Type(v) \in {"object", "map"} ->
               Of("object", {<<Value(v)[i][1], Data[Value(v)[i][2]]>> : i \in DOMAIN Value(v)})
          [] OTHER -> v]
  <1> DEFINE Body(g, v) ==
               CASE Type(v) = "array" -> Of("array", [i \in DOMAIN Value(v) |-> g[Value(v)[i]]])
                 [] Type(v) \in {"object", "map"} ->
                      Of("object", {<<Value(v)[i][1], g[Value(v)[i][2]]>> : i \in DOMAIN Value(v)})
                 [] OTHER -> v
  <1>1. ASSUME NEW S, Scalars \subseteq S, NEW v \in Nested(S), NEW f, NEW g, \A w \in S : f[w] = g[w]
        PROVE  Body(f, v) = Body(g, v)
    <2>1. CASE v \in Scalars
      BY <2>1, TypesOf
    <2>2. CASE Type(v) = "array"
      <3>1. \A i \in DOMAIN Value(v) : f[Value(v)[i]] = g[Value(v)[i]]
        BY <1>1, <2>2, Parts
      <3> QED BY <2>2, <3>1
    <2>3. CASE Type(v) \in {"object", "map"}
      <3>1. \A i \in DOMAIN Value(v) : f[Value(v)[i][2]] = g[Value(v)[i][2]]
        BY <1>1, <2>3, Parts
      <3>2. {<<Value(v)[i][1], f[Value(v)[i][2]]>> : i \in DOMAIN Value(v)}
            = {<<Value(v)[i][1], g[Value(v)[i][2]]>> : i \in DOMAIN Value(v)}
        BY <3>1
      <3> QED BY <2>3, <3>2
    <2>4. CASE Type(v) = "set"
      BY <2>4
    <2> QED BY <1>1, <2>1, <2>2, <2>3, <2>4, Parts
  <1>2. ASSUME NEW f, NEW g, NEW v \in Scalars PROVE Body(f, v) = Body(g, v)
    BY <1>2, TypesOf
  <1> HIDE DEF Body
  <1> DEFINE Built(g, n) == g = [v \in Level[n] |-> Body(g, v)]
             Done        == {n \in 0 .. Depth : \E g : Built(g, n)}
  <1>3. 0 \in Done
    <2> DEFINE g == [v \in Level[0] |-> Body(Null, v)]
    <2>1. \A v \in Level[0] : Body(Null, v) = Body(g, v)
      BY <1>2, LevelFacts
    <2>2. Built(g, 0)
      BY <2>1
    <2>3. \E f : Built(f, 0)
      BY <2>2
    <2> QED BY <2>3, ValuesAssumption
  <1>4. ASSUME NEW n \in 1 .. Depth, n - 1 \in Done PROVE n \in Done
    <2>1. PICK f : Built(f, n - 1)
      BY <1>4
    <2>2. Level[n] = Nested(Level[n - 1]) /\ Scalars \subseteq Level[n - 1] /\ Level[n - 1] \subseteq Level[n]
      BY LevelFacts, Growing, ValuesAssumption
    <2> DEFINE g == [v \in Level[n] |-> Body(f, v)]
    <2>3. \A v \in Level[n - 1] : g[v] = f[v]
      BY <2>1, <2>2
    <2>4. \A v \in Level[n] : Body(f, v) = Body(g, v)
      <3> HIDE DEF g, Built
      <3> QED BY <2>2, <2>3, <1>1
    <2>5. Built(g, n)
      BY <2>4
    <2>6. \E h : Built(h, n)
      BY <2>5
    <2>7. n \in 0 .. Depth
      BY ValuesAssumption
    <2> QED BY <2>6, <2>7
  <1>5. Depth \in Done
    <2> HIDE DEF Done
    <2> QED BY <1>3, <1>4, DepthInduction, LevelFacts
  <1>6. PICK g : Built(g, Depth)
    BY <1>5
  <1>7. g = [v \in Values |-> Body(g, v)]
    BY <1>6 DEF Values
  <1> QED BY <1>7 DEF Data, Body

LEMMA IsDataValues ==
    IsData =
      [v \in Values |->
        \/ Type(v) \in {"null", "string", "boolean"}
        \/ Type(v) = "number" /\ Value(v) # NaN
        \/ Type(v) = "array" /\ \A i \in DOMAIN Value(v) : IsData[Value(v)[i]]
        \/ Type(v) \in {"object", "map"} /\ \A i \in DOMAIN Value(v) : IsData[Value(v)[i][2]]]
  <1> DEFINE Body(g, v) ==
               \/ Type(v) \in {"null", "string", "boolean"}
               \/ Type(v) = "number" /\ Value(v) # NaN
               \/ Type(v) = "array" /\ \A i \in DOMAIN Value(v) : g[Value(v)[i]]
               \/ Type(v) \in {"object", "map"} /\ \A i \in DOMAIN Value(v) : g[Value(v)[i][2]]
  <1>1. ASSUME NEW S, Scalars \subseteq S, NEW v \in Nested(S), NEW f, NEW g, \A w \in S : f[w] = g[w]
        PROVE  Body(f, v) = Body(g, v)
    <2>1. CASE v \in Scalars
      BY <2>1, TypesOf
    <2>2. CASE Type(v) = "array"
      <3>1. \A i \in DOMAIN Value(v) : f[Value(v)[i]] = g[Value(v)[i]]
        BY <1>1, <2>2, Parts
      <3> QED BY <2>2, <3>1
    <2>3. CASE Type(v) \in {"object", "map"}
      <3>1. \A i \in DOMAIN Value(v) : f[Value(v)[i][2]] = g[Value(v)[i][2]]
        BY <1>1, <2>3, Parts
      <3> QED BY <2>3, <3>1
    <2>4. CASE Type(v) = "set"
      BY <2>4
    <2> QED BY <1>1, <2>1, <2>2, <2>3, <2>4, Parts
  <1>2. ASSUME NEW f, NEW g, NEW v \in Scalars PROVE Body(f, v) = Body(g, v)
    BY <1>2, TypesOf
  <1> HIDE DEF Body
  <1> DEFINE Built(g, n) == g = [v \in Level[n] |-> Body(g, v)]
             Done        == {n \in 0 .. Depth : \E g : Built(g, n)}
  <1>3. 0 \in Done
    <2> DEFINE g == [v \in Level[0] |-> Body(Null, v)]
    <2>1. \A v \in Level[0] : Body(Null, v) = Body(g, v)
      BY <1>2, LevelFacts
    <2>2. Built(g, 0)
      BY <2>1
    <2>3. \E f : Built(f, 0)
      BY <2>2
    <2> QED BY <2>3, ValuesAssumption
  <1>4. ASSUME NEW n \in 1 .. Depth, n - 1 \in Done PROVE n \in Done
    <2>1. PICK f : Built(f, n - 1)
      BY <1>4
    <2>2. Level[n] = Nested(Level[n - 1]) /\ Scalars \subseteq Level[n - 1] /\ Level[n - 1] \subseteq Level[n]
      BY LevelFacts, Growing, ValuesAssumption
    <2> DEFINE g == [v \in Level[n] |-> Body(f, v)]
    <2>3. \A v \in Level[n - 1] : g[v] = f[v]
      BY <2>1, <2>2
    <2>4. \A v \in Level[n] : Body(f, v) = Body(g, v)
      <3> HIDE DEF g, Built
      <3> QED BY <2>2, <2>3, <1>1
    <2>5. Built(g, n)
      BY <2>4
    <2>6. \E h : Built(h, n)
      BY <2>5
    <2>7. n \in 0 .. Depth
      BY ValuesAssumption
    <2> QED BY <2>6, <2>7
  <1>5. Depth \in Done
    <2> HIDE DEF Done
    <2> QED BY <1>3, <1>4, DepthInduction, LevelFacts
  <1>6. PICK g : Built(g, Depth)
    BY <1>5
  <1>7. g = [v \in Values |-> Body(g, v)]
    BY <1>6 DEF Values
  <1> QED BY <1>7 DEF IsData, Body

LEMMA LevelsAreValues == \A n \in 0 .. Depth : Level[n] \subseteq Values
  <1> DEFINE Below == {n \in 0 .. Depth : Level[Depth - n] \subseteq Values}
  <1>1. 0 \in Below
    BY LevelFacts, ValuesAssumption
  <1>2. ASSUME NEW n \in 1 .. Depth, n - 1 \in Below PROVE n \in Below
    <2>1. Depth - (n - 1) \in 0 .. Depth /\ Depth - (n - 1) > 0 /\ (Depth - (n - 1)) - 1 = Depth - n
      BY ValuesAssumption
    <2>2. Level[Depth - n] \subseteq Level[Depth - (n - 1)]
      BY <2>1, Growing
    <2> QED BY <1>2, <2>2, ValuesAssumption
  <1>3. \A n \in 0 .. Depth : n \in Below
    <2> HIDE DEF Below
    <2> QED BY <1>1, <1>2, DepthInduction
  <1> QED
    <2> TAKE n \in 0 .. Depth
    <2>1. Depth - n \in 0 .. Depth /\ Depth - (Depth - n) = n
      BY ValuesAssumption
    <2> QED BY <1>3, <2>1

\* A value that JSON holds is what its plain form says, however deep it is nested.
LEMMA PlainIsData == \A v \in Values : IsData[v] => BidiValueToPlain[v] = Data[v]
  <1> DEFINE Same == {n \in 0 .. Depth : \A v \in Level[n] : IsData[v] => BidiValueToPlain[v] = Data[v]}
  <1>1. ASSUME NEW v \in Scalars, v \in Values, IsData[v] PROVE BidiValueToPlain[v] = Data[v]
    <2>1. \/ Type(v) \in {"null", "string", "boolean"}
          \/ Type(v) = "number" /\ Value(v) # NaN
      BY <1>1, IsDataValues, TypesOf
    <2>2. Data[v] = v
      BY <1>1, DataValues, TypesOf
    <2>3. BidiValueToPlain[v] = v
      BY <1>1, <2>1, PlainValues, TypesOf DEF Decoded
    <2> QED BY <2>2, <2>3
  <1>2. 0 \in Same
    BY <1>1, LevelFacts, LevelsAreValues, ValuesAssumption
  <1>3. ASSUME NEW n \in 1 .. Depth, n - 1 \in Same PROVE n \in Same
    <2>1. /\ Level[n] = Nested(Level[n - 1]) /\ Scalars \subseteq Level[n - 1]
          /\ Level[n - 1] \subseteq Values /\ Level[n] \subseteq Values
      BY LevelFacts, Growing, LevelsAreValues, ValuesAssumption
    <2>2. ASSUME NEW v \in Level[n], IsData[v] PROVE BidiValueToPlain[v] = Data[v]
      <3> HIDE DEF Same
      <3>1. v \in Nested(Level[n - 1]) /\ v \in Values
        BY <2>1
      <3>2. CASE v \in Scalars
        BY <1>1, <2>2, <3>1, <3>2
      <3>3. CASE Type(v) = "array"
        <4>1. \A i \in DOMAIN Value(v) : Value(v)[i] \in Level[n - 1]
          BY <2>1, <3>1, <3>3, Parts
        <4>2. \A i \in DOMAIN Value(v) : IsData[Value(v)[i]]
          BY <2>2, <3>1, <3>3, IsDataValues
        <4>3. \A i \in DOMAIN Value(v) : BidiValueToPlain[Value(v)[i]] = Data[Value(v)[i]]
          BY <1>3, <4>1, <4>2 DEF Same
        <4>4. BidiValueToPlain[v] = Of("array", [i \in DOMAIN Value(v) |-> BidiValueToPlain[Value(v)[i]]])
          BY <3>1, <3>3, PlainValues
        <4>5. Data[v] = Of("array", [i \in DOMAIN Value(v) |-> Data[Value(v)[i]]])
          BY <3>1, <3>3, DataValues
        <4> QED BY <4>3, <4>4, <4>5
      <3>4. CASE Type(v) \in {"object", "map"}
        <4>1. \A i \in DOMAIN Value(v) : Value(v)[i][2] \in Level[n - 1]
          BY <2>1, <3>1, <3>4, Parts
        <4>2. \A i \in DOMAIN Value(v) : IsData[Value(v)[i][2]]
          BY <2>2, <3>1, <3>4, IsDataValues
        <4>3. \A i \in DOMAIN Value(v) : BidiValueToPlain[Value(v)[i][2]] = Data[Value(v)[i][2]]
          BY <1>3, <4>1, <4>2 DEF Same
        <4>4. BidiValueToPlain[v] =
                Of("object", {<<Value(v)[i][1], BidiValueToPlain[Value(v)[i][2]]>> : i \in DOMAIN Value(v)})
          BY <3>1, <3>4, PlainValues
        <4>5. Data[v] = Of("object", {<<Value(v)[i][1], Data[Value(v)[i][2]]>> : i \in DOMAIN Value(v)})
          BY <3>1, <3>4, DataValues
        <4>6. {<<Value(v)[i][1], BidiValueToPlain[Value(v)[i][2]]>> : i \in DOMAIN Value(v)}
              = {<<Value(v)[i][1], Data[Value(v)[i][2]]>> : i \in DOMAIN Value(v)}
          BY <4>3
        <4> QED BY <4>4, <4>5, <4>6
      <3>5. CASE Type(v) = "set"
        BY <2>2, <3>1, <3>5, IsDataValues
      <3> QED BY <2>1, <3>1, <3>2, <3>3, <3>4, <3>5, Parts
    <2> QED BY <2>2, ValuesAssumption
  <1>4. Depth \in Same
    <2> HIDE DEF Same
    <2> QED BY <1>2, <1>3, DepthInduction, LevelFacts
  <1> QED BY <1>4 DEF Values

LEMMA ResultIsData == \A v \in Values : IsData[v] => TranslateScriptResult(v) = Data[v]
  <1> SUFFICES ASSUME NEW v \in Values, IsData[v] PROVE TranslateScriptResult(v) = Data[v]
    OBVIOUS
  <1>1. \/ Type(v) \in {"null", "string", "boolean"}
        \/ Type(v) = "number" /\ Value(v) # NaN
        \/ Type(v) \in {"array", "object", "map"}
    BY IsDataValues
  <1>2. CASE Type(v) \in {"array", "object", "map"}
    BY <1>2, PlainIsData DEF TranslateScriptResult
  <1>3. CASE Type(v) \in {"null", "string", "boolean"} \/ (Type(v) = "number" /\ Value(v) # NaN)
    <2>1. Data[v] = v
      BY <1>3, DataValues
    <2> QED BY <1>3, <2>1 DEF TranslateScriptResult, Decoded
  <1> QED BY <1>1, <1>2, <1>3

\* What a page's function gets of an argument that its browser accepts.
LEMMA ArgumentArrives ==
    \A v \in Arguments : Acceptable(ToBiDiArg(v))
      => Received(ToBiDiArg(v)) = IF v = Of("array", <<>>) THEN Of("object", <<>>) ELSE v
  <1> SUFFICES ASSUME NEW v \in Arguments, Acceptable(ToBiDiArg(v))
               PROVE  Received(ToBiDiArg(v)) = IF v = Of("array", <<>>) THEN Of("object", <<>>) ELSE v
    OBVIOUS
  <1>1. CASE Type(v) \in {"array", "object"}
    BY <1>1 DEF ToBiDiArg, Acceptable, Received, Of, Type, Value
  <1>2. CASE Type(v) \notin {"array", "object"}
    BY <1>2 DEF ToBiDiArg, Acceptable, Received, Of, Type, Value
  <1> QED BY <1>1, <1>2

------------------------------------------------------------------------------
(* Types.                                                                   *)

AnyContext == Contexts \cup {NoContext}
PCs    == {"idle", "waits", "ready", "answered", "failed"}
Cmds   == {"none", "enable", "newPage", "close", "navigate", "cookies", "properties", "call"}
Asked  == {"none", "session.new", "subscribe", "create", "close", "navigate", "setCookie",
           "length", "element", "call"}
Given  == Arguments \cup {Null, Of("object", <<>>)}
Told   == {Null, Undefined} \cup Values \cup Contexts \cup Nat \cup Elements
Result == Told \cup {TranslateScriptResult(v) : v \in Told}
Item   == [name : Nat, value : Told]
Call   == [pc : PCs, cmd : Cmds, context : AnyContext, give : Given, n : Nat, ask : Asked,
           i : Nat, length : Nat, list : Seq(Item), lost : BOOLEAN,
           ok : BOOLEAN, reply : Told, answer : Result]
Command  == [task : Tasks, n : Nat, ask : Asked, context : AnyContext, i : Nat]
RealmRec == [state : {"none", "live", "gone"}, context : AnyContext, first : BOOLEAN]

\* What the browser sends.
Replies     == [kind : {"reply"}, task : Tasks, n : Nat, ok : BOOLEAN, value : Told]
ContextNews == [kind : {"contextCreated", "contextDestroyed"}, context : Contexts]
Began       == [kind : {"realmCreated"}, realm : Realms, context : AnyContext]
Gone        == [kind : {"realmDestroyed"}, realm : Realms]
News        == Replies \cup ContextNews \cup Began \cup Gone

Typed ==
    /\ scenario \in Scenarios
    /\ subscribed \in BOOLEAN /\ closed \in BOOLEAN /\ listening \in BOOLEAN
    /\ contextMap \subseteq Contexts /\ pages \subseteq Contexts
    /\ DOMAIN realmMap \subseteq Realms
    /\ task \in [Tasks -> Call] /\ inbox \subseteq Command /\ wire \in Seq(News)
    /\ realm \in [Realms -> RealmRec]
    /\ array \in Seq(Elements) /\ Len(array) <= MaxLength /\ changes \in Nat
    /\ jar \in [Tasks -> Seq(Nat)]
    /\ began \in [Realms -> SUBSET AnyContext] /\ ended \in [Realms -> SUBSET AnyContext]
    /\ arrays \in [Tasks -> SUBSET Seq(Elements)] /\ got \in [Tasks -> Given]

LEMMA NewsFacts ==
    /\ \A e \in News : /\ e.kind = "reply" => e \in Replies
                       /\ e.kind \in {"contextCreated", "contextDestroyed"} => e \in ContextNews
                       /\ e.kind = "realmCreated" => e \in Began
                       /\ e.kind = "realmDestroyed" => e \in Gone
    /\ \A m \in Command, ok \in BOOLEAN, v \in Told :
          /\ Reply(m, ok, v) \in News /\ Reply(m, ok, v).kind = "reply"
          /\ Reply(m, ok, v).task = m.task /\ Reply(m, ok, v).n = m.n
          /\ Reply(m, ok, v).ok = ok /\ Reply(m, ok, v).value = v
    /\ \A k \in {"contextCreated", "contextDestroyed"}, c \in Contexts :
          ContextEvent(k, c) \in News /\ ContextEvent(k, c).kind = k
    /\ \A r \in Realms, c \in AnyContext :
          /\ RealmCreated(r, c) \in News /\ RealmCreated(r, c).kind = "realmCreated"
          /\ RealmCreated(r, c).realm = r /\ RealmCreated(r, c).context = c
    /\ \A r \in Realms :
          /\ RealmDestroyed(r) \in News /\ RealmDestroyed(r).kind = "realmDestroyed"
          /\ RealmDestroyed(r).realm = r
  <1>1. /\ \A e \in Replies : e.kind = "reply"
        /\ \A e \in ContextNews : e.kind \in {"contextCreated", "contextDestroyed"}
        /\ \A e \in Began : e.kind = "realmCreated"
        /\ \A e \in Gone : e.kind = "realmDestroyed"
    BY DEF Replies, ContextNews, Began, Gone
  <1>2. \A m \in Command, ok \in BOOLEAN, v \in Told : Reply(m, ok, v) \in Replies
    BY DEF Reply, Replies, Command
  <1>3. \A k \in {"contextCreated", "contextDestroyed"}, c \in Contexts : ContextEvent(k, c) \in ContextNews
    BY DEF ContextEvent, ContextNews
  <1>4. \A r \in Realms, c \in AnyContext : RealmCreated(r, c) \in Began
    BY DEF RealmCreated, Began
  <1>5. \A r \in Realms : RealmDestroyed(r) \in Gone
    BY DEF RealmDestroyed, Gone
  <1>6. \A e \in News : e \in Replies \/ e \in ContextNews \/ e \in Began \/ e \in Gone
    BY DEF News
  <1>7. Replies \subseteq News /\ ContextNews \subseteq News /\ Began \subseteq News /\ Gone \subseteq News
    BY DEF News
  <1>8. \A e \in News : /\ e.kind = "reply" => e \in Replies
                        /\ e.kind \in {"contextCreated", "contextDestroyed"} => e \in ContextNews
                        /\ e.kind = "realmCreated" => e \in Began
                        /\ e.kind = "realmDestroyed" => e \in Gone
    BY <1>1, <1>6
  <1>9. \A m \in Command, ok \in BOOLEAN, v \in Told :
          /\ Reply(m, ok, v) \in News /\ Reply(m, ok, v).kind = "reply"
          /\ Reply(m, ok, v).task = m.task /\ Reply(m, ok, v).n = m.n
          /\ Reply(m, ok, v).ok = ok /\ Reply(m, ok, v).value = v
    BY <1>2, <1>7 DEF Reply
  <1>10. \A k \in {"contextCreated", "contextDestroyed"}, c \in Contexts :
           ContextEvent(k, c) \in News /\ ContextEvent(k, c).kind = k
    BY <1>3, <1>7 DEF ContextEvent
  <1>11. \A r \in Realms, c \in AnyContext :
           /\ RealmCreated(r, c) \in News /\ RealmCreated(r, c).kind = "realmCreated"
           /\ RealmCreated(r, c).realm = r /\ RealmCreated(r, c).context = c
    BY <1>4, <1>7 DEF RealmCreated
  <1>12. \A r \in Realms :
           /\ RealmDestroyed(r) \in News /\ RealmDestroyed(r).kind = "realmDestroyed"
           /\ RealmDestroyed(r).realm = r
    BY <1>5, <1>7 DEF RealmDestroyed
  <1> QED BY <1>8, <1>9, <1>10, <1>11, <1>12

\* What was written before something else stays in its place.
LEMMA Joined ==
    ASSUME NEW S, NEW s \in Seq(S), NEW u \in Seq(S)
    PROVE  /\ s \o u \in Seq(S) /\ Len(s \o u) = Len(s) + Len(u) /\ Len(s) \in Nat /\ Len(u) \in Nat
           /\ DOMAIN s = 1 .. Len(s) /\ DOMAIN u = 1 .. Len(u) /\ DOMAIN (s \o u) = 1 .. Len(s) + Len(u)
           /\ \A j \in DOMAIN s : (s \o u)[j] = s[j]
           /\ \A j \in DOMAIN u : (s \o u)[Len(s) + j] = u[j]
           /\ \A j \in DOMAIN (s \o u) :
                 j \in DOMAIN s \/ (j > Len(s) /\ j - Len(s) \in DOMAIN u /\ (s \o u)[j] = u[j - Len(s)])
  OBVIOUS

LEMMA Rest ==
    ASSUME NEW S, NEW s \in Seq(S), s # <<>>
    PROVE  /\ Head(s) = s[1] /\ Head(s) \in S /\ 1 \in DOMAIN s /\ Tail(s) \in Seq(S)
           /\ DOMAIN s = 1 .. Len(s) /\ DOMAIN Tail(s) = 1 .. Len(s) - 1 /\ Len(s) \in Nat
           /\ \A j \in DOMAIN Tail(s) : j + 1 \in DOMAIN s /\ Tail(s)[j] = s[j + 1]
  OBVIOUS

------------------------------------------------------------------------------
(* Realms.  The events of a realm come in order: it begins, perhaps said     *)
(* twice, and it ends, after which nothing comes of it.                      *)

About(e, r) == e.kind \in {"realmCreated", "realmDestroyed"} /\ e.realm = r

\* A realm nobody was told of, and one whose end was taken.
Unborn(r) ==
    realm[r].state = "none" =>
      began[r] = {} /\ ended[r] = {} /\ \A j \in DOMAIN wire : ~About(wire[j], r)
Over(r) ==
    ended[r] # {} =>
      /\ realm[r].state = "gone" /\ \A j \in DOMAIN wire : ~About(wire[j], r)
      /\ ended[r] = IF began[r] = {} THEN {NoContext} ELSE began[r]
      /\ r \notin DOMAIN realmMap
\* What is on the wire of it.
Beginning(r) ==
    \A j \in DOMAIN wire :
        wire[j].kind = "realmCreated" /\ wire[j].realm = r => wire[j].context = realm[r].context
Ending(r) ==
    \A j \in DOMAIN wire : wire[j].kind = "realmDestroyed" /\ wire[j].realm = r =>
        realm[r].state = "gone" /\ \A k \in DOMAIN wire : k > j => ~About(wire[k], r)
\* What the adapter remembers of it until then.
Known(r) ==
    /\ began[r] \subseteq {realm[r].context}
    /\ ended[r] = {} =>
          /\ r \in DOMAIN realmMap <=> (began[r] # {} /\ realm[r].context # NoContext)
          /\ r \in DOMAIN realmMap => realmMap[r] = realm[r].context

Course(r) == Unborn(r) /\ Over(r) /\ Beginning(r) /\ Ending(r) /\ Known(r)

LEMMA CourseMeans == ASSUME Typed, \A r \in Realms : Course(r) PROVE RealmEndsWhereItBegan
  <1>1. ASSUME NEW r \in Realms
        PROVE  /\ ended[r] \subseteq (IF began[r] = {} THEN {NoContext} ELSE began[r])
               /\ r \in DOMAIN realmMap <=> (began[r] \notin {{}, {NoContext}} /\ ended[r] = {})
    <2>1. Over(r) /\ Known(r)
      BY DEF Course
    <2>2. began[r] = {} \/ began[r] = {realm[r].context}
      BY <2>1 DEF Known
    <2> QED BY <2>1, <2>2 DEF Over, Known
  <1>2. DOMAIN realmMap \subseteq Realms
    BY DEF Typed
  <1> QED BY <1>1, <1>2 DEF RealmEndsWhereItBegan

\* What the browser says of realm r when it sends s.
Says(s, r) ==
    \/ /\ realm'[r] = realm[r]
       /\ \A j \in DOMAIN s : About(s[j], r) =>
             s[j] = RealmCreated(r, realm[r].context) /\ realm[r].state = "live"
    \/ /\ realm[r].state = "none" /\ realm'[r].state = "live"
       /\ \A j \in DOMAIN s : About(s[j], r) => s[j] = RealmCreated(r, realm'[r].context)
    \/ /\ realm[r].state = "live" /\ realm'[r].state = "gone" /\ realm'[r].context = realm[r].context
       /\ \A j \in DOMAIN s : About(s[j], r) => s[j] = RealmDestroyed(r)
       /\ \A j, k \in DOMAIN s : About(s[j], r) /\ About(s[k], r) => j = k

LEMMA CourseSent ==
    ASSUME Typed, NEW r \in Realms, Course(r), NEW s \in Seq(News), wire' = wire \o s, Says(s, r),
           UNCHANGED <<began, ended, realmMap>>
    PROVE  Course(r)'
  <1>1. wire \in Seq(News) /\ realm[r] \in RealmRec
    BY DEF Typed
  <1>2. /\ Len(wire) \in Nat /\ DOMAIN wire = 1 .. Len(wire) /\ DOMAIN s = 1 .. Len(s) /\ Len(s) \in Nat
        /\ \A j \in DOMAIN wire : j \in DOMAIN wire' /\ wire'[j] = wire[j]
        /\ DOMAIN wire' \subseteq Nat
        /\ \A j \in DOMAIN wire' :
              j \in DOMAIN wire \/ (j > Len(wire) /\ j - Len(wire) \in DOMAIN s /\ wire'[j] = s[j - Len(wire)])
    BY <1>1, Joined
  <1>3. \/ realm'[r].context = realm[r].context
        \/ /\ realm[r].state = "none" /\ realm'[r].state = "live" /\ began[r] = {} /\ ended[r] = {}
           /\ r \notin DOMAIN realmMap
    <2>1. CASE realm[r].state = "none" /\ realm'[r].state = "live"
      BY <2>1 DEF Course, Unborn, Known
    <2> QED BY <2>1 DEF Says
  <1>4. Unborn(r)'
    BY <1>1, <1>2 DEF Says, Course, Unborn, About, RealmRec
  <1>5. Over(r)'
    <2> SUFFICES ASSUME ended[r] # {} PROVE Over(r)'
      BY DEF Over
    <2>1. realm[r].state = "gone" /\ \A j \in DOMAIN wire : ~About(wire[j], r)
      BY DEF Course, Over
    <2>2. realm'[r] = realm[r] /\ \A j \in DOMAIN s : ~About(s[j], r)
      BY <2>1 DEF Says
    <2>3. \A j \in DOMAIN wire' : ~About(wire'[j], r)
      BY <1>2, <2>1, <2>2
    <2> QED BY <2>1, <2>2, <2>3 DEF Course, Over, About
  <1>6. Beginning(r)'
    <2> SUFFICES ASSUME NEW j \in DOMAIN wire', wire'[j].kind = "realmCreated", wire'[j].realm = r
                 PROVE  wire'[j].context = realm'[r].context
      BY DEF Beginning
    <2>1. CASE j \in DOMAIN wire
      <3>1. wire'[j] = wire[j] /\ wire[j].context = realm[r].context /\ About(wire[j], r)
        BY <1>2, <2>1 DEF Course, Beginning, About
      <3> QED BY <2>1, <3>1 DEF Says, Course, Unborn
    <2>2. CASE j - Len(wire) \in DOMAIN s /\ wire'[j] = s[j - Len(wire)]
      <3>1. About(s[j - Len(wire)], r)
        BY <2>2 DEF About
      <3>2. s[j - Len(wire)] \in {RealmCreated(r, realm[r].context), RealmCreated(r, realm'[r].context), RealmDestroyed(r)}
        BY <2>2, <3>1 DEF Says
      <3>3. s[j - Len(wire)] # RealmDestroyed(r)
        BY <2>2 DEF RealmDestroyed
      <3>4. s[j - Len(wire)] = RealmCreated(r, realm'[r].context)
        BY <2>2, <3>1, <3>3 DEF Says
      <3> QED BY <2>2, <3>4 DEF RealmCreated
    <2> QED BY <1>2, <2>1, <2>2
  <1>7. Ending(r)'
    <2> SUFFICES ASSUME NEW j \in DOMAIN wire', wire'[j].kind = "realmDestroyed", wire'[j].realm = r
                 PROVE  realm'[r].state = "gone" /\ \A k \in DOMAIN wire' : k > j => ~About(wire'[k], r)
      BY DEF Ending, About
    <2>1. CASE j \in DOMAIN wire
      <3>1. realm[r].state = "gone" /\ \A k \in DOMAIN wire : k > j => ~About(wire[k], r)
        BY <1>2, <2>1 DEF Course, Ending
      <3>2. realm'[r] = realm[r] /\ \A i \in DOMAIN s : ~About(s[i], r)
        BY <3>1 DEF Says
      <3> QED BY <1>2, <3>1, <3>2
    <2>2. CASE j > Len(wire) /\ j - Len(wire) \in DOMAIN s /\ wire'[j] = s[j - Len(wire)]
      <3>1. About(s[j - Len(wire)], r)
        BY <2>2 DEF About
      <3>2. s[j - Len(wire)].kind = "realmDestroyed"
        BY <2>2
      <3>3. realm'[r].state = "gone" /\ \A i, k \in DOMAIN s : About(s[i], r) /\ About(s[k], r) => i = k
        BY <2>2, <3>1, <3>2 DEF Says, RealmCreated
      <3>4. ASSUME NEW k \in DOMAIN wire', k > j PROVE ~About(wire'[k], r)
        <4>1. k - Len(wire) \in DOMAIN s /\ wire'[k] = s[k - Len(wire)] /\ k - Len(wire) # j - Len(wire)
          BY <1>2, <2>2, <3>4
        <4> QED BY <2>2, <3>1, <3>3, <4>1
      <3> QED BY <3>3, <3>4
    <2> QED BY <1>2, <2>1, <2>2
  <1>8. Known(r)'
    BY <1>1, <1>3 DEF Course, Known
  <1> QED BY <1>4, <1>5, <1>6, <1>7, <1>8 DEF Course

\* Without news of it, a realm's course goes on.
LEMMA CourseRest ==
    ASSUME Typed, NEW r \in Realms, Course(r), UNCHANGED realm, began'[r] = began[r], ended'[r] = ended[r],
           r \in DOMAIN realmMap' <=> r \in DOMAIN realmMap, r \in DOMAIN realmMap => realmMap'[r] = realmMap[r],
           wire' = wire \/ (wire # <<>> /\ wire' = Tail(wire))
    PROVE  Course(r)'
  <1>1. wire \in Seq(News)
    BY DEF Typed
  <1>2. CASE wire' = wire
    BY <1>2 DEF Course, Unborn, Over, Beginning, Ending, Known, About
  <1>3. CASE wire # <<>> /\ wire' = Tail(wire)
    <2>1. /\ \A j \in DOMAIN wire' : j + 1 \in DOMAIN wire /\ wire'[j] = wire[j + 1] /\ j \in Nat
      BY <1>1, <1>3, Rest
    <2>2. Unborn(r)' /\ Over(r)' /\ Beginning(r)' /\ Known(r)'
      BY <2>1 DEF Course, Unborn, Over, Beginning, Known, About
    <2>3. Ending(r)'
      <3> SUFFICES ASSUME NEW j \in DOMAIN wire', wire'[j].kind = "realmDestroyed", wire'[j].realm = r
                   PROVE  realm[r].state = "gone" /\ \A k \in DOMAIN wire' : k > j => ~About(wire'[k], r)
        BY DEF Ending, About
      <3>1. realm[r].state = "gone" /\ \A k \in DOMAIN wire : k > j + 1 => ~About(wire[k], r)
        BY <2>1 DEF Course, Ending
      <3> QED BY <2>1, <3>1
    <2> QED BY <2>2, <2>3 DEF Course
  <1> QED BY <1>2, <1>3

\* One who begins: the adapter notes its context, unless it has none.
LEMMA CourseBegins ==
    ASSUME Typed, NEW r \in Realms, Course(r), ReaderStep, Head(wire).realm = r, TakeRealmCreated(Head(wire))
    PROVE  Course(r)'
  <1> DEFINE c == realm[r].context
  <1>1. wire \in Seq(News) /\ wire # <<>> /\ wire' = Tail(wire) /\ UNCHANGED <<realm, ended>>
    BY DEF ReaderStep, TakeRealmCreated, browser, Typed
  <1>2. /\ Head(wire) = wire[1] /\ 1 \in DOMAIN wire
        /\ \A j \in DOMAIN wire' : j + 1 \in DOMAIN wire /\ wire'[j] = wire[j + 1] /\ j \in Nat
    BY <1>1, Rest
  <1>3. Head(wire).kind = "realmCreated" /\ Head(wire).context = c /\ About(wire[1], r)
    BY <1>2 DEF TakeRealmCreated, Course, Beginning, About
  <1>4. realm[r].state # "none" /\ ended[r] = {}
    BY <1>2, <1>3 DEF Course, Unborn, Over
  <1>5. began'[r] = {c}
    <2>1. began[r] \subseteq {c} /\ began' = [began EXCEPT ![r] = @ \cup {c}]
      BY <1>3 DEF TakeRealmCreated, Course, Known
    <2> QED BY <2>1 DEF Typed
  <1>6. r \in DOMAIN realmMap' <=> c # NoContext
    <2>1. CASE c = NoContext
      BY <1>3, <1>4, <2>1 DEF TakeRealmCreated, Course, Known
    <2>2. CASE c # NoContext
      BY <1>3, <2>2 DEF TakeRealmCreated
    <2> QED BY <2>1, <2>2
  <1>7. r \in DOMAIN realmMap' => realmMap'[r] = c
    <2>1. CASE c = NoContext
      BY <1>6, <2>1
    <2>2. CASE c # NoContext
      BY <1>3, <2>2 DEF TakeRealmCreated
    <2> QED BY <2>1, <2>2
  <1>8. Unborn(r)' /\ Over(r)' /\ Known(r)'
    BY <1>1, <1>4, <1>5, <1>6, <1>7 DEF Unborn, Over, Known
  <1>9. Beginning(r)'
    BY <1>1, <1>2 DEF Course, Beginning
  <1>10. Ending(r)'
    <2> SUFFICES ASSUME NEW j \in DOMAIN wire', wire'[j].kind = "realmDestroyed", wire'[j].realm = r
                 PROVE  realm[r].state = "gone" /\ \A k \in DOMAIN wire' : k > j => ~About(wire'[k], r)
      BY <1>1 DEF Ending, About
    <2>1. realm[r].state = "gone" /\ \A k \in DOMAIN wire : k > j + 1 => ~About(wire[k], r)
      BY <1>2 DEF Course, Ending
    <2> QED BY <1>2, <2>1
  <1> QED BY <1>8, <1>9, <1>10 DEF Course

\* One who ends: its end goes where its beginning went.
LEMMA CourseEnds ==
    ASSUME Typed, NEW r \in Realms, Course(r), ReaderStep, Head(wire).realm = r, TakeRealmDestroyed(Head(wire))
    PROVE  Course(r)'
  <1>1. wire \in Seq(News) /\ wire # <<>> /\ wire' = Tail(wire) /\ UNCHANGED <<realm, began>>
    BY DEF ReaderStep, TakeRealmDestroyed, browser, Typed
  <1>2. /\ Head(wire) = wire[1] /\ 1 \in DOMAIN wire
        /\ \A j \in DOMAIN wire' : j + 1 \in DOMAIN wire /\ wire'[j] = wire[j + 1] /\ j + 1 > 1
    BY <1>1, Rest
  <1>3. Head(wire).kind = "realmDestroyed" /\ About(wire[1], r)
    BY <1>2 DEF TakeRealmDestroyed, About
  <1>4. realm[r].state = "gone" /\ \A k \in DOMAIN wire : k > 1 => ~About(wire[k], r)
    BY <1>2, <1>3 DEF Course, Ending
  <1>5. ended[r] = {} /\ began[r] \subseteq {realm[r].context}
    BY <1>2, <1>3 DEF Course, Over, Known
  <1>6. ended'[r] = {ContextOf(r)} /\ r \notin DOMAIN realmMap'
    BY <1>5 DEF TakeRealmDestroyed, Typed
  <1>7. {ContextOf(r)} = IF began[r] = {} THEN {NoContext} ELSE began[r]
    BY <1>5 DEF ContextOf, Course, Known
  <1>8. \A j \in DOMAIN wire' : ~About(wire'[j], r)
    BY <1>2, <1>4
  <1>9. Unborn(r)' /\ Over(r)' /\ Known(r)'
    BY <1>1, <1>4, <1>5, <1>6, <1>7, <1>8 DEF Unborn, Over, Known, About
  <1>10. Beginning(r)' /\ Ending(r)'
    BY <1>8 DEF Beginning, Ending, About
  <1> QED BY <1>9, <1>10 DEF Course

LEMMA CourseReads == ASSUME Typed, NEW r \in Realms, Course(r), ReaderStep PROVE Course(r)'
  <1> DEFINE m == Head(wire)
  <1>1. wire # <<>> /\ wire' = Tail(wire) /\ UNCHANGED realm
    BY DEF ReaderStep, browser
  <1>2. CASE TakeReply(m) \/ TakeContextCreated(m) \/ TakeContextDestroyed(m)
    BY <1>1, <1>2, CourseRest DEF TakeReply, TakeContextCreated, TakeContextDestroyed
  <1>3. CASE TakeRealmCreated(m)
    <2>1. CASE m.realm = r
      BY <1>3, <2>1, CourseBegins
    <2>2. CASE m.realm # r
      <3>1. began'[r] = began[r] /\ ended'[r] = ended[r]
        BY <1>3, <2>2 DEF TakeRealmCreated, Typed
      <3>2. /\ r \in DOMAIN realmMap' <=> r \in DOMAIN realmMap
            /\ r \in DOMAIN realmMap => realmMap'[r] = realmMap[r]
        <4>1. CASE m.context = NoContext
          BY <1>3, <4>1 DEF TakeRealmCreated
        <4>2. CASE m.context # NoContext
          BY <1>3, <2>2, <4>2 DEF TakeRealmCreated
        <4> QED BY <4>1, <4>2
      <3> QED BY <1>1, <3>1, <3>2, CourseRest
    <2> QED BY <2>1, <2>2
  <1>4. CASE TakeRealmDestroyed(m)
    <2>1. CASE m.realm = r
      BY <1>4, <2>1, CourseEnds
    <2>2. CASE m.realm # r
      <3>1. began'[r] = began[r] /\ ended'[r] = ended[r]
        BY <1>4, <2>2 DEF TakeRealmDestroyed, Typed
      <3>2. /\ r \in DOMAIN realmMap' <=> r \in DOMAIN realmMap
            /\ r \in DOMAIN realmMap => realmMap'[r] = realmMap[r]
        BY <1>4, <2>2 DEF TakeRealmDestroyed
      <3> QED BY <1>1, <3>1, <3>2, CourseRest
    <2> QED BY <2>1, <2>2
  <1> QED BY <1>2, <1>3, <1>4 DEF ReaderStep

------------------------------------------------------------------------------
(* Calls.  What a call has learned is what its commands did, and what the    *)
(* wire brings it is true when it is taken.                                  *)

\* What the methods ask the browser.
AsksFor(cmd, ask) ==
    \/ cmd = "enable" /\ ask \in {"session.new", "subscribe"}
    \/ cmd = "newPage" /\ ask = "create"
    \/ cmd \in {"close", "navigate"} /\ ask = cmd
    \/ cmd = "cookies" /\ ask = "setCookie"
    \/ cmd = "properties" /\ ask \in {"length", "element"}
    \/ cmd = "call" /\ ask = "call"

Arrived(t)    == got[t] = IF task[t].give = Of("array", <<>>) THEN Of("object", <<>>) ELSE task[t].give
At(a, i)      == IF i < Len(a) THEN a[i + 1] ELSE Undefined
Asking(t)     == task[t].pc \in {"waits", "ready"}

\* An answer to the command that t waits for.
Truth(t, ok, v) ==
    /\ task[t].ask = "subscribe" /\ ok => listening
    /\ task[t].ask = "create" /\ ok => v \in Contexts
    /\ task[t].ask = "length" /\ ok => \E a \in arrays[t] : v = Len(a)
    /\ task[t].ask = "element" /\ ok => \E a \in arrays[t] : v = At(a, task[t].i)
    /\ task[t].ask = "setCookie" => Len(jar[t]) = task[t].i + (IF ok THEN 1 ELSE 0)
    /\ task[t].ask = "call" /\ ok => v \in Values /\ Arrived(t)

Shape(t) ==
    /\ task[t].pc = "idle" => task[t] = Idle
    /\ Asking(t) => AsksFor(task[t].cmd, task[t].ask)
    /\ task[t].pc = "ready" => Truth(t, task[t].ok, task[t].reply)
    /\ task[t].cmd \notin {"cookies", "properties"} =>
          task[t].i = 0 /\ task[t].length = 0 /\ task[t].list = <<>>

Gives(t) ==
    task[t].cmd = "call" => task[t].give \in Arguments /\ (task[t].pc = "answered" => Arrived(t))

\* The commands of t that the browser has.
Mail(t) ==
    \A m \in inbox : m.task = t =>
        /\ m.n \in 1 .. task[t].n /\ AsksFor(task[t].cmd, m.ask)
        /\ m.n = task[t].n /\ task[t].pc = "waits" => m.ask = task[t].ask /\ m.i = task[t].i

ReplyTo(e, t) == e.kind = "reply" /\ e.task = t

\* The answers on their way to it.
Post(t) ==
    \A j \in DOMAIN wire : ReplyTo(wire[j], t) =>
        /\ wire[j].n \in 1 .. task[t].n
        /\ wire[j].n = task[t].n /\ task[t].pc = "waits" => Truth(t, wire[j].ok, wire[j].value)

\* A cookie is not sent again: one command of a list is under way.
Jar(t) ==
    /\ task[t].cmd # "cookies" => jar[t] = <<>>
    /\ task[t].cmd = "cookies" =>
          /\ \A j \in DOMAIN jar[t] : jar[t][j] = j - 1
          /\ Len(jar[t]) \in task[t].i .. task[t].i + 1
          /\ IF task[t].pc = "answered" THEN task[t].i = task[t].length /\ Len(jar[t]) = task[t].length
                                        ELSE task[t].i < task[t].length
          /\ task[t].list = <<>>
          /\ \A m \in inbox : m.task = t =>
                /\ m.i = task[t].i /\ m.n = task[t].n /\ Len(jar[t]) = task[t].i
                /\ task[t].pc \in {"waits", "failed"}
                /\ \A j \in DOMAIN wire : ReplyTo(wire[j], t) => wire[j].n # task[t].n
          /\ \A m, k \in inbox : m.task = t /\ k.task = t => m = k

\* A list of elements: one that is not there has been lost.
Listing(t) ==
    task[t].cmd = "properties" =>
      /\ array \in arrays[t] /\ IsFiniteSet(arrays[t])
      /\ Len(task[t].list) <= task[t].i
      /\ Asking(t) /\ task[t].ask = "length" =>
            task[t].i = 0 /\ task[t].length = 0 /\ task[t].list = <<>> /\ ~task[t].lost
      /\ Asking(t) /\ task[t].ask = "element" => task[t].i < task[t].length
      /\ ~Asking(t) => task[t].i = task[t].length
      /\ \A j \in DOMAIN task[t].list :
            /\ task[t].list[j].name < task[t].i
            /\ \E a \in arrays[t] : task[t].list[j].value = At(a, task[t].list[j].name)
      /\ \A j, k \in DOMAIN task[t].list : j < k => task[t].list[j].name < task[t].list[k].name
      /\ ~task[t].lost =>
            /\ Len(task[t].list) = task[t].i
            /\ \A j \in DOMAIN task[t].list : task[t].list[j].name = j - 1
            /\ task[t].ask = "element" \/ ~Asking(t) => \E a \in arrays[t] : task[t].length = Len(a)

Exchange(t) == Shape(t) /\ Gives(t) /\ Mail(t) /\ Post(t) /\ Jar(t) /\ Listing(t)

------------------------------------------------------------------------------
(* What the browser sends.                                                   *)

LEMMA Listed ==
    ASSUME NEW S, IsFiniteSet(S)
    PROVE  /\ Cardinality(S) \in Nat /\ SetToSeq(S) \in [1 .. Cardinality(S) -> S]
           /\ \A j, k \in 1 .. Cardinality(S) : SetToSeq(S)[j] = SetToSeq(S)[k] => j = k
  <1>1. Cardinality(S) \in Nat /\ ExistsBijection(1 .. Cardinality(S), S)
    BY FS_CardinalityType
  <1>2. \E f \in [1 .. Cardinality(S) -> S] : IsInjective(f)
    BY <1>1 DEF ExistsBijection, Bijection, Injection
  <1>3. SetToSeq(S) \in [1 .. Cardinality(S) -> S] /\ IsInjective(SetToSeq(S))
    BY <1>2 DEF SetToSeq
  <1> QED BY <1>1, <1>3 DEF IsInjective

LEMMA Mapped ==
    ASSUME NEW T, NEW n \in Nat, NEW s \in [1 .. n -> T]
    PROVE  s \in Seq(T) /\ Len(s) = n /\ DOMAIN s = 1 .. n
  OBVIOUS

LEMMA One ==
    ASSUME NEW S, NEW e \in S
    PROVE  <<e>> \in Seq(S) /\ Len(<<e>>) = 1 /\ <<e>>[1] = e /\ DOMAIN <<e>> = 1 .. 1 /\ 1 \in DOMAIN <<e>>
           /\ \A j \in DOMAIN <<e>> : j = 1 /\ <<e>>[j] = e
  OBVIOUS

LEMMA None == <<>> \in Seq(News) /\ (\A s \in Seq(News) : s \o <<>> = s /\ <<>> \o s = s) /\ DOMAIN (<<>>) = {}
  OBVIOUS

\* To what is said of a realm, what is not about it adds nothing.
Silent(s, r) == \A j \in DOMAIN s : ~About(s[j], r)
AnswersOnly(s, p)  == \A j \in DOMAIN s : s[j].kind = "reply" => s[j] = p

LEMMA SaysMore ==
    ASSUME NEW s \in Seq(News), NEW u \in Seq(News), NEW r, Says(s, r), Silent(u, r)
    PROVE  Says(s \o u, r) /\ Says(u \o s, r)
  <1>1. ASSUME NEW x \in Seq(News), DOMAIN x \subseteq Nat, NEW d \in Nat,
               \A j \in DOMAIN x : About(x[j], r) => j - d \in DOMAIN s /\ x[j] = s[j - d]
        PROVE  Says(x, r)
    <2>1. ASSUME NEW j \in DOMAIN x, NEW k \in DOMAIN x, j - d = k - d PROVE j = k
      BY <1>1, <2>1
    <2>2. \A j \in DOMAIN x : About(x[j], r) => j - d \in DOMAIN s /\ x[j] = s[j - d] /\ About(s[j - d], r)
      BY <1>1
    <2>3. CASE realm'[r] = realm[r]
               /\ \A j \in DOMAIN s : About(s[j], r) =>
                    s[j] = RealmCreated(r, realm[r].context) /\ realm[r].state = "live"
      BY <2>2, <2>3 DEF Says
    <2>4. CASE realm[r].state = "none" /\ realm'[r].state = "live"
               /\ \A j \in DOMAIN s : About(s[j], r) => s[j] = RealmCreated(r, realm'[r].context)
      BY <2>2, <2>4 DEF Says
    <2>5. CASE realm[r].state = "live" /\ realm'[r].state = "gone" /\ realm'[r].context = realm[r].context
               /\ (\A j \in DOMAIN s : About(s[j], r) => s[j] = RealmDestroyed(r))
               /\ \A j, k \in DOMAIN s : About(s[j], r) /\ About(s[k], r) => j = k
      <3>1. \A j, k \in DOMAIN x : About(x[j], r) /\ About(x[k], r) => j - d = k - d
        BY <2>2, <2>5
      <3>2. \A j, k \in DOMAIN x : About(x[j], r) /\ About(x[k], r) => j = k
        BY <2>1, <3>1
      <3> QED BY <2>2, <2>5, <3>2 DEF Says
    <2> QED BY <2>3, <2>4, <2>5 DEF Says
  <1>2. /\ s \o u \in Seq(News) /\ u \o s \in Seq(News) /\ Len(u) \in Nat
        /\ DOMAIN (s \o u) \subseteq Nat /\ DOMAIN (u \o s) \subseteq Nat
    BY Joined
  <1>3. \A j \in DOMAIN (s \o u) : About((s \o u)[j], r) => j - 0 \in DOMAIN s /\ (s \o u)[j] = s[j - 0]
    <2> SUFFICES ASSUME NEW j \in DOMAIN (s \o u), About((s \o u)[j], r)
                 PROVE  j - 0 \in DOMAIN s /\ (s \o u)[j] = s[j - 0]
      OBVIOUS
    <2>1. j \in DOMAIN s
      BY Joined DEF Silent
    <2>2. (s \o u)[j] = s[j] /\ j - 0 = j
      BY <1>2, <2>1, Joined
    <2> QED BY <2>1, <2>2
  <1>4. \A j \in DOMAIN (u \o s) :
           About((u \o s)[j], r) => j - Len(u) \in DOMAIN s /\ (u \o s)[j] = s[j - Len(u)]
    <2> SUFFICES ASSUME NEW j \in DOMAIN (u \o s), About((u \o s)[j], r)
                 PROVE  j - Len(u) \in DOMAIN s /\ (u \o s)[j] = s[j - Len(u)]
      OBVIOUS
    <2>1. j \notin DOMAIN u
      BY Joined DEF Silent
    <2> QED BY <2>1, Joined
  <1>5. Says(s \o u, r)
    <2> DEFINE x == s \o u
    <2>1. x \in Seq(News) /\ DOMAIN x \subseteq Nat /\ 0 \in Nat
      BY <1>2
    <2>2. \A j \in DOMAIN x : About(x[j], r) => j - 0 \in DOMAIN s /\ x[j] = s[j - 0]
      BY <1>3
    <2> HIDE DEF x
    <2>3. Says(x, r)
      BY <2>1, <2>2, <1>1
    <2> QED BY <2>3 DEF x
  <1>6. Says(u \o s, r)
    <2> DEFINE x == u \o s
    <2>1. x \in Seq(News) /\ DOMAIN x \subseteq Nat /\ Len(u) \in Nat
      BY <1>2
    <2>2. \A j \in DOMAIN x : About(x[j], r) => j - Len(u) \in DOMAIN s /\ x[j] = s[j - Len(u)]
      BY <1>4
    <2> HIDE DEF x
    <2>3. Says(x, r)
      BY <2>1, <2>2, <1>1
    <2> QED BY <2>3 DEF x
  <1> QED BY <1>5, <1>6

LEMMA OnlyMore ==
    ASSUME NEW s \in Seq(News), NEW u \in Seq(News), NEW p, AnswersOnly(s, p), AnswersOnly(u, p)
    PROVE  AnswersOnly(s \o u, p)
  BY Joined DEF AnswersOnly

\* Who does not listen is told nothing.
LEMMA SaysNothing == ASSUME NEW s \in Seq(News), NEW r, Says(s, r) PROVE Says(<<>>, r) /\ Says(Events(s), r)
  <1>1. Says(<<>>, r)
    BY None DEF Says
  <1> QED BY <1>1 DEF Events

Quiet(s) == \A j \in DOMAIN s : s[j].kind # "reply"

\* It sends answer p, and of the realms what becomes of them.
Sends(p) ==
    \E s \in Seq(News) : wire' = wire \o s /\ AnswersOnly(s, p) /\ \A r \in Realms : Says(s, r)

\* It answers nothing.
Happened == \E s \in Seq(News) : wire' = wire \o s /\ Quiet(s) /\ \A r \in Realms : Says(s, r)

LEMMA SendsEvents ==
    ASSUME Typed, NEW s \in Seq(News), Quiet(s), \A r \in Realms : Says(s, r), wire' = wire \o Events(s)
    PROVE  Happened
  <1>1. Events(s) \in Seq(News) /\ Quiet(Events(s))
    BY None DEF Events, Quiet
  <1>2. \A r \in Realms : Says(Events(s), r)
    BY SaysNothing
  <1> QED BY <1>1, <1>2 DEF Happened

LEMMA SendsReply ==
    ASSUME Typed, NEW s \in Seq(News), Quiet(s), \A r \in Realms : Says(s, r),
           NEW p \in News, p.kind = "reply", wire' = wire \o s \o <<p>>
    PROVE  Sends(p)
  <1> DEFINE u == <<p>>
  <1>1. u \in Seq(News) /\ (\A j \in DOMAIN u : j = 1 /\ u[j] = p) /\ wire \in Seq(News)
    BY One DEF Typed
  <1>2. \A r : Silent(u, r)
    BY <1>1 DEF Silent, About
  <1>3. AnswersOnly(s, p) /\ AnswersOnly(u, p)
    BY <1>1 DEF Quiet, AnswersOnly
  <1>4. wire' = wire \o (s \o u)
    BY <1>1
  <1> HIDE DEF u
  <1>5. s \o u \in Seq(News) /\ AnswersOnly(s \o u, p)
    BY <1>1, <1>3, OnlyMore, Joined
  <1>6. \A r \in Realms : Says(s \o u, r)
    BY <1>1, <1>2, SaysMore
  <1> QED BY <1>4, <1>5, <1>6 DEF Sends

LEMMA SendsEventsReply ==
    ASSUME Typed, NEW s \in Seq(News), Quiet(s), \A r \in Realms : Says(s, r),
           NEW p \in News, p.kind = "reply", wire' = wire \o Events(s) \o <<p>>
    PROVE  Sends(p)
  <1>1. Events(s) \in Seq(News) /\ Quiet(Events(s))
    BY None DEF Events, Quiet
  <1>2. \A r \in Realms : Says(Events(s), r)
    BY SaysNothing
  <1> DEFINE u == Events(s)
  <1>3. u \in Seq(News) /\ Quiet(u) /\ (\A r \in Realms : Says(u, r)) /\ wire' = wire \o u \o <<p>>
    BY <1>1, <1>2
  <1> HIDE DEF u
  <1> QED BY <1>3, SendsReply

\* An answer alone, the realms as they were.
LEMMA SendsOne ==
    ASSUME Typed, NEW p \in News, p.kind = "reply", wire' = Append(wire, p), UNCHANGED realm
    PROVE  Sends(p)
  <1> DEFINE u == <<p>>
  <1>1. u \in Seq(News) /\ (\A j \in DOMAIN u : j = 1 /\ u[j] = p) /\ wire \in Seq(News)
    BY One DEF Typed
  <1>2. \A r \in Realms : Says(u, r)
    BY <1>1 DEF Says, About
  <1>3. AnswersOnly(u, p)
    BY <1>1 DEF AnswersOnly
  <1>4. wire' = wire \o u
    BY <1>1
  <1> HIDE DEF u
  <1> QED BY <1>1, <1>2, <1>3, <1>4 DEF Sends

\* The ends of the realms of a context.
Farewells(c) == [i \in 1 .. Cardinality(RealmsOf(c)) |-> RealmDestroyed(SetToSeq(RealmsOf(c))[i])]

LEMMA Farewell ==
    ASSUME Typed, NEW c
    PROVE  /\ Farewells(c) \in Seq(News) /\ Quiet(Farewells(c))
           /\ \A r \in Realms \ RealmsOf(c) : Silent(Farewells(c), r)
           /\ \A r \in RealmsOf(c) : realm'[r] = [realm[r] EXCEPT !.state = "gone"] => Says(Farewells(c), r)
  <1> DEFINE S == RealmsOf(c)
             n == Cardinality(S)
             q == SetToSeq(S)
             s == Farewells(c)
  <1>1. S \subseteq Realms /\ IsFiniteSet(S)
    BY BiDiAssumption, FS_Subset DEF RealmsOf
  <1>2. n \in Nat /\ q \in [1 .. n -> S] /\ \A j, k \in 1 .. n : q[j] = q[k] => j = k
    BY <1>1, Listed
  <1>3. s = [i \in 1 .. n |-> RealmDestroyed(q[i])]
    BY DEF Farewells
  <1> HIDE DEF S, n, q, s
  <1>4. \A i \in 1 .. n : s[i] \in News /\ s[i] = RealmDestroyed(q[i]) /\ q[i] \in S
                          /\ s[i].kind = "realmDestroyed" /\ s[i].realm = q[i]
    BY <1>1, <1>2, <1>3, NewsFacts
  <1>5. s \in Seq(News) /\ DOMAIN s = 1 .. n
    <2>1. s \in [1 .. n -> News]
      BY <1>3, <1>4
    <2> QED BY <1>2, <2>1, Mapped
  <1>6. Quiet(s)
    BY <1>4, <1>5 DEF Quiet
  <1>7. \A r \in Realms \ S : Silent(s, r)
    BY <1>4, <1>5 DEF Silent, About
  <1>8. ASSUME NEW r \in S, realm'[r] = [realm[r] EXCEPT !.state = "gone"] PROVE Says(s, r)
    <2>1. realm[r].state = "live" /\ realm[r] \in RealmRec
      BY <1>1, <1>8 DEF S, RealmsOf, Live, Typed
    <2>2. realm'[r].state = "gone" /\ realm'[r].context = realm[r].context
      BY <1>8, <2>1 DEF RealmRec
    <2>3. \A j \in DOMAIN s : About(s[j], r) => s[j] = RealmDestroyed(r) /\ q[j] = r
      BY <1>4, <1>5 DEF About
    <2> QED BY <1>2, <1>5, <2>1, <2>2, <2>3 DEF Says
  <1> QED BY <1>5, <1>6, <1>7, <1>8 DEF S, s

\* A page that ends ends its realms.
LEMMA PageEnds ==
    ASSUME Typed, NEW c \in Contexts, EndPage(c), NEW ends \in EndsOf(c)
    PROVE  ends \in Seq(News) /\ Quiet(ends) /\ \A r \in Realms : Says(ends, r)
  <1> DEFINE s == Farewells(c)
             e == ContextEvent("contextDestroyed", c)
             u == <<e>>
  <1>1. e \in News /\ e.kind = "contextDestroyed"
    BY NewsFacts
  <1>2. u \in Seq(News) /\ DOMAIN u = 1 .. 1 /\ \A j \in DOMAIN u : u[j].kind = "contextDestroyed"
    BY <1>1, One
  <1>3. ends = s \o u \/ ends = u \o s
    BY DEF EndsOf, Farewells
  <1>4. s \in Seq(News) /\ Quiet(s)
    BY Farewell
  <1>5. ASSUME NEW r \in Realms PROVE Says(s, r)
    <2>1. CASE r \in RealmsOf(c)
      <3>1. realm'[r] = [realm[r] EXCEPT !.state = "gone"]
        BY <2>1 DEF EndPage
      <3> QED BY <2>1, <3>1, Farewell
    <2>2. CASE r \notin RealmsOf(c)
      <3>1. realm'[r] = realm[r] /\ Silent(s, r)
        BY <2>2, Farewell DEF EndPage
      <3> QED BY <3>1 DEF Says, Silent
    <2> QED BY <2>1, <2>2
  <1>6. \A r : Silent(u, r)
    BY <1>2 DEF Silent, About
  <1>7. Quiet(u)
    BY <1>2 DEF Quiet
  <1> HIDE DEF s, u, e
  <1>8. \A r \in Realms : Says(s \o u, r) /\ Says(u \o s, r)
    BY <1>2, <1>4, <1>5, <1>6, SaysMore
  <1>9. s \o u \in Seq(News) /\ u \o s \in Seq(News) /\ Quiet(s \o u) /\ Quiet(u \o s)
    BY <1>2, <1>4, <1>7, Joined DEF Quiet
  <1> QED BY <1>3, <1>8, <1>9

LEMMA FreshIsNew == ASSUME Typed, NEW q \in Fresh PROVE q \in Realms /\ realm[q].state = "none"
  BY DEF Fresh

\* A document ends them and begins one.
LEMMA Documents ==
    ASSUME Typed, NEW c \in Contexts, NEW q \in Fresh, NewDocument(c, q)
    PROVE  /\ DocumentEvents(c, q) \in Seq(News) /\ Quiet(DocumentEvents(c, q))
           /\ \A r \in Realms : Says(DocumentEvents(c, q), r)
  <1> DEFINE s == Farewells(c)
             e == RealmCreated(q, c)
             u == <<e>>
  <1>1. q \in Realms /\ realm[q].state = "none" /\ q \notin RealmsOf(c)
    BY FreshIsNew DEF RealmsOf, Live
  <1>2. e \in News /\ e.kind = "realmCreated" /\ e.realm = q
    BY <1>1, NewsFacts DEF AnyContext
  <1>3. u \in Seq(News) /\ DOMAIN u = 1 .. 1 /\ \A j \in DOMAIN u : u[j] = e
    BY <1>2, One
  <1>4. DocumentEvents(c, q) = s \o u
    BY DEF DocumentEvents, Farewells
  <1>5. s \in Seq(News) /\ Quiet(s) /\ Silent(s, q)
    BY <1>1, Farewell
  <1>6. Quiet(u) /\ \A r \in Realms : r # q => Silent(u, r)
    BY <1>2, <1>3 DEF Quiet, Silent, About
  <1>7. ASSUME NEW r \in Realms PROVE Says(s \o u, r)
    <2>1. CASE r \in RealmsOf(c)
      <3>1. realm'[r] = [realm[r] EXCEPT !.state = "gone"] /\ r # q
        BY <1>1, <2>1 DEF NewDocument
      <3>2. Says(s, r) /\ Silent(u, r)
        BY <1>6, <2>1, <3>1, Farewell
      <3> HIDE DEF s, u
      <3> QED BY <1>3, <1>5, <3>2, SaysMore
    <2>2. CASE r \notin RealmsOf(c) /\ r # q
      <3>1. realm'[r] = realm[r] /\ Silent(s, r) /\ Silent(u, r)
        BY <1>6, <2>2, Farewell DEF NewDocument
      <3>2. Says(s, r)
        BY <3>1 DEF Says, Silent
      <3> HIDE DEF s, u
      <3> QED BY <1>3, <1>5, <3>1, <3>2, SaysMore
    <2>3. CASE r = q
      <3>1. realm'[r] = [state |-> "live", context |-> c, first |-> FALSE]
        BY <1>1, <2>3 DEF NewDocument
      <3>2. realm'[r].state = "live" /\ e = RealmCreated(r, realm'[r].context)
        BY <2>3, <3>1
      <3>3. Says(u, r)
        BY <1>1, <1>3, <2>3, <3>2 DEF Says
      <3> HIDE DEF s, u
      <3> QED BY <1>3, <1>5, <2>3, <3>3, SaysMore
    <2> QED BY <2>1, <2>2, <2>3
  <1> HIDE DEF s, u
  <1>8. s \o u \in Seq(News) /\ Quiet(s \o u)
    BY <1>3, <1>5, <1>6, Joined DEF Quiet
  <1> QED BY <1>4, <1>7, <1>8

\* What the browser does with a command and what its answer says.
Does(m, ok, v) ==
    /\ array' = array /\ (listening => listening')
    /\ m.ask = "subscribe" /\ ok => listening'
    /\ m.ask = "create" /\ ok => v \in Contexts
    /\ m.ask = "length" /\ ok => v = Len(array)
    /\ m.ask = "element" /\ ok => v = At(array, m.i)
    /\ jar' = (IF m.ask = "setCookie" /\ ok THEN [jar EXCEPT ![m.task] = Append(@, m.i)] ELSE jar)
    /\ m.ask = "call" /\ ok =>
          /\ v \in Values /\ Acceptable(ToBiDiArg(task[m.task].give))
          /\ got' = [got EXCEPT ![m.task] = Received(ToBiDiArg(task[m.task].give))]
    /\ ~(m.ask = "call" /\ ok) => got' = got
Serves(m) == \E ok \in BOOLEAN, v \in Told : Sends(Reply(m, ok, v)) /\ Does(m, ok, v)

LEMMA ServesIs ==
    ASSUME NEW m, NEW ok \in BOOLEAN, NEW v \in Told, Sends(Reply(m, ok, v)), Does(m, ok, v)
    PROVE  Serves(m)
  BY DEF Serves

LEMMA ToldFacts ==
    /\ Null \in Told /\ Undefined \in Told /\ Contexts \subseteq Told /\ Values \subseteq Told
    /\ Nat \subseteq Told /\ Elements \subseteq Told
  BY DEF Told

\* An answer to m, as it is sent.
LEMMA ReplyIs ==
    ASSUME Typed, NEW m \in inbox, NEW ok \in BOOLEAN, NEW v \in Told
    PROVE  Reply(m, ok, v) \in News /\ Reply(m, ok, v).kind = "reply"
  BY NewsFacts DEF Typed

LEMMA ServesSession ==
    ASSUME Typed, NEW m \in inbox, ServeSession(m), got' = got PROVE Serves(m)
  <1>0. Null \in Told
    BY ToldFacts
  <1>1. CASE m.ask = "session.new" /\ UNCHANGED browser /\ \E ok \in BOOLEAN : wire' = Append(wire, Reply(m, ok, Null))
    <2>1. PICK ok \in BOOLEAN : wire' = Append(wire, Reply(m, ok, Null))
      BY <1>1
    <2>2. Sends(Reply(m, ok, Null))
      BY <1>0, <1>1, <2>1, ReplyIs, SendsOne DEF browser
    <2>3. Does(m, ok, Null)
      BY <1>1 DEF Does, browser
    <2> QED BY <1>0, <2>2, <2>3, ServesIs
  <1>2. CASE /\ m.ask = "subscribe" /\ listening' = TRUE
             /\ \E told \in SUBSET {RealmCreated(r, realm[r].context) : r \in {r \in Realms : Live(r)}} :
                  wire' = wire \o SetToSeq(told) \o <<Reply(m, TRUE, Null)>>
             /\ UNCHANGED <<pages, realm, array, changes, jar>>
    <2> DEFINE All == {RealmCreated(r, realm[r].context) : r \in {r \in Realms : Live(r)}}
    <2>1. PICK told \in SUBSET All : wire' = wire \o SetToSeq(told) \o <<Reply(m, TRUE, Null)>>
      BY <1>2
    <2>2. IsFiniteSet(told)
      <3>1. IsFiniteSet({r \in Realms : Live(r)})
        BY BiDiAssumption, FS_Subset
      <3>2. IsFiniteSet(All)
        <4> DEFINE L == {r \in Realms : Live(r)}
                   f == [r \in L |-> RealmCreated(r, realm[r].context)]
        <4>1. f \in [L -> All] /\ \A e \in All : \E r \in L : f[r] = e
          OBVIOUS
        <4>2. f \in Surjection(L, All)
          BY <4>1 DEF Surjection
        <4> HIDE DEF f, All, L
        <4> QED BY <3>1, <4>2, FS_Surjection DEF L
      <3> QED BY <3>2, FS_Subset
    <2> DEFINE n == Cardinality(told)
               s == SetToSeq(told)
               p == Reply(m, TRUE, Null)
    <2>3. n \in Nat /\ s \in [1 .. n -> told]
      BY <2>2, Listed
    <2>4. ASSUME NEW e \in told
          PROVE  \E r \in Realms : e = RealmCreated(r, realm[r].context) /\ realm[r].state = "live"
      BY DEF Live
    <2>5. ASSUME NEW e \in told PROVE e \in News /\ e.kind = "realmCreated"
      <3>1. PICK r \in Realms : e = RealmCreated(r, realm[r].context)
        BY <2>4
      <3>2. realm[r].context \in AnyContext
        BY DEF Typed, RealmRec
      <3> QED BY <3>1, <3>2, NewsFacts
    <2>6. s \in Seq(News) /\ DOMAIN s = 1 .. n
      <3>1. s \in [1 .. n -> News]
        <4> HIDE DEF s, n
        <4> QED BY <2>3, <2>5
      <3> HIDE DEF s, n
      <3> QED BY <2>3, <3>1, Mapped
    <2>7. \A j \in DOMAIN s : s[j] \in told
      BY <2>3, <2>6
    <2>8. Quiet(s)
      BY <2>5, <2>7 DEF Quiet
    <2>9. ASSUME NEW r \in Realms PROVE Says(s, r)
      <3>1. ASSUME NEW j \in DOMAIN s, About(s[j], r)
            PROVE  s[j] = RealmCreated(r, realm[r].context) /\ realm[r].state = "live"
        <4>1. PICK q \in Realms : s[j] = RealmCreated(q, realm[q].context) /\ realm[q].state = "live"
          BY <2>4, <2>7
        <4>2. s[j].realm = q
          BY <4>1 DEF RealmCreated
        <4> QED BY <3>1, <4>1, <4>2 DEF About
      <3> QED BY <1>2, <3>1 DEF Says
    <2>10. Sends(p)
      <3>1. p \in News /\ p.kind = "reply"
        BY <1>0, ReplyIs
      <3>2. wire' = wire \o s \o <<p>>
        BY <2>1
      <3> HIDE DEF s, p
      <3> QED BY <2>6, <2>8, <2>9, <3>1, <3>2, SendsReply
    <2>11. Does(m, TRUE, Null)
      BY <1>2 DEF Does
    <2> QED BY <1>0, <2>10, <2>11, ServesIs
  <1> QED BY <1>1, <1>2 DEF ServeSession

\* Where the answer to a new page may come between its events.
LEMMA Inserted ==
    ASSUME NEW S, NEW a \in S, NEW b \in S, NEW p \in S, NEW k \in 1 .. 3
    PROVE  /\ InsertAt(<<a, b>>, k, p) \in Seq(S)
           /\ \A j \in DOMAIN InsertAt(<<a, b>>, k, p) : InsertAt(<<a, b>>, k, p)[j] \in {a, b, p}
  <1> DEFINE t == <<a, b>>
             u == SubSeq(t, 1, k - 1)
             w == SubSeq(t, k, 2)
             T == {a, b, p}
  <1>1. t \in Seq(T) /\ Len(t) = 2
    OBVIOUS
  <1>2. (\A j \in 1 .. k - 1 : t[j] \in T) /\ (\A j \in k .. 2 : t[j] \in T)
    BY <1>1
  <1>3. u \in Seq(T) /\ w \in Seq(T)
    <2>1. 1 \in Int /\ k - 1 \in Int /\ k \in Int /\ 2 \in Int
      OBVIOUS
    <2>2. SubSeq(t, 1, k - 1) \in Seq(T)
      <3> HIDE DEF t, T
      <3> QED BY <1>2, <2>1, SubSeqProperties
    <2>3. SubSeq(t, k, 2) \in Seq(T)
      <3> HIDE DEF t, T
      <3> QED BY <1>2, <2>1, SubSeqProperties
    <2> QED BY <2>2, <2>3
  <1>4. <<p>> \in Seq(T)
    OBVIOUS
  <1>5. InsertAt(t, k, p) = u \o <<p>> \o w
    BY <1>1 DEF InsertAt
  <1>6. InsertAt(t, k, p) \in Seq(T)
    <2> HIDE DEF u, w, T, t
    <2> QED BY <1>3, <1>4, <1>5
  <1>7. T \subseteq S
    OBVIOUS
  <1> HIDE DEF t, T
  <1>8. InsertAt(t, k, p) \in Seq(S) /\ \A j \in DOMAIN InsertAt(t, k, p) : InsertAt(t, k, p)[j] \in T
    BY <1>6, <1>7
  <1> QED BY <1>8 DEF t, T

LEMMA ServesCreate ==
    ASSUME Typed, NEW m \in inbox, ServeCreate(m), got' = got PROVE Serves(m)
  <1>1. PICK c \in Contexts \ (pages \cup {realm[r].context : r \in Realms}) :
             \E r \in Fresh, k \in 1 .. 3 :
                /\ pages' = pages \cup {c}
                /\ realm' = [realm EXCEPT ![r] = [state |-> "live", context |-> c, first |-> FALSE]]
                /\ wire' = wire \o (IF listening
                              THEN InsertAt(<<ContextEvent("contextCreated", c), RealmCreated(r, c)>>,
                                            k, Reply(m, TRUE, c))
                              ELSE <<Reply(m, TRUE, c)>>)
    BY DEF ServeCreate
  <1>2. PICK q \in Fresh, k \in 1 .. 3 :
                /\ realm' = [realm EXCEPT ![q] = [state |-> "live", context |-> c, first |-> FALSE]]
                /\ wire' = wire \o (IF listening
                              THEN InsertAt(<<ContextEvent("contextCreated", c), RealmCreated(q, c)>>,
                                            k, Reply(m, TRUE, c))
                              ELSE <<Reply(m, TRUE, c)>>)
    BY <1>1
  <1> DEFINE a == ContextEvent("contextCreated", c)
             b == RealmCreated(q, c)
             p == Reply(m, TRUE, c)
             x == IF listening THEN InsertAt(<<a, b>>, k, p) ELSE <<p>>
  <1>3. q \in Realms /\ realm[q].state = "none"
    BY FreshIsNew
  <1>4. c \in Told
    BY ToldFacts
  <1>5. /\ a \in News /\ b \in News /\ p \in News
        /\ a.kind = "contextCreated" /\ b.kind = "realmCreated" /\ b.realm = q /\ p.kind = "reply"
    <2>1. a \in News /\ a.kind = "contextCreated"
      BY NewsFacts
    <2>2. b \in News /\ b.kind = "realmCreated" /\ b.realm = q
      BY <1>3, NewsFacts DEF AnyContext
    <2>3. p \in News /\ p.kind = "reply"
      BY <1>4, ReplyIs
    <2> QED BY <2>1, <2>2, <2>3
  <1>6. x \in Seq(News) /\ \A j \in DOMAIN x : x[j] \in {a, b, p}
    <2> HIDE DEF a, b, p
    <2> QED BY <1>5, Inserted, One
  <1>7. wire' = wire \o x
    BY <1>2
  <1>8. AnswersOnly(x, p)
    BY <1>5, <1>6 DEF AnswersOnly
  <1>9. ASSUME NEW r \in Realms PROVE Says(x, r)
    <2>1. CASE r = q
      <3>1. realm'[r] = [state |-> "live", context |-> c, first |-> FALSE]
        BY <1>2, <1>3, <2>1 DEF Typed
      <3>2. realm'[r].state = "live" /\ b = RealmCreated(r, realm'[r].context)
        BY <2>1, <3>1
      <3>3. \A j \in DOMAIN x : About(x[j], r) => x[j] = b
        BY <1>5, <1>6 DEF About
      <3> HIDE DEF x, b
      <3> QED BY <1>3, <2>1, <3>2, <3>3 DEF Says
    <2>2. CASE r # q
      <3>1. realm'[r] = realm[r]
        BY <1>2, <2>2 DEF Typed
      <3>2. \A j \in DOMAIN x : ~About(x[j], r)
        BY <1>5, <1>6, <2>2 DEF About
      <3> HIDE DEF x
      <3> QED BY <3>1, <3>2 DEF Says
    <2> QED BY <2>1, <2>2
  <1>10. Sends(Reply(m, TRUE, c))
    <2>1. Sends(p)
      <3> HIDE DEF x, p
      <3> QED BY <1>6, <1>7, <1>8, <1>9 DEF Sends
    <2> QED BY <2>1
  <1>11. Does(m, TRUE, c)
    BY DEF Does, ServeCreate
  <1> QED BY <1>4, <1>10, <1>11, ServesIs

LEMMA ServesPage ==
    ASSUME Typed, NEW m \in inbox, ServePage(m), got' = got PROVE Serves(m)
  <1>0. Null \in Told
    BY ToldFacts
  <1>1. CASE /\ m.ask = "close" /\ m.context \in pages /\ EndPage(m.context)
             /\ \E ends \in EndsOf(m.context) : wire' = wire \o Events(ends) \o <<Reply(m, TRUE, Null)>>
    <2>1. PICK ends \in EndsOf(m.context) : wire' = wire \o Events(ends) \o <<Reply(m, TRUE, Null)>>
      BY <1>1
    <2>2. m.context \in Contexts
      BY <1>1 DEF Typed
    <2>3. ends \in Seq(News) /\ Quiet(ends) /\ \A r \in Realms : Says(ends, r)
      BY <1>1, <2>2, PageEnds
    <2>4. Reply(m, TRUE, Null) \in News /\ Reply(m, TRUE, Null).kind = "reply"
      BY <1>0, ReplyIs
    <2>5. Sends(Reply(m, TRUE, Null))
      BY <2>1, <2>3, <2>4, SendsEventsReply
    <2>6. Does(m, TRUE, Null)
      BY <1>1 DEF Does, EndPage
    <2> QED BY <1>0, <2>5, <2>6, ServesIs
  <1>2. CASE /\ m.ask = "navigate" /\ m.context \in pages
             /\ \E r \in Fresh :
                  /\ NewDocument(m.context, r)
                  /\ wire' = wire \o Events(DocumentEvents(m.context, r)) \o <<Reply(m, TRUE, Null)>>
    <2>1. PICK q \in Fresh :
                  /\ NewDocument(m.context, q)
                  /\ wire' = wire \o Events(DocumentEvents(m.context, q)) \o <<Reply(m, TRUE, Null)>>
      BY <1>2
    <2>2. m.context \in Contexts
      BY <1>2 DEF Typed
    <2> DEFINE s == DocumentEvents(m.context, q)
    <2>3. s \in Seq(News) /\ Quiet(s) /\ \A r \in Realms : Says(s, r)
      BY <2>1, <2>2, Documents
    <2>4. Reply(m, TRUE, Null) \in News /\ Reply(m, TRUE, Null).kind = "reply"
      BY <1>0, ReplyIs
    <2>5. Sends(Reply(m, TRUE, Null))
      <3>1. wire' = wire \o Events(s) \o <<Reply(m, TRUE, Null)>>
        BY <2>1
      <3> HIDE DEF s
      <3> QED BY <2>3, <2>4, <3>1, SendsEventsReply
    <2>6. Does(m, TRUE, Null)
      BY <1>2, <2>1 DEF Does, NewDocument
    <2> QED BY <1>0, <2>5, <2>6, ServesIs
  <1>3. CASE /\ m.ask \in {"close", "navigate"}
             /\ wire' = Append(wire, Reply(m, FALSE, Null)) /\ UNCHANGED browser
    <2>1. Sends(Reply(m, FALSE, Null))
      BY <1>0, <1>3, ReplyIs, SendsOne DEF browser
    <2>2. Does(m, FALSE, Null)
      BY <1>3 DEF Does, browser
    <2> QED BY <1>0, <2>1, <2>2, ServesIs
  <1> QED BY <1>1, <1>2, <1>3 DEF ServePage

LEMMA ServesCookie ==
    ASSUME Typed, NEW m \in inbox, ServeCookie(m), got' = got PROVE Serves(m)
  <1>0. Null \in Told
    BY ToldFacts
  <1>1. ASSUME NEW ok \in BOOLEAN, wire' = Append(wire, Reply(m, ok, Null)),
               jar' = IF ok THEN [jar EXCEPT ![m.task] = Append(@, m.i)] ELSE jar
        PROVE  Serves(m)
    <2>1. Sends(Reply(m, ok, Null))
      BY <1>0, <1>1, ReplyIs, SendsOne DEF ServeCookie
    <2>2. Does(m, ok, Null)
      BY <1>1 DEF Does, ServeCookie
    <2> QED BY <1>0, <2>1, <2>2, ServesIs
  <1> QED BY <1>1 DEF ServeCookie

LEMMA ServesArray ==
    ASSUME Typed, NEW m \in inbox, ServeArray(m), got' = got PROVE Serves(m)
  <1>1. ASSUME NEW ok \in BOOLEAN, NEW v \in Told, wire' = Append(wire, Reply(m, ok, v)),
               ok /\ m.ask = "length" => v = Len(array), ok /\ m.ask = "element" => v = At(array, m.i)
        PROVE  Serves(m)
    <2>1. Sends(Reply(m, ok, v))
      BY <1>1, ReplyIs, SendsOne DEF ServeArray, browser
    <2>2. Does(m, ok, v)
      BY <1>1 DEF Does, ServeArray, browser
    <2> QED BY <2>1, <2>2, ServesIs
  <1> DEFINE has == \E r \in RealmsOf(m.context) : realm[r].first
  <1>2. CASE ~has
    <2>1. wire' = Append(wire, Reply(m, FALSE, Null))
      BY <1>2 DEF ServeArray
    <2> QED BY <1>1, <2>1, ToldFacts
  <1>3. CASE has /\ m.ask = "length"
    <2>1. wire' = Append(wire, Reply(m, TRUE, Len(array)))
      BY <1>3 DEF ServeArray
    <2>2. Len(array) \in Told
      BY ToldFacts DEF Typed
    <2> QED BY <1>1, <1>3, <2>1, <2>2
  <1>4. CASE has /\ m.ask = "element"
    <2>1. wire' = Append(wire, Reply(m, TRUE, At(array, m.i)))
      BY <1>4 DEF ServeArray, At
    <2>2. At(array, m.i) \in Told
      <3>1. m.i \in Nat /\ array \in Seq(Elements)
        BY DEF Typed, Command
      <3>2. m.i < Len(array) => array[m.i + 1] \in Elements
        BY <3>1
      <3> QED BY <3>2, ToldFacts DEF At
    <2> QED BY <1>1, <1>4, <2>1, <2>2
  <1> QED BY <1>2, <1>3, <1>4 DEF ServeArray

LEMMA ServesCall ==
    ASSUME Typed, NEW m \in inbox, ServeCall(m) PROVE Serves(m)
  <1> DEFINE arg == ToBiDiArg(task[m.task].give)
  <1>1. CASE Acceptable(arg)
    <2>1. PICK v \in Values : wire' = Append(wire, Reply(m, TRUE, v))
      BY <1>1 DEF ServeCall
    <2>2. v \in Told
      BY ToldFacts
    <2>3. Sends(Reply(m, TRUE, v))
      BY <2>1, <2>2, ReplyIs, SendsOne DEF ServeCall, browser
    <2>4. Does(m, TRUE, v)
      BY <1>1 DEF Does, ServeCall, browser
    <2> QED BY <2>2, <2>3, <2>4, ServesIs
  <1>2. CASE ~Acceptable(arg)
    <2>1. Null \in Told
      BY ToldFacts
    <2>2. Sends(Reply(m, FALSE, Null))
      BY <1>2, <2>1, ReplyIs, SendsOne DEF ServeCall, browser
    <2>3. Does(m, FALSE, Null)
      BY <1>2 DEF Does, ServeCall, browser
    <2> QED BY <2>1, <2>2, <2>3, ServesIs
  <1> QED BY <1>1, <1>2

LEMMA ServesAll == ASSUME Typed, NEW m \in inbox, Serve(m) PROVE Serves(m)
  BY ServesSession, ServesCreate, ServesPage, ServesCookie, ServesArray, ServesCall DEF Serve

\* Of its own, the browser answers nothing.
LEMMA HappensSo == ASSUME Typed, PageChanges PROVE Happened
  <1>1. CASE UNCHANGED <<realm, wire>>
    <2>0. Quiet(<<>>)
      BY None DEF Quiet
    <2>1. wire' = wire \o <<>>
      BY <1>1, None DEF Typed
    <2>2. \A r \in Realms : Says(<<>>, r)
      BY <1>1, None DEF Says
    <2> QED BY <2>0, <2>1, <2>2, None DEF Happened
  <1>2. ASSUME NEW c \in pages, EndPage(c), NEW ends \in EndsOf(c), wire' = wire \o Events(ends) PROVE Happened
    <2>1. ends \in Seq(News) /\ Quiet(ends) /\ \A r \in Realms : Says(ends, r)
      BY <1>2, PageEnds DEF Typed
    <2> QED BY <1>2, <2>1, SendsEvents
  <1>3. ASSUME NEW c \in pages, NEW q \in Fresh, NewDocument(c, q), wire' = wire \o Events(DocumentEvents(c, q))
        PROVE  Happened
    <2> DEFINE s == DocumentEvents(c, q)
    <2>1. s \in Seq(News) /\ Quiet(s) /\ \A r \in Realms : Says(s, r)
      BY <1>3, Documents DEF Typed
    <2>2. wire' = wire \o Events(s)
      BY <1>3
    <2> HIDE DEF s
    <2> QED BY <2>1, <2>2, SendsEvents
  <1>4. ASSUME NEW q \in Realms, realm[q].context = NoContext, NEW e \in News, wire' = wire \o Events(<<e>>),
               \/ /\ realm[q].state = "none" /\ realm' = [realm EXCEPT ![q].state = "live"]
                  /\ e = RealmCreated(q, NoContext)
               \/ /\ realm[q].state = "live" /\ realm' = [realm EXCEPT ![q].state = "gone"]
                  /\ e = RealmDestroyed(q)
        PROVE  Happened
    <2> DEFINE s == <<e>>
    <2>1. s \in Seq(News) /\ DOMAIN s = 1 .. 1 /\ \A j \in DOMAIN s : j = 1 /\ s[j] = e
      BY One
    <2>2. e.kind \in {"realmCreated", "realmDestroyed"} /\ e.realm = q
      BY <1>4 DEF RealmCreated, RealmDestroyed
    <2>3. Quiet(s)
      BY <2>1, <2>2 DEF Quiet
    <2>4. ASSUME NEW r \in Realms PROVE Says(s, r)
      <3> HIDE DEF s
      <3>1. CASE r # q
        <4>1. realm'[r] = realm[r]
          BY <1>4, <3>1 DEF Typed
        <4> QED BY <2>1, <2>2, <3>1, <4>1 DEF Says, About
      <3>2. CASE r = q
        <4>1. realm'[r].context = NoContext /\ realm[r].context = NoContext
          BY <1>4, <3>2 DEF Typed, RealmRec
        <4>2. CASE /\ realm[q].state = "none" /\ realm' = [realm EXCEPT ![q].state = "live"]
                   /\ e = RealmCreated(q, NoContext)
          <5>1. realm'[r].state = "live"
            BY <3>2, <4>2 DEF Typed, RealmRec
          <5> QED BY <2>1, <3>2, <4>1, <4>2, <5>1 DEF Says
        <4>3. CASE /\ realm[q].state = "live" /\ realm' = [realm EXCEPT ![q].state = "gone"]
                   /\ e = RealmDestroyed(q)
          <5>1. realm'[r].state = "gone"
            BY <3>2, <4>3 DEF Typed, RealmRec
          <5> QED BY <2>1, <3>2, <4>1, <4>3, <5>1 DEF Says
        <4> QED BY <1>4, <4>2, <4>3
      <3> QED BY <3>1, <3>2
    <2>5. wire' = wire \o Events(s)
      BY <1>4
    <2> HIDE DEF s
    <2> QED BY <2>1, <2>3, <2>4, <2>5, SendsEvents
  <1>5. CASE \E c \in pages :
          /\ \/ Happens("closes") /\ EndPage(c) /\ \E ends \in EndsOf(c) : wire' = wire \o Events(ends)
             \/ \E r \in Fresh : /\ Happens("realms") /\ NewDocument(c, r)
                                  /\ wire' = wire \o Events(DocumentEvents(c, r))
    BY <1>2, <1>3, <1>5
  <1>6. CASE \E r \in Realms :
          /\ realm[r].context = NoContext
          /\ \/ /\ r \in Fresh /\ realm' = [realm EXCEPT ![r].state = "live"]
                /\ wire' = wire \o Events(<<RealmCreated(r, NoContext)>>)
             \/ /\ Live(r) /\ realm' = [realm EXCEPT ![r].state = "gone"]
                /\ wire' = wire \o Events(<<RealmDestroyed(r)>>)
    <2>1. PICK q \in Realms :
          /\ realm[q].context = NoContext
          /\ \/ /\ q \in Fresh /\ realm' = [realm EXCEPT ![q].state = "live"]
                /\ wire' = wire \o Events(<<RealmCreated(q, NoContext)>>)
             \/ /\ Live(q) /\ realm' = [realm EXCEPT ![q].state = "gone"]
                /\ wire' = wire \o Events(<<RealmDestroyed(q)>>)
      BY <1>6
    <2>2. RealmCreated(q, NoContext) \in News /\ RealmDestroyed(q) \in News
      BY NewsFacts DEF AnyContext
    <2>3. CASE q \in Fresh /\ realm' = [realm EXCEPT ![q].state = "live"]
               /\ wire' = wire \o Events(<<RealmCreated(q, NoContext)>>)
      <3>1. realm[q].state = "none"
        BY <2>3, FreshIsNew
      <3> QED BY <1>4, <2>1, <2>2, <2>3, <3>1
    <2>4. CASE Live(q) /\ realm' = [realm EXCEPT ![q].state = "gone"]
               /\ wire' = wire \o Events(<<RealmDestroyed(q)>>)
      <3>1. realm[q].state = "live"
        BY <2>4 DEF Live
      <3> QED BY <1>4, <2>1, <2>2, <2>4, <3>1
    <2> QED BY <2>1, <2>3, <2>4
  <1> QED BY <1>1, <1>5, <1>6 DEF PageChanges

LEMMA CourseNext == ASSUME Typed, NEW r \in Realms, Course(r), [Next]_vars PROVE Course(r)'
  <1>1. ASSUME NEW t \in Tasks, Calls(t) \/ HandlerStep(t) PROVE Course(r)'
    <2>1. UNCHANGED <<realm, began, ended, realmMap, wire>>
      BY <1>1 DEF Calls, HandlerStep, Returns, browser, adapter, history
    <2> QED BY <2>1, CourseRest
  <1>2. CASE ReaderStep
    BY <1>2, CourseReads
  <1>3. CASE ConnectionEnds
    <2>1. UNCHANGED <<realm, began, ended, realmMap, wire>>
      BY <1>3 DEF ConnectionEnds, browser, history
    <2> QED BY <2>1, CourseRest
  <1>4. ASSUME NEW m \in inbox, Serve(m) PROVE Course(r)'
    <2>1. Serves(m) /\ UNCHANGED <<began, ended, realmMap>>
      BY <1>4, ServesAll DEF Serve, adapter
    <2>2. PICK s \in Seq(News) : wire' = wire \o s /\ Says(s, r)
      BY <2>1 DEF Serves, Sends
    <2> QED BY <2>1, <2>2, CourseSent
  <1>5. CASE BrowserStep
    <2>1. Happened /\ UNCHANGED <<began, ended, realmMap>>
      BY <1>5, HappensSo DEF BrowserStep, adapter
    <2>2. PICK s \in Seq(News) : wire' = wire \o s /\ Says(s, r)
      BY <2>1 DEF Happened
    <2> QED BY <2>1, <2>2, CourseSent
  <1>6. CASE UNCHANGED vars
    BY <1>6, CourseRest DEF vars, browser, adapter, history
  <1> QED BY <1>1, <1>2, <1>3, <1>4, <1>5, <1>6 DEF Next

\* In the beginning, each page that is open has one realm.
LEMMA Home ==
    ASSUME Init
    PROVE  \E home \in [scenario.open -> Realms], known \in SUBSET Realms, of \in [Realms -> AnyContext] :
             /\ \A r \in Realms : r \in Range(home) => of[r] \in scenario.open
             /\ known = IF scenario.enabled THEN Range(home) ELSE {}
             /\ realm = [r \in Realms |-> IF r \in Range(home)
                                          THEN [state |-> "live", context |-> of[r], first |-> TRUE]
                                          ELSE [state |-> "none", context |-> NoContext, first |-> FALSE]]
             /\ realmMap = [r \in known |-> of[r]]
             /\ began = [r \in Realms |-> IF r \in known THEN {of[r]} ELSE {}]
  <1> DEFINE home == CHOOSE h \in Injection(scenario.open, Realms) : TRUE
             known == IF scenario.enabled THEN Range(home) ELSE {}
             at(r) == CHOOSE c \in scenario.open : home[c] = r
             of == [r \in Realms |-> IF r \in Range(home) THEN at(r) ELSE NoContext]
  <1>1. scenario \in Scenarios
    BY DEF Init
  <1>2. Injection(scenario.open, Realms) # {} /\ scenario.open \subseteq Contexts
    BY <1>1, BiDiAssumption
  <1>3. home \in Injection(scenario.open, Realms)
    BY <1>2
  <1>4. home \in [scenario.open -> Realms]
    <2> HIDE DEF home
    <2> QED BY <1>3 DEF Injection
  <1>5. Range(home) \subseteq Realms /\ \A r \in Range(home) : \E c \in scenario.open : home[c] = r
    <2> HIDE DEF home
    <2> QED BY <1>4 DEF Range
  <1>6. known \in SUBSET Realms /\ known \subseteq Range(home)
    BY <1>5
  <1>7. \A r \in Range(home) : at(r) \in scenario.open
    <2> HIDE DEF home
    <2> QED BY <1>5
  <1>8. \A r \in Range(home) : of[r] = at(r)
    BY <1>5
  <1>9. of \in [Realms -> AnyContext]
    BY <1>2, <1>7 DEF AnyContext
  <1>10. realm = [r \in Realms |-> IF r \in Range(home)
                                   THEN [state |-> "live", context |-> at(r), first |-> TRUE]
                                   ELSE [state |-> "none", context |-> NoContext, first |-> FALSE]]
    BY DEF Init
  <1>11. realmMap = [r \in known |-> at(r)] /\ began = [r \in Realms |-> IF r \in known THEN {at(r)} ELSE {}]
    BY DEF Init
  <1> HIDE DEF home, known, at, of
  <1>12. realm = [r \in Realms |-> IF r \in Range(home)
                                   THEN [state |-> "live", context |-> of[r], first |-> TRUE]
                                   ELSE [state |-> "none", context |-> NoContext, first |-> FALSE]]
    BY <1>8, <1>10
  <1>13. realmMap = [r \in known |-> of[r]]
    BY <1>6, <1>8, <1>11
  <1>14. began = [r \in Realms |-> IF r \in known THEN {of[r]} ELSE {}]
    BY <1>6, <1>8, <1>11
  <1>15. \A r \in Realms : r \in Range(home) => of[r] \in scenario.open
    BY <1>7, <1>8
  <1> QED BY <1>4, <1>6, <1>9, <1>12, <1>13, <1>14, <1>15 DEF known

LEMMA CourseInit == ASSUME Init, NEW r \in Realms PROVE Course(r)
  <1>1. PICK home \in [scenario.open -> Realms], known \in SUBSET Realms, of \in [Realms -> AnyContext] :
             /\ \A q \in Realms : q \in Range(home) => of[q] \in scenario.open
             /\ known = IF scenario.enabled THEN Range(home) ELSE {}
             /\ realm = [q \in Realms |-> IF q \in Range(home)
                                          THEN [state |-> "live", context |-> of[q], first |-> TRUE]
                                          ELSE [state |-> "none", context |-> NoContext, first |-> FALSE]]
             /\ realmMap = [q \in known |-> of[q]]
             /\ began = [q \in Realms |-> IF q \in known THEN {of[q]} ELSE {}]
    BY Home
  <1>2. ended[r] = {} /\ wire = <<>> /\ DOMAIN wire = {}
    BY DEF Init
  <1>3. scenario \in Scenarios
    BY DEF Init
  <1>4. scenario.open \subseteq Contexts /\ NoContext \notin Contexts
    BY <1>3, BiDiAssumption
  <1>5. r \in known => realm[r].state = "live" /\ realm[r].context = of[r] /\ of[r] # NoContext
    BY <1>1, <1>4
  <1>6. began[r] = IF r \in known THEN {of[r]} ELSE {}
    BY <1>1
  <1>7. DOMAIN realmMap = known /\ (r \in known => realmMap[r] = of[r])
    BY <1>1
  <1>8. Unborn(r) /\ Over(r) /\ Beginning(r) /\ Ending(r)
    BY <1>2, <1>5, <1>6 DEF Unborn, Over, Beginning, Ending
  <1>9. Known(r)
    BY <1>2, <1>5, <1>6, <1>7 DEF Known
  <1> QED BY <1>8, <1>9 DEF Course

------------------------------------------------------------------------------
(* What a step does to a task.                                               *)

\* What it has learned, and the others as they were.
Learned(t, call) ==
    /\ task' \in [Tasks -> Call] /\ \A u \in Tasks : u # t => task'[u] = task[u]
    /\ task'[t].cmd = call.cmd /\ task'[t].give = call.give /\ task'[t].i = call.i
    /\ task'[t].length = call.length /\ task'[t].list = call.list /\ task'[t].lost = call.lost

\* It waits for a new command,
Waits(t, ask, call) ==
    /\ Learned(t, call) /\ task'[t].pc = "waits" /\ task'[t].ask = ask /\ task'[t].n = call.n + 1
    /\ inbox' \subseteq Command
    /\ \E m \in Command : /\ inbox' = inbox \cup {m}
                          /\ m.task = t /\ m.n = call.n + 1 /\ m.ask = ask /\ m.i = call.i
\* or is over.
Finished(t, pc, call) ==
    /\ Learned(t, call) /\ task'[t].pc = pc /\ task'[t].ask = call.ask /\ task'[t].n = call.n
    /\ inbox' = inbox

LEMMA AsksIs ==
    ASSUME Typed, NEW t \in Tasks, NEW ask \in Asked, NEW call \in Call, Asks(t, ask, call)
    PROVE  Waits(t, ask, call)
  <1> DEFINE next == [call EXCEPT !.pc = "waits", !.n = @ + 1, !.ask = ask, !.reply = Null]
             m == [task |-> t, n |-> next.n, ask |-> ask, context |-> ResolveContext(next.context), i |-> next.i]
  <1>1. Null \in Told
    BY ToldFacts
  <1>2. /\ next \in Call /\ next.pc = "waits" /\ next.ask = ask /\ next.n = call.n + 1
        /\ next.cmd = call.cmd /\ next.give = call.give /\ next.i = call.i
        /\ next.length = call.length /\ next.list = call.list /\ next.lost = call.lost
        /\ next.context = call.context
    <2>1. "waits" \in PCs /\ call.n + 1 \in Nat
      BY DEF PCs, Call
    <2>2. next \in Call
      BY <1>1, <2>1 DEF Call
    <2>3. next.pc = "waits" /\ next.ask = ask /\ next.n = call.n + 1
      BY DEF Call
    <2>4. next.cmd = call.cmd /\ next.give = call.give /\ next.i = call.i
      BY DEF Call
    <2>5. /\ next.length = call.length /\ next.list = call.list /\ next.lost = call.lost
          /\ next.context = call.context
      BY DEF Call
    <2> QED BY <2>2, <2>3, <2>4, <2>5
  <1>3. m \in Command /\ m.task = t /\ m.n = call.n + 1 /\ m.ask = ask /\ m.i = call.i
    BY <1>2 DEF Command, Call, ResolveContext
  <1>4. task' = [task EXCEPT ![t] = next] /\ inbox' = inbox \cup {m}
    BY DEF Asks
  <1> HIDE DEF next, m
  <1>5. task' \in [Tasks -> Call] /\ task'[t] = next /\ \A u \in Tasks : u # t => task'[u] = task[u]
    BY <1>2, <1>4 DEF Typed
  <1>6. inbox' \subseteq Command
    BY <1>3, <1>4 DEF Typed
  <1> QED BY <1>2, <1>3, <1>4, <1>5, <1>6 DEF Waits, Learned

LEMMA EndsIs ==
    ASSUME Typed, NEW t \in Tasks, NEW pc \in {"answered", "failed"}, NEW call \in Call, Ends(t, pc, call)
    PROVE  Finished(t, pc, call)
  <1> DEFINE next == [call EXCEPT !.pc = pc, !.reply = Null]
  <1>1. Null \in Told
    BY ToldFacts
  <1>2. /\ next \in Call /\ next.pc = pc /\ next.ask = call.ask /\ next.n = call.n
        /\ next.cmd = call.cmd /\ next.give = call.give /\ next.i = call.i
        /\ next.length = call.length /\ next.list = call.list /\ next.lost = call.lost
    BY <1>1 DEF Call, PCs
  <1>3. task' = [task EXCEPT ![t] = next] /\ inbox' = inbox
    BY DEF Ends
  <1> HIDE DEF next
  <1>4. task' \in [Tasks -> Call] /\ task'[t] = next /\ \A u \in Tasks : u # t => task'[u] = task[u]
    BY <1>2, <1>3 DEF Typed
  <1> QED BY <1>2, <1>3, <1>4 DEF Finished, Learned

\* Types, when the adapter takes a step.
LEMMA TypedStep ==
    ASSUME Typed, UNCHANGED <<scenario, closed, realmMap, wire, browser, began, ended, got>>,
           subscribed' \in BOOLEAN, contextMap' \subseteq Contexts, arrays' \in [Tasks -> SUBSET Seq(Elements)],
           task' \in [Tasks -> Call], inbox' \subseteq Command
    PROVE  Typed'
  BY DEF Typed, browser

\* What a method starts with.
Starts(t, ask, call) ==
    /\ call \in Call /\ AsksFor(call.cmd, ask) /\ ask \in Asked /\ Asks(t, ask, call)
    /\ call.n = task[t].n /\ call.i = 0 /\ call.list = <<>> /\ ~call.lost
    /\ IF call.cmd = "cookies" THEN call.length > 0 ELSE call.length = 0
    /\ call.cmd = "call" => call.give \in Arguments
    /\ call.cmd = "properties" => ask = "length" /\ arrays' = [arrays EXCEPT ![t] = {array}]
    /\ call.cmd # "properties" => arrays' = arrays

LEMMA CallsIs ==
    ASSUME Typed, NEW t \in Tasks, Exchange(t), Calls(t)
    PROVE  /\ UNCHANGED <<scenario, adapter, wire, browser, began, ended, got>> /\ task[t] = Idle
           /\ \/ \E ask, call : Starts(t, ask, call)
              \/ /\ Finished(t, "answered", [task[t] EXCEPT !.cmd = "enable"])
                 /\ arrays' = arrays
  <1> DEFINE Begun == \E ask, call : Starts(t, ask, call)
  <1>1. task[t] = Idle /\ UNCHANGED <<scenario, adapter, wire, browser, began, ended, got>>
    BY DEF Calls, Exchange, Shape
  <1>2. task[t] \in Call /\ Idle \in Call
    BY <1>1 DEF Typed
  <1>3. ASSUME NEW ask \in Asked, NEW call \in Call, Asks(t, ask, call), AsksFor(call.cmd, ask),
               call.n = 0, call.i = 0, call.list = <<>>, call.lost = FALSE,
               IF call.cmd = "cookies" THEN call.length > 0 ELSE call.length = 0,
               call.cmd = "call" => call.give \in Arguments,
               call.cmd = "properties" => ask = "length" /\ arrays' = [arrays EXCEPT ![t] = {array}],
               call.cmd # "properties" => arrays' = arrays
        PROVE  Begun
    <2>1. Starts(t, ask, call)
      BY <1>1, <1>3 DEF Starts, Idle
    <2> QED BY <2>1
  <1> HIDE DEF Begun
  <1>4. Contexts \subseteq AnyContext /\ Arguments \subseteq Given /\ \A n \in Cookies : n \in Nat /\ n > 0
    BY BiDiAssumption DEF AnyContext, Given, Cookies
  <1>5. ASSUME Answers(t, [task[t] EXCEPT !.cmd = "enable"])
        PROVE  Finished(t, "answered", [task[t] EXCEPT !.cmd = "enable"])
    <2>1. [task[t] EXCEPT !.cmd = "enable"] \in Call
      BY <1>2 DEF Call, Cmds
    <2>2. Ends(t, "answered", [task[t] EXCEPT !.cmd = "enable"])
      BY <1>5 DEF Answers
    <2> QED BY <2>1, <2>2, EndsIs
  <1>6. ASSUME Asks(t, "session.new", [task[t] EXCEPT !.cmd = "enable"]), arrays' = arrays PROVE Begun
    <2> DEFINE call == [task[t] EXCEPT !.cmd = "enable"]
    <2>1. "enable" \in Cmds /\ "session.new" \in Asked /\ AsksFor("enable", "session.new")
      BY DEF Cmds, Asked, AsksFor
    <2>2. call \in Call
      BY <1>2, <1>4, <2>1 DEF Call
    <2>3. call.cmd = "enable" /\ call.n = 0 /\ call.i = 0 /\ call.list = <<>> /\ call.lost = FALSE
      BY <1>1, <1>2 DEF Idle, Call
    <2>4. call.length = 0
      BY <1>1, <1>2 DEF Idle, Call
    <2>5. Asks(t, "session.new", call)
      BY <1>6
    <2> HIDE DEF call
    <2>6. Begun
      BY <1>3, <1>4, <1>6, <2>1, <2>2, <2>3, <2>4, <2>5
    <2> QED BY <2>6
  <1>7. ASSUME Asks(t, "create", [task[t] EXCEPT !.cmd = "newPage"]), arrays' = arrays PROVE Begun
    <2> DEFINE call == [task[t] EXCEPT !.cmd = "newPage"]
    <2>1. "newPage" \in Cmds /\ "create" \in Asked /\ AsksFor("newPage", "create")
      BY DEF Cmds, Asked, AsksFor
    <2>2. call \in Call
      BY <1>2, <1>4, <2>1 DEF Call
    <2>3. call.cmd = "newPage" /\ call.n = 0 /\ call.i = 0 /\ call.list = <<>> /\ call.lost = FALSE
      BY <1>1, <1>2 DEF Idle, Call
    <2>4. call.length = 0
      BY <1>1, <1>2 DEF Idle, Call
    <2>5. Asks(t, "create", call)
      BY <1>7
    <2> HIDE DEF call
    <2>6. Begun
      BY <1>3, <1>4, <1>7, <2>1, <2>2, <2>3, <2>4, <2>5
    <2> QED BY <2>6
  <1>8. ASSUME NEW cmd \in {"close", "navigate"}, NEW c \in Contexts,
               Asks(t, cmd, [task[t] EXCEPT !.cmd = cmd, !.context = c]), arrays' = arrays
        PROVE  Begun
    <2> DEFINE call == [task[t] EXCEPT !.cmd = cmd, !.context = c]
    <2>1. cmd \in Cmds /\ cmd \in Asked /\ AsksFor(cmd, cmd)
      BY DEF Cmds, Asked, AsksFor
    <2>2. call \in Call
      BY <1>2, <1>4, <2>1 DEF Call
    <2>3. call.cmd = cmd /\ call.n = 0 /\ call.i = 0 /\ call.list = <<>> /\ call.lost = FALSE
      BY <1>1, <1>2 DEF Idle, Call
    <2>4. call.length = 0
      BY <1>1, <1>2 DEF Idle, Call
    <2>5. Asks(t, cmd, call)
      BY <1>8
    <2> HIDE DEF call
    <2>6. Begun
      BY <1>3, <1>4, <1>8, <2>1, <2>2, <2>3, <2>4, <2>5
    <2> QED BY <2>6
  <1>9. ASSUME NEW n \in Cookies, Asks(t, "setCookie", [task[t] EXCEPT !.cmd = "cookies", !.length = n]),
               arrays' = arrays
        PROVE  Begun
    <2> DEFINE call == [task[t] EXCEPT !.cmd = "cookies", !.length = n]
    <2>1. "cookies" \in Cmds /\ "setCookie" \in Asked /\ AsksFor("cookies", "setCookie")
      BY DEF Cmds, Asked, AsksFor
    <2>2. call \in Call
      BY <1>2, <1>4, <2>1 DEF Call
    <2>3. call.cmd = "cookies" /\ call.n = 0 /\ call.i = 0 /\ call.list = <<>> /\ call.lost = FALSE
      BY <1>1, <1>2 DEF Idle, Call
    <2>4. call.length > 0
      BY <1>2, <1>4 DEF Call
    <2>5. Asks(t, "setCookie", call)
      BY <1>9
    <2> HIDE DEF call
    <2>6. Begun
      BY <1>3, <1>4, <1>9, <2>1, <2>2, <2>3, <2>4, <2>5
    <2> QED BY <2>6
  <1>10. ASSUME NEW c \in Contexts, Asks(t, "length", [task[t] EXCEPT !.cmd = "properties", !.context = c]),
               arrays' = [arrays EXCEPT ![t] = {array}]
        PROVE  Begun
    <2> DEFINE call == [task[t] EXCEPT !.cmd = "properties", !.context = c]
    <2>1. "properties" \in Cmds /\ "length" \in Asked /\ AsksFor("properties", "length")
      BY DEF Cmds, Asked, AsksFor
    <2>2. call \in Call
      BY <1>2, <1>4, <2>1 DEF Call
    <2>3. call.cmd = "properties" /\ call.n = 0 /\ call.i = 0 /\ call.list = <<>> /\ call.lost = FALSE
      BY <1>1, <1>2 DEF Idle, Call
    <2>4. call.length = 0
      BY <1>1, <1>2 DEF Idle, Call
    <2>5. Asks(t, "length", call)
      BY <1>10
    <2> HIDE DEF call
    <2>6. Begun
      BY <1>3, <1>4, <1>10, <2>1, <2>2, <2>3, <2>4, <2>5
    <2> QED BY <2>6
  <1>11. ASSUME NEW c \in Contexts, NEW v \in Arguments,
               Asks(t, "call", [task[t] EXCEPT !.cmd = "call", !.context = c, !.give = v]), arrays' = arrays
        PROVE  Begun
    <2> DEFINE call == [task[t] EXCEPT !.cmd = "call", !.context = c, !.give = v]
    <2>1. "call" \in Cmds /\ "call" \in Asked /\ AsksFor("call", "call")
      BY DEF Cmds, Asked, AsksFor
    <2>2. call \in Call
      BY <1>2, <1>4, <2>1 DEF Call
    <2>3. call.cmd = "call" /\ call.n = 0 /\ call.i = 0 /\ call.list = <<>> /\ call.lost = FALSE
      BY <1>1, <1>2 DEF Idle, Call
    <2>4. call.length = 0 /\ call.give \in Arguments
      BY <1>1, <1>2 DEF Idle, Call
    <2>5. Asks(t, "call", call)
      BY <1>11
    <2> HIDE DEF call
    <2>6. Begun
      BY <1>3, <1>4, <1>11, <2>1, <2>2, <2>3, <2>4, <2>5
    <2> QED BY <2>6
  <1>12. scenario.open \subseteq Contexts
    BY BiDiAssumption DEF Typed
  <1>13. Begun \/ (Finished(t, "answered", [task[t] EXCEPT !.cmd = "enable"]) /\ arrays' = arrays)
    BY <1>5, <1>6, <1>7, <1>8, <1>9, <1>10, <1>11, <1>12 DEF Calls
  <1> QED BY <1>1, <1>13 DEF Begun

------------------------------------------------------------------------------
(* The exchange of a call, step by step.                                     *)

\* An answer is true after the step.
TruthThen(t, ok, v) ==
    /\ task'[t].ask = "subscribe" /\ ok => listening'
    /\ task'[t].ask = "create" /\ ok => v \in Contexts
    /\ task'[t].ask = "length" /\ ok => \E a \in arrays'[t] : v = Len(a)
    /\ task'[t].ask = "element" /\ ok => \E a \in arrays'[t] : v = At(a, task'[t].i)
    /\ task'[t].ask = "setCookie" => Len(jar'[t]) = task'[t].i + (IF ok THEN 1 ELSE 0)
    /\ task'[t].ask = "call" /\ ok => v \in Values /\ Arrived(t)'

LEMMA TruthStays ==
    ASSUME NEW t \in Tasks, task'[t] = task[t], listening => listening', jar'[t] = jar[t],
           Arrived(t) => Arrived(t)', arrays[t] \subseteq arrays'[t]
    PROVE  \A ok, v : Truth(t, ok, v) => TruthThen(t, ok, v)
  BY DEF Truth, TruthThen

\* Nothing comes to t, and what it knows stays true.
LEMMA ExchangeRest ==
    ASSUME Typed, NEW t \in Tasks, Exchange(t), task'[t] = task[t],
           \A m \in inbox' : m.task = t => m \in inbox,
           \A j \in DOMAIN wire' : ReplyTo(wire'[j], t) => \E k \in DOMAIN wire : wire[k] = wire'[j],
           listening => listening', jar'[t] = jar[t], got'[t] = got[t],
           task[t].pc # "idle" => arrays[t] \subseteq arrays'[t],
           task[t].cmd = "properties" => array' \in arrays'[t] /\ IsFiniteSet(arrays'[t])
    PROVE  Exchange(t)'
  <1>1. task[t].pc # "idle" => \A ok, v : Truth(t, ok, v) => TruthThen(t, ok, v)
    <2>1. Arrived(t) => Arrived(t)'
      BY DEF Arrived
    <2> QED BY <2>1, TruthStays
  <1>2. Shape(t)'
    <2>1. task[t].pc = "ready" => TruthThen(t, task'[t].ok, task'[t].reply)
      BY <1>1 DEF Exchange, Shape
    <2> QED BY <2>1 DEF Exchange, Shape, Asking, TruthThen, Truth
  <1>3. Gives(t)'
    BY DEF Exchange, Gives, Arrived
  <1>4. Mail(t)'
    BY DEF Exchange, Mail
  <1>5. Post(t)'
    <2> SUFFICES ASSUME NEW j \in DOMAIN wire', ReplyTo(wire'[j], t)
                 PROVE  /\ wire'[j].n \in 1 .. task'[t].n
                        /\ wire'[j].n = task'[t].n /\ task'[t].pc = "waits" => TruthThen(t, wire'[j].ok, wire'[j].value)
      BY DEF Post, ReplyTo, Truth, TruthThen
    <2>1. PICK k \in DOMAIN wire : wire[k] = wire'[j]
      OBVIOUS
    <2> QED BY <1>1, <2>1 DEF Exchange, Post, ReplyTo
  <1>6. Jar(t)'
    BY DEF Exchange, Jar, ReplyTo
  <1>7. Listing(t)'
    <2>1. task[t].cmd = "properties" => task[t].pc # "idle"
      BY DEF Exchange, Shape, Idle
    <2>2. SUFFICES ASSUME task[t].cmd = "properties" PROVE Listing(t)'
      BY DEF Listing
    <2>3. arrays[t] \subseteq arrays'[t] /\ Listing(t)
      BY <2>1, <2>2 DEF Exchange
    <2> QED BY <2>2, <2>3 DEF Listing, Asking, At
  <1> QED BY <1>2, <1>3, <1>4, <1>5, <1>6, <1>7 DEF Exchange

\* A new command of it, and its end.
LEMMA MailWaits ==
    ASSUME Typed, NEW t \in Tasks, Exchange(t), NEW call \in Call, NEW ask, Waits(t, ask, call),
           call.n = task[t].n, AsksFor(call.cmd, ask), call.cmd = task[t].cmd \/ task[t] = Idle, wire' = wire
    PROVE  Mail(t)' /\ Post(t)'
  <1>1. task[t].n \in Nat /\ task'[t].n = task[t].n + 1 /\ task'[t].cmd = call.cmd /\ task'[t].i = call.i
        /\ task'[t].pc = "waits" /\ task'[t].ask = ask
    BY DEF Waits, Learned, Typed, Call
  <1>2. PICK m \in Command : /\ inbox' = inbox \cup {m}
                             /\ m.task = t /\ m.n = call.n + 1 /\ m.ask = ask /\ m.i = call.i
    BY DEF Waits
  <1>3. Mail(t) /\ Post(t)
    BY DEF Exchange
  <1>4. ASSUME NEW k \in inbox', k.task = t
        PROVE  /\ k.n \in 1 .. task'[t].n /\ AsksFor(task'[t].cmd, k.ask)
               /\ k.n = task'[t].n => k.ask = task'[t].ask /\ k.i = task'[t].i
    <2>1. CASE k = m
      BY <1>1, <1>2, <2>1
    <2>2. CASE k \in inbox
      <3>1. k.n \in 1 .. task[t].n /\ AsksFor(task[t].cmd, k.ask)
        BY <1>3, <1>4, <2>2 DEF Mail
      <3>2. task[t] # Idle
        BY <3>1 DEF Idle
      <3> QED BY <1>1, <3>1, <3>2
    <2> QED BY <1>2, <2>1, <2>2
  <1>5. ASSUME NEW j \in DOMAIN wire', ReplyTo(wire'[j], t)
        PROVE  wire'[j].n \in 1 .. task'[t].n /\ wire'[j].n # task'[t].n
    <2>1. wire[j].n \in 1 .. task[t].n
      BY <1>3, <1>5 DEF Post, ReplyTo
    <2> QED BY <1>1, <2>1
  <1>6. Mail(t)'
    BY <1>4 DEF Mail
  <1>7. Post(t)'
    BY <1>5 DEF Post, ReplyTo
  <1> QED BY <1>6, <1>7

LEMMA MailFinished ==
    ASSUME Typed, NEW t \in Tasks, Exchange(t), NEW call \in Call, NEW pc \in {"answered", "failed"},
           Finished(t, pc, call), call.n = task[t].n, call.cmd = task[t].cmd \/ task[t] = Idle, wire' = wire
    PROVE  Mail(t)' /\ Post(t)'
  <1>1. task'[t].n = task[t].n /\ task'[t].cmd = call.cmd /\ task'[t].pc # "waits" /\ inbox' = inbox
    BY DEF Finished, Learned
  <1>2. Mail(t) /\ Post(t)
    BY DEF Exchange
  <1>3. ASSUME NEW k \in inbox', k.task = t PROVE k.n \in 1 .. task'[t].n /\ AsksFor(task'[t].cmd, k.ask)
    <2>1. k.n \in 1 .. task[t].n /\ AsksFor(task[t].cmd, k.ask)
      BY <1>1, <1>2, <1>3 DEF Mail
    <2>2. task[t] # Idle
      BY <2>1 DEF Idle
    <2> QED BY <1>1, <2>1, <2>2
  <1>4. Mail(t)'
    BY <1>1, <1>3 DEF Mail
  <1>5. Post(t)'
    BY <1>1, <1>2 DEF Post, ReplyTo
  <1> QED BY <1>4, <1>5

\* A call whose command is one, or two that say nothing of its list.
LEMMA PlainGoesOn ==
    ASSUME Typed, NEW t \in Tasks, Exchange(t), NEW call \in Call, UNCHANGED <<wire, jar, got>>,
           call.n = task[t].n, call.cmd = task[t].cmd \/ task[t] = Idle,
           call.cmd \notin {"cookies", "properties"}, call.i = 0, call.length = 0, call.list = <<>>,
           call.cmd = "call" => call.give \in Arguments,
           \/ \E ask : Waits(t, ask, call) /\ AsksFor(call.cmd, ask)
           \/ \E pc \in {"answered", "failed"} :
                 Finished(t, pc, call) /\ (call.cmd = "call" /\ pc = "answered" => Arrived(t) /\ call.give = task[t].give)
    PROVE  Exchange(t)'
  <1>1. Learned(t, call) /\ task'[t].pc \in {"waits", "answered", "failed"}
    BY DEF Waits, Finished
  <1>2. task'[t].cmd = call.cmd /\ task'[t].give = call.give /\ task'[t].i = 0 /\ task'[t].length = 0
        /\ task'[t].list = <<>>
    BY <1>1 DEF Learned
  <1>3. Mail(t)' /\ Post(t)'
    BY MailWaits, MailFinished
  <1>4. Shape(t)'
    BY <1>1, <1>2 DEF Shape, Asking, Waits, Finished, Learned
  <1>5. Gives(t)'
    BY <1>1, <1>2 DEF Gives, Arrived, Waits, Finished
  <1>6. Jar(t)'
    <2>1. task[t].cmd # "cookies"
      BY DEF Idle
    <2>2. jar[t] = <<>>
      BY <2>1 DEF Exchange, Jar
    <2> QED BY <1>2, <2>2 DEF Jar
  <1>7. Listing(t)'
    BY <1>2 DEF Listing
  <1> QED BY <1>3, <1>4, <1>5, <1>6, <1>7 DEF Exchange

\* Nothing is under way of a task that has not called.
LEMMA Unused ==
    ASSUME Typed, NEW t \in Tasks, Exchange(t), task[t] = Idle
    PROVE  /\ \A m \in inbox : m.task # t
           /\ \A j \in DOMAIN wire : ~ReplyTo(wire[j], t)
           /\ jar[t] = <<>>
  <1>1. task[t].n = 0 /\ task[t].cmd = "none"
    BY DEF Idle
  <1>2. 1 .. 0 = {}
    OBVIOUS
  <1>3. jar[t] = <<>>
    BY <1>1 DEF Exchange, Jar
  <1> QED BY <1>1, <1>2, <1>3 DEF Exchange, Mail, Post

LEMMA ExchangeCalls ==
    ASSUME Typed, NEW t \in Tasks, Exchange(t), Calls(t) PROVE Exchange(t)' /\ Typed'
  <1>1. UNCHANGED <<scenario, adapter, wire, browser, began, ended, got>> /\ task[t] = Idle
    BY CallsIs
  <1>2. UNCHANGED <<scenario, closed, realmMap, wire, browser, began, ended, got>>
        /\ subscribed' \in BOOLEAN /\ contextMap' \subseteq Contexts /\ UNCHANGED <<jar, listening, array>>
    BY <1>1 DEF adapter, browser, Typed
  <1>3. \/ \E ask, call : Starts(t, ask, call)
        \/ Finished(t, "answered", [task[t] EXCEPT !.cmd = "enable"]) /\ arrays' = arrays
    BY CallsIs
  <1>4. CASE Finished(t, "answered", [task[t] EXCEPT !.cmd = "enable"]) /\ arrays' = arrays
    <2> DEFINE call == [task[t] EXCEPT !.cmd = "enable"]
    <2>1. call \in Call /\ call.cmd = "enable" /\ call.n = task[t].n
          /\ call.i = 0 /\ call.length = 0 /\ call.list = <<>>
      <3>1. task[t] \in Call
        BY DEF Typed
      <3>2. call \in Call
        BY <3>1 DEF Call, Cmds
      <3> QED BY <1>1, <3>1, <3>2 DEF Idle, Call
    <2>2. Finished(t, "answered", call)
      BY <1>4
    <2> HIDE DEF call
    <2>3. Exchange(t)'
      BY <1>1, <1>2, <2>1, <2>2, PlainGoesOn
    <2>4. task' \in [Tasks -> Call] /\ inbox' \subseteq Command
      BY <2>2 DEF Finished, Learned, Typed
    <2>5. arrays' \in [Tasks -> SUBSET Seq(Elements)]
      BY <1>4 DEF Typed
    <2> QED BY <1>2, <2>3, <2>4, <2>5, TypedStep
  <1>5. ASSUME NEW ask, NEW call, Starts(t, ask, call) PROVE Exchange(t)' /\ Typed'
    <2>1. call \in Call /\ ask \in Asked /\ AsksFor(call.cmd, ask) /\ call.n = task[t].n
      BY <1>5 DEF Starts
    <2>2. Waits(t, ask, call)
      BY <1>5, <2>1, AsksIs DEF Starts
    <2>3. call.i = 0 /\ call.list = <<>> /\ call.lost = FALSE
      BY <1>5, <2>1 DEF Starts, Call
    <2>4. arrays' \in [Tasks -> SUBSET Seq(Elements)]
      BY <1>5 DEF Starts, Typed
    <2>5. task' \in [Tasks -> Call] /\ inbox' \subseteq Command
      BY <2>2 DEF Waits, Learned
    <2>6. Typed'
      BY <1>2, <2>4, <2>5, TypedStep
    <2>7. CASE call.cmd \notin {"cookies", "properties"}
      <3>1. call.length = 0 /\ (call.cmd = "call" => call.give \in Arguments)
        BY <1>5, <2>7 DEF Starts
      <3>2. Exchange(t)'
        BY <1>1, <1>2, <2>1, <2>2, <2>3, <2>7, <3>1, PlainGoesOn
      <3> QED BY <2>6, <3>2
    <2>8. CASE call.cmd \in {"cookies", "properties"}
      <3>1. Mail(t)' /\ Post(t)'
        BY <1>1, <1>2, <2>1, <2>2, MailWaits
      <3>2. /\ task'[t].pc = "waits" /\ task'[t].ask = ask /\ task'[t].n = 1
            /\ task'[t].cmd = call.cmd /\ task'[t].i = 0
            /\ task'[t].length = call.length /\ task'[t].list = <<>> /\ task'[t].lost = FALSE
        <4>1. task[t].n = 0 /\ call.n + 1 = 1
          BY <1>1, <2>1 DEF Idle
        <4> QED BY <2>2, <2>3, <4>1 DEF Waits, Learned
      <3>3. Shape(t)' /\ Gives(t)'
        BY <2>1, <2>8, <3>2 DEF Shape, Gives, Asking
      <3>4. PICK m \in Command : /\ inbox' = inbox \cup {m}
                                 /\ m.task = t /\ m.n = call.n + 1 /\ m.ask = ask /\ m.i = 0
        BY <2>2, <2>3 DEF Waits
      <3>5. m.n = 1
        BY <1>1, <2>1, <3>4 DEF Idle
      <3>6. (\A k \in inbox' : k.task = t => k = m) /\ jar'[t] = <<>>
            /\ (\A j \in DOMAIN wire' : ~ReplyTo(wire'[j], t))
        BY <1>1, <1>2, <3>4, Unused DEF ReplyTo
      <3>7. CASE call.cmd = "cookies"
        <4>1. call.length \in Nat /\ call.length > 0
          BY <1>5, <2>1, <3>7 DEF Starts, Call
        <4>2. Len(jar'[t]) = 0 /\ DOMAIN jar'[t] = {}
          BY <3>6
        <4>3. \A k \in inbox' : k.task = t =>
                /\ k.i = task'[t].i /\ k.n = task'[t].n /\ Len(jar'[t]) = task'[t].i
                /\ task'[t].pc \in {"waits", "failed"}
                /\ \A j \in DOMAIN wire' : ReplyTo(wire'[j], t) => wire'[j].n # task'[t].n
          BY <3>2, <3>4, <3>5, <3>6, <4>2
        <4>4. \A k, l \in inbox' : k.task = t /\ l.task = t => k = l
          BY <3>6
        <4>5. Jar(t)'
          BY <3>2, <3>7, <4>1, <4>2, <4>3, <4>4 DEF Jar, ReplyTo
        <4>6. Listing(t)'
          BY <3>2, <3>7 DEF Listing
        <4> QED BY <2>6, <3>1, <3>3, <4>5, <4>6 DEF Exchange
      <3>8. CASE call.cmd = "properties"
        <4>1. ask = "length" /\ arrays'[t] = {array} /\ call.length = 0
          BY <1>5, <3>8 DEF Starts, Typed
        <4>2. IsFiniteSet(arrays'[t]) /\ array' \in arrays'[t]
          BY <1>2, <4>1, FS_Singleton
        <4>3. Listing(t)'
          BY <3>2, <4>1, <4>2 DEF Listing, Asking
        <4>4. Jar(t)'
          BY <3>2, <3>6, <3>8 DEF Jar
        <4> QED BY <2>6, <3>1, <3>3, <4>3, <4>4 DEF Exchange
      <3> QED BY <2>8, <3>7, <3>8
    <2> QED BY <2>7, <2>8
  <1> QED BY <1>3, <1>4, <1>5

\* An answer it takes.
LEMMA ExchangeReads ==
    ASSUME Typed, NEW t \in Tasks, Exchange(t), ReaderStep PROVE Exchange(t)'
  <1> DEFINE e == Head(wire)
  <1>1. /\ wire # <<>> /\ wire' = Tail(wire) /\ wire \in Seq(News)
        /\ UNCHANGED <<inbox, listening, array, jar, arrays, got>>
    BY DEF ReaderStep, browser, Typed
  <1>2. /\ e = wire[1] /\ e \in News /\ 1 \in DOMAIN wire
        /\ \A j \in DOMAIN wire' : j + 1 \in DOMAIN wire /\ wire'[j] = wire[j + 1]
    BY <1>1, Rest
  <1>3. task[t].cmd = "properties" => array \in arrays[t] /\ IsFiniteSet(arrays[t])
    BY DEF Exchange, Listing
  <1>4. CASE task'[t] = task[t]
    BY <1>1, <1>2, <1>3, <1>4, ExchangeRest
  <1>5. CASE task'[t] # task[t]
    <2>1. TakeReply(e)
      BY <1>5 DEF ReaderStep, TakeContextCreated, TakeContextDestroyed, TakeRealmCreated, TakeRealmDestroyed
    <2>2. e.kind = "reply" /\ e \in Replies
      BY <1>2, <2>1, NewsFacts DEF TakeReply
    <2>3. e.task = t /\ task[t].pc = "waits" /\ task[t].n = e.n
          /\ task' = [task EXCEPT ![t] = [@ EXCEPT !.pc = "ready", !.ok = e.ok, !.reply = e.value]]
      <3> HIDE DEF e
      <3>1. /\ task[e.task].pc = "waits" /\ task[e.task].n = e.n
            /\ task' = [task EXCEPT ![e.task] = [@ EXCEPT !.pc = "ready", !.ok = e.ok, !.reply = e.value]]
        BY <1>5, <2>1 DEF TakeReply
      <3>2. e.task # t => task'[t] = task[t]
        BY <3>1 DEF Typed
      <3>3. e.task = t
        BY <1>5, <3>2
      <3> QED BY <3>1, <3>3
    <2>4. /\ task'[t].pc = "ready" /\ task'[t].ok = e.ok /\ task'[t].reply = e.value
          /\ task'[t].cmd = task[t].cmd /\ task'[t].ask = task[t].ask /\ task'[t].n = task[t].n
          /\ task'[t].i = task[t].i /\ task'[t].length = task[t].length /\ task'[t].list = task[t].list
          /\ task'[t].lost = task[t].lost /\ task'[t].give = task[t].give
      BY <2>3 DEF Typed, Call
    <2>5. Truth(t, e.ok, e.value)
      BY <1>2, <2>2, <2>3 DEF Exchange, Post, ReplyTo
    <2>6. Shape(t)'
      <3>1. /\ task'[t].ask = "subscribe" /\ task'[t].ok => listening'
            /\ task'[t].ask = "create" /\ task'[t].ok => task'[t].reply \in Contexts
            /\ task'[t].ask = "length" /\ task'[t].ok => \E a \in arrays'[t] : task'[t].reply = Len(a)
            /\ task'[t].ask = "element" /\ task'[t].ok => \E a \in arrays'[t] : task'[t].reply = At(a, task'[t].i)
            /\ task'[t].ask = "setCookie" => Len(jar'[t]) = task'[t].i + (IF task'[t].ok THEN 1 ELSE 0)
            /\ task'[t].ask = "call" /\ task'[t].ok => task'[t].reply \in Values /\ Arrived(t)'
        BY <1>1, <2>4, <2>5 DEF Truth, Arrived
      <3>2. Truth(t, task[t].ok, task[t].reply)'
        BY <3>1 DEF Truth
      <3> QED BY <2>3, <2>4, <3>2 DEF Exchange, Shape, Asking
    <2>7. Gives(t)'
      BY <1>1, <2>4 DEF Exchange, Gives, Arrived
    <2>8. Mail(t)'
      BY <1>1, <2>4 DEF Exchange, Mail
    <2>9. Post(t)'
      BY <1>2, <2>4 DEF Exchange, Post, ReplyTo
    <2>10. Jar(t)'
      <3>1. task[t].cmd = "cookies" => \A m \in inbox : m.task # t
        BY <1>2, <2>2, <2>3 DEF Exchange, Jar, ReplyTo
      <3> QED BY <1>1, <2>3, <2>4, <3>1 DEF Exchange, Jar
    <2>11. Listing(t)'
      BY <1>1, <2>3, <2>4 DEF Exchange, Listing, Asking
    <2> QED BY <2>6, <2>7, <2>8, <2>9, <2>10, <2>11 DEF Exchange
  <1> QED BY <1>4, <1>5

\* The handler has an answer that is true, or no answer.
Knows(t, ok, v) ==
    /\ ok \in BOOLEAN /\ v \in Told /\ Asking(t)
    /\ \/ task[t].pc = "ready" /\ Truth(t, ok, v)
       \/ task[t].pc = "waits" /\ ok = FALSE

LEMMA HandlerIs ==
    ASSUME Typed, NEW t \in Tasks, Exchange(t), HandlerStep(t)
    PROVE  /\ UNCHANGED <<scenario, closed, realmMap, wire, browser, history>>
           /\ task[t] \in Call /\ AsksFor(task[t].cmd, task[t].ask)
           /\ \E ok, v : Knows(t, ok, v) /\ Returns(t, ok, v)
  <1>1. UNCHANGED <<scenario, closed, realmMap, wire, browser, history>>
    BY DEF HandlerStep, Returns
  <1>2. task[t] \in Call /\ task[t].ok \in BOOLEAN /\ task[t].reply \in Told /\ Null \in Told
    BY ToldFacts DEF Typed, Call
  <1>3. CASE task[t].pc = "ready" /\ Returns(t, task[t].ok, task[t].reply)
    <2>1. Knows(t, task[t].ok, task[t].reply)
      BY <1>2, <1>3 DEF Knows, Asking, Exchange, Shape
    <2>2. AsksFor(task[t].cmd, task[t].ask)
      BY <1>3 DEF Asking, Exchange, Shape
    <2> QED BY <1>1, <1>2, <1>3, <2>1, <2>2
  <1>4. CASE task[t].pc = "waits" /\ Returns(t, FALSE, Null)
    <2>1. Knows(t, FALSE, Null)
      BY <1>2, <1>4 DEF Knows, Asking
    <2>2. AsksFor(task[t].cmd, task[t].ask)
      BY <1>4 DEF Asking, Exchange, Shape
    <2> QED BY <1>1, <1>2, <1>4, <2>1, <2>2
  <1> QED BY <1>3, <1>4 DEF HandlerStep

\* What it returns is a call, with all but what it says changed as it was.
LEMMA CallFacts ==
    ASSUME NEW c \in Call
    PROVE  /\ \A v \in Result : [c EXCEPT !.answer = v] \in Call
           /\ \A b \in BOOLEAN : [c EXCEPT !.lost = b] \in Call
           /\ \A n \in Nat : [c EXCEPT !.length = n] \in Call
           /\ [c EXCEPT !.i = @ + 1] \in Call
           /\ [c EXCEPT !.i = @ + 1, !.lost = TRUE] \in Call
           /\ \A l \in Seq(Item) : [c EXCEPT !.i = @ + 1, !.list = l] \in Call
  <1>1. c.i + 1 \in Nat
    BY DEF Call
  <1> QED BY <1>1 DEF Call

LEMMA PlainReturns ==
    ASSUME Typed, NEW t \in Tasks, Exchange(t), task[t] \in Call, AsksFor(task[t].cmd, task[t].ask),
           task[t].cmd \notin {"cookies", "properties"}, UNCHANGED <<scenario, closed, realmMap, wire, browser, history>>,
           subscribed => listening, NEW ok, NEW v, Knows(t, ok, v), Returns(t, ok, v)
    PROVE  Exchange(t)' /\ Typed' /\ (subscribed => listening)' /\ \A u \in Tasks : u # t => task'[u] = task[u]
  <1>1. UNCHANGED <<wire, jar, got, arrays, listening, began, ended>>
    BY DEF browser, history
  <1>2. ok \in BOOLEAN /\ v \in Told /\ (ok => Truth(t, ok, v)) /\ task[t].pc # "idle"
    BY DEF Knows, Asking
  <1>3. /\ task[t].i = 0 /\ task[t].length = 0 /\ task[t].list = <<>>
        /\ (task[t].cmd = "call" => task[t].give \in Arguments)
    BY DEF Exchange, Shape, Gives
  <1>4. subscribed' \in BOOLEAN /\ contextMap' \subseteq Contexts /\ (subscribed => listening)'
    <2>1. CASE task[t].cmd = "enable"
      <3>1. UNCHANGED contextMap /\ EnableReturns(t, ok)
        BY <2>1 DEF Returns, AsksFor
      <3>2. subscribed' = subscribed \/ (subscribed' = TRUE /\ task[t].ask = "subscribe" /\ ok)
        BY <3>1 DEF EnableReturns
      <3>3. CASE subscribed' = subscribed
        BY <1>1, <3>1, <3>3 DEF Typed
      <3>4. CASE subscribed' = TRUE /\ task[t].ask = "subscribe" /\ ok
        <4>1. listening
          BY <1>2, <3>4 DEF Truth
        <4> QED BY <1>1, <3>1, <3>4, <4>1 DEF Typed
      <3> QED BY <3>2, <3>3, <3>4
    <2>2. CASE task[t].cmd = "newPage"
      <3>1. UNCHANGED subscribed /\ NewPageReturns(t, ok, v) /\ task[t].ask = "create"
        BY <2>2 DEF Returns, AsksFor
      <3>2. contextMap' = contextMap \/ (contextMap' = contextMap \cup {v} /\ ok)
        BY <3>1 DEF NewPageReturns
      <3> QED BY <1>1, <1>2, <3>1, <3>2 DEF Typed, Truth
    <2>3. CASE task[t].cmd \notin {"enable", "newPage"}
      BY <1>1, <2>3 DEF Returns, Typed
    <2> QED BY <2>1, <2>2, <2>3
  <1> DEFINE IsOver(call) == \/ Ends(t, "failed", call)
                             \/ Ends(t, "answered", call) /\ (call.cmd = "call" => Arrived(t))
             GoesOn(call) == \E ask \in Asked : Asks(t, ask, call) /\ AsksFor(call.cmd, ask)
  <1>5. \E call \in Call :
           /\ call.n = task[t].n /\ call.cmd = task[t].cmd /\ call.i = 0 /\ call.length = 0 /\ call.list = <<>>
           /\ call.give = task[t].give /\ (IsOver(call) \/ GoesOn(call))
    <2>1. CASE task[t].cmd = "enable"
      <3>1. EnableReturns(t, ok)
        BY <2>1 DEF Returns, AsksFor
      <3>2. "subscribe" \in Asked /\ AsksFor("enable", "subscribe")
        BY DEF Asked, AsksFor
      <3>3. GoesOn(task[t]) \/ IsOver(task[t])
        BY <2>1, <3>1, <3>2 DEF EnableReturns, Answers, Fails
      <3> HIDE DEF GoesOn, IsOver
      <3> QED BY <1>3, <3>3
    <2>2. CASE task[t].cmd = "newPage"
      <3>1. NewPageReturns(t, ok, v) /\ task[t].ask = "create"
        BY <2>2 DEF Returns, AsksFor
      <3>2. CASE ~ok
        <4>1. IsOver(task[t])
          BY <3>1, <3>2 DEF NewPageReturns, Fails
        <4> HIDE DEF GoesOn, IsOver
        <4> QED BY <1>3, <4>1
      <3>3. CASE ok
        <4> DEFINE call == [task[t] EXCEPT !.answer = v]
        <4>1. v \in Result
          BY <1>2 DEF Result
        <4>2. call \in Call
          BY <4>1, CallFacts
        <4>3. /\ call.n = task[t].n /\ call.cmd = task[t].cmd /\ call.i = task[t].i
              /\ call.length = task[t].length /\ call.list = task[t].list /\ call.give = task[t].give
          BY DEF Call
        <4>4. IsOver(call)
          BY <2>2, <3>1, <3>3, <4>3 DEF NewPageReturns, Answers
        <4> HIDE DEF GoesOn, IsOver, call
        <4> QED BY <1>3, <4>2, <4>3, <4>4
      <3> QED BY <1>2, <3>2, <3>3
    <2>3. CASE task[t].cmd \in {"close", "navigate"}
      <3>1. OneReturns(t, ok)
        BY <2>3 DEF Returns, AsksFor
      <3>2. IsOver(task[t])
        BY <2>3, <3>1 DEF OneReturns, Answers, Fails
      <3> HIDE DEF GoesOn, IsOver
      <3> QED BY <1>3, <3>2
    <2>4. CASE task[t].cmd = "call"
      <3>1. CallReturns(t, ok, v) /\ task[t].ask = "call"
        BY <2>4 DEF Returns, AsksFor
      <3>2. CASE ~ok
        <4>1. IsOver(task[t])
          BY <3>1, <3>2 DEF CallReturns, Fails
        <4> HIDE DEF GoesOn, IsOver
        <4> QED BY <1>3, <4>1
      <3>3. CASE ok
        <4> DEFINE call == [task[t] EXCEPT !.answer = TranslateScriptResult(v)]
        <4>1. TranslateScriptResult(v) \in Result
          BY <1>2 DEF Result
        <4>2. call \in Call
          BY <4>1, CallFacts
        <4>3. /\ call.n = task[t].n /\ call.cmd = task[t].cmd /\ call.i = task[t].i
              /\ call.length = task[t].length /\ call.list = task[t].list /\ call.give = task[t].give
          BY DEF Call
        <4>4. Arrived(t)
          BY <1>2, <3>1, <3>3 DEF Truth
        <4>5. IsOver(call)
          BY <3>1, <3>3, <4>4 DEF CallReturns, Answers
        <4> HIDE DEF GoesOn, IsOver, call
        <4> QED BY <1>3, <4>2, <4>3, <4>5
      <3> QED BY <1>2, <3>2, <3>3
    <2> QED BY <2>1, <2>2, <2>3, <2>4 DEF AsksFor
  <1>6. PICK call \in Call :
           /\ call.n = task[t].n /\ call.cmd = task[t].cmd /\ call.i = 0 /\ call.length = 0 /\ call.list = <<>>
           /\ call.give = task[t].give /\ (IsOver(call) \/ GoesOn(call))
    BY <1>5
  <1>7. \/ \E ask \in Asked : Waits(t, ask, call) /\ AsksFor(call.cmd, ask)
        \/ \E pc \in {"answered", "failed"} :
              Finished(t, pc, call) /\ (call.cmd = "call" /\ pc = "answered" => Arrived(t) /\ call.give = task[t].give)
    <2>1. CASE GoesOn(call)
      BY <2>1, AsksIs
    <2>2. CASE Ends(t, "failed", call)
      <3>1. Finished(t, "failed", call)
        BY <2>2, EndsIs
      <3> QED BY <3>1
    <2>3. CASE Ends(t, "answered", call) /\ (call.cmd = "call" => Arrived(t))
      <3>1. Finished(t, "answered", call)
        BY <2>3, EndsIs
      <3> QED BY <1>6, <2>3, <3>1
    <2> QED BY <1>6, <2>1, <2>2, <2>3
  <1> HIDE DEF IsOver, GoesOn
  <1>8. Exchange(t)'
    BY <1>1, <1>3, <1>6, <1>7, PlainGoesOn
  <1>9. task' \in [Tasks -> Call] /\ inbox' \subseteq Command /\ \A u \in Tasks : u # t => task'[u] = task[u]
    BY <1>7 DEF Waits, Finished, Learned, Typed
  <1>10. arrays' \in [Tasks -> SUBSET Seq(Elements)]
    BY <1>1 DEF Typed
  <1>11. Typed'
    BY <1>1, <1>4, <1>9, <1>10, TypedStep DEF browser
  <1> QED BY <1>4, <1>8, <1>9, <1>11

LEMMA CookieGoesOn ==
    ASSUME Typed, NEW t \in Tasks, Exchange(t), task[t] \in Call, task[t].cmd = "cookies",
           UNCHANGED <<scenario, closed, realmMap, wire, browser, history>>, subscribed => listening,
           NEW ok, NEW v, Knows(t, ok, v), Returns(t, ok, v)
    PROVE  Exchange(t)' /\ Typed' /\ (subscribed => listening)' /\ \A u \in Tasks : u # t => task'[u] = task[u]
  <1>1. UNCHANGED <<wire, jar, got, arrays, listening, began, ended, subscribed, contextMap>>
        /\ CookieReturns(t, ok) /\ AsksFor("cookies", "setCookie") /\ task[t].ask = "setCookie"
    <2>1. task[t].ask = "setCookie"
      BY DEF Knows, Exchange, Shape, AsksFor
    <2> QED BY <2>1 DEF browser, history, Returns, AsksFor
  <1>2. Jar(t) /\ task[t].pc \in {"waits", "ready"} /\ ok \in BOOLEAN
    BY DEF Exchange, Knows, Asking
  <1>3. /\ \A j \in DOMAIN jar[t] : jar[t][j] = j - 1
        /\ Len(jar[t]) \in task[t].i .. task[t].i + 1
        /\ task[t].i < task[t].length /\ task[t].list = <<>>
    BY <1>2 DEF Jar
  <1>4. task[t].i \in Nat /\ task[t].length \in Nat /\ task[t].n \in Nat /\ Len(jar[t]) \in Nat
    BY DEF Typed, Call
  <1>5. arrays' \in [Tasks -> SUBSET Seq(Elements)] /\ subscribed' \in BOOLEAN /\ contextMap' \subseteq Contexts
    BY <1>1 DEF Typed
  <1>6. CASE ~ok
    <2>1. Finished(t, "failed", task[t])
      BY <1>1, <1>6, EndsIs DEF CookieReturns, Fails
    <2>2. Mail(t)' /\ Post(t)'
      BY <1>1, <2>1, MailFinished
    <2>3. /\ task'[t].cmd = "cookies" /\ task'[t].i = task[t].i /\ task'[t].length = task[t].length
          /\ task'[t].list = task[t].list /\ task'[t].pc = "failed" /\ task'[t].n = task[t].n /\ inbox' = inbox
      BY <2>1 DEF Finished, Learned
    <2>4. Jar(t)'
      BY <1>1, <1>2, <2>3 DEF Jar, ReplyTo
    <2>5. Shape(t)' /\ Gives(t)' /\ Listing(t)'
      BY <2>3 DEF Shape, Asking, Gives, Listing
    <2>6. task' \in [Tasks -> Call] /\ inbox' \subseteq Command /\ \A u \in Tasks : u # t => task'[u] = task[u]
      BY <2>1 DEF Finished, Learned, Typed
    <2>7. Typed'
      BY <1>1, <1>5, <2>6, TypedStep DEF browser
    <2> QED BY <1>1, <2>2, <2>4, <2>5, <2>6, <2>7 DEF Exchange
  <1>7. CASE ok
    <2> DEFINE call == [task[t] EXCEPT !.i = @ + 1]
    <2>1. /\ call \in Call /\ call.cmd = "cookies" /\ call.n = task[t].n /\ call.i = task[t].i + 1
          /\ call.length = task[t].length /\ call.list = <<>> /\ call.ask = task[t].ask
      <3>1. call \in Call
        BY CallFacts
      <3> QED BY <1>3, <3>1 DEF Call
    <2>2. task[t].pc = "ready" /\ Len(jar[t]) = call.i
      <3>1. task[t].pc = "ready" /\ Truth(t, ok, v)
        BY <1>7 DEF Knows
      <3> QED BY <1>1, <1>7, <2>1, <3>1 DEF Truth
    <2>3. \A m \in inbox : m.task # t
      BY <1>2, <2>2 DEF Jar
    <2>4. IF call.i = call.length THEN Ends(t, "answered", call) ELSE Asks(t, "setCookie", call)
      BY <1>1, <1>7 DEF CookieReturns, Answers
    <2> HIDE DEF call
    <2>5. CASE call.i = call.length
      <3>1. Finished(t, "answered", call)
        BY <2>1, <2>4, <2>5, EndsIs
      <3>2. Mail(t)' /\ Post(t)'
        BY <1>1, <2>1, <3>1, MailFinished
      <3>3. /\ task'[t].cmd = "cookies" /\ task'[t].i = call.i /\ task'[t].length = call.length
            /\ task'[t].list = <<>> /\ task'[t].pc = "answered" /\ inbox' = inbox
        BY <2>1, <3>1 DEF Finished, Learned
      <3>4. Jar(t)'
        BY <1>1, <1>3, <1>4, <2>1, <2>2, <2>3, <2>5, <3>3 DEF Jar
      <3>5. Shape(t)' /\ Gives(t)' /\ Listing(t)'
        BY <3>3 DEF Shape, Asking, Gives, Listing
      <3>6. task' \in [Tasks -> Call] /\ inbox' \subseteq Command /\ \A u \in Tasks : u # t => task'[u] = task[u]
        BY <3>1 DEF Finished, Learned, Typed
      <3>7. Typed'
        BY <1>1, <1>5, <3>6, TypedStep DEF browser
      <3> QED BY <1>1, <3>2, <3>4, <3>5, <3>6, <3>7 DEF Exchange
    <2>6. CASE call.i # call.length
      <3>0. call.i < call.length /\ "setCookie" \in Asked
        BY <1>3, <1>4, <2>1, <2>6 DEF Asked
      <3>1. Waits(t, "setCookie", call)
        BY <2>1, <2>4, <2>6, <3>0, AsksIs
      <3>2. Mail(t)' /\ Post(t)'
        BY <1>1, <2>1, <3>1, MailWaits
      <3>3. /\ task'[t].cmd = "cookies" /\ task'[t].i = call.i /\ task'[t].length = call.length
            /\ task'[t].list = <<>> /\ task'[t].pc = "waits" /\ task'[t].n = task[t].n + 1
            /\ task'[t].ask = "setCookie"
        BY <2>1, <3>1 DEF Waits, Learned
      <3>4. PICK m \in Command : /\ inbox' = inbox \cup {m}
                                 /\ m.task = t /\ m.n = task[t].n + 1 /\ m.i = call.i
        BY <2>1, <3>1 DEF Waits
      <3>5. \A k \in inbox' : k.task = t => k = m
        BY <2>3, <3>4
      <3>6. \A j \in DOMAIN wire' : ReplyTo(wire'[j], t) => wire'[j].n # task'[t].n
        <4>1. \A j \in DOMAIN wire : ReplyTo(wire[j], t) => wire[j].n \in 1 .. task[t].n
          BY DEF Exchange, Post
        <4> QED BY <1>1, <1>4, <3>3, <4>1
      <3>7. Jar(t)'
        <4>1. Len(jar'[t]) \in task'[t].i .. task'[t].i + 1 /\ task'[t].i < task'[t].length
          BY <1>1, <1>4, <2>1, <2>2, <3>0, <3>3
        <4>2. \A k \in inbox' : k.task = t =>
                /\ k.i = task'[t].i /\ k.n = task'[t].n /\ Len(jar'[t]) = task'[t].i
                /\ task'[t].pc \in {"waits", "failed"}
                /\ \A j \in DOMAIN wire' : ReplyTo(wire'[j], t) => wire'[j].n # task'[t].n
          BY <1>1, <2>2, <3>3, <3>4, <3>5, <3>6
        <4>3. \A k, l \in inbox' : k.task = t /\ l.task = t => k = l
          BY <3>5
        <4> QED BY <1>1, <1>3, <3>3, <4>1, <4>2, <4>3 DEF Jar, ReplyTo
      <3>8. Shape(t)' /\ Gives(t)' /\ Listing(t)'
        BY <1>1, <3>3 DEF Shape, Asking, Gives, Listing
      <3>9. task' \in [Tasks -> Call] /\ inbox' \subseteq Command /\ \A u \in Tasks : u # t => task'[u] = task[u]
        BY <3>1 DEF Waits, Learned
      <3>10. Typed'
        BY <1>1, <1>5, <3>9, TypedStep DEF browser
      <3> QED BY <1>1, <3>2, <3>7, <3>8, <3>9, <3>10 DEF Exchange
    <2> QED BY <2>5, <2>6
  <1> QED BY <1>2, <1>6, <1>7

\* A list that holds what it says, of contents A.
Holds(c, A) ==
    /\ Len(c.list) <= c.i
    /\ \A j \in DOMAIN c.list :
          c.list[j].name < c.i /\ \E a \in A : c.list[j].value = At(a, c.list[j].name)
    /\ \A j, k \in DOMAIN c.list : j < k => c.list[j].name < c.list[k].name
    /\ ~c.lost => Len(c.list) = c.i /\ \A j \in DOMAIN c.list : c.list[j].name = j - 1

LEMMA Added ==
    ASSUME NEW s \in Seq(Item), NEW e \in Item
    PROVE  /\ Append(s, e) \in Seq(Item) /\ Len(Append(s, e)) = Len(s) + 1
           /\ DOMAIN Append(s, e) = 1 .. Len(s) + 1 /\ DOMAIN s = 1 .. Len(s) /\ Len(s) \in Nat
           /\ \A j \in DOMAIN Append(s, e) :
                \/ j \in DOMAIN s /\ Append(s, e)[j] = s[j]
                \/ j = Len(s) + 1 /\ Append(s, e)[j] = e
  OBVIOUS

\* One more, of its index.
LEMMA HoldsMore ==
    ASSUME NEW c \in Call, NEW A, Holds(c, A), NEW v \in Told, \E a \in A : v = At(a, c.i),
           NEW d \in Call, d.i = c.i + 1, d.list = Append(c.list, [name |-> c.i, value |-> v]), d.lost = c.lost
    PROVE  Holds(d, A)
  <1> DEFINE e == [name |-> c.i, value |-> v]
  <1>1. c.list \in Seq(Item) /\ c.i \in Nat /\ e \in Item /\ e.name = c.i /\ e.value = v
        /\ \A j \in DOMAIN c.list : c.list[j] \in Item /\ c.list[j].name \in Nat
    <2>1. c.list \in Seq(Item) /\ c.i \in Nat
      BY DEF Call
    <2>2. e \in Item /\ e.name = c.i /\ e.value = v
      BY <2>1 DEF Item
    <2>3. \A j \in DOMAIN c.list : c.list[j] \in Item
      BY <2>1
    <2>4. \A x \in Item : x.name \in Nat
      BY DEF Item
    <2> QED BY <2>1, <2>2, <2>3, <2>4
  <1> HIDE DEF e
  <1>2. d.list = Append(c.list, e)
    BY DEF e
  <1>3. /\ Len(d.list) = Len(c.list) + 1 /\ DOMAIN d.list = 1 .. Len(c.list) + 1
        /\ DOMAIN c.list = 1 .. Len(c.list) /\ Len(c.list) \in Nat
        /\ \A j \in DOMAIN d.list : \/ j \in DOMAIN c.list /\ d.list[j] = c.list[j]
                                    \/ j = Len(c.list) + 1 /\ d.list[j] = e
    BY <1>1, <1>2, Added
  <1>4. Len(d.list) <= d.i
    BY <1>1, <1>3 DEF Holds
  <1>5. ASSUME NEW j \in DOMAIN d.list
        PROVE  d.list[j].name < d.i /\ \E a \in A : d.list[j].value = At(a, d.list[j].name)
    <2>1. CASE j \in DOMAIN c.list /\ d.list[j] = c.list[j]
      BY <1>1, <2>1 DEF Holds
    <2>2. CASE d.list[j] = e
      BY <1>1, <2>2
    <2> QED BY <1>3, <2>1, <2>2
  <1>6. ASSUME NEW j \in DOMAIN d.list, NEW k \in DOMAIN d.list, j < k PROVE d.list[j].name < d.list[k].name
    <2>1. j \in DOMAIN c.list /\ d.list[j] = c.list[j]
      BY <1>3, <1>6
    <2>2. CASE k \in DOMAIN c.list /\ d.list[k] = c.list[k]
      BY <1>6, <2>1, <2>2 DEF Holds
    <2>3. CASE d.list[k] = e
      BY <1>1, <2>1, <2>3 DEF Holds
    <2> QED BY <1>3, <2>2, <2>3
  <1>7. ASSUME ~d.lost PROVE Len(d.list) = d.i /\ \A j \in DOMAIN d.list : d.list[j].name = j - 1
    <2>1. Len(c.list) = c.i /\ \A j \in DOMAIN c.list : c.list[j].name = j - 1
      BY <1>7 DEF Holds
    <2>2. Len(d.list) = d.i
      BY <1>3, <2>1
    <2>3. ASSUME NEW j \in DOMAIN d.list PROVE d.list[j].name = j - 1
      <3>1. CASE j \in DOMAIN c.list /\ d.list[j] = c.list[j]
        BY <2>1, <3>1
      <3>2. CASE j = Len(c.list) + 1 /\ d.list[j] = e
        BY <1>1, <1>3, <2>1, <3>2
      <3> QED BY <1>3, <3>1, <3>2
    <2> QED BY <2>2, <2>3
  <1> QED BY <1>4, <1>5, <1>6, <1>7 DEF Holds

\* One is lost.
LEMMA HoldsLess ==
    ASSUME NEW c \in Call, NEW A, Holds(c, A), NEW d \in Call, d.i = c.i + 1, d.list = c.list, d.lost = TRUE
    PROVE  Holds(d, A)
  <1>1. c.i \in Nat /\ Len(c.list) \in Nat /\ \A j \in DOMAIN c.list : c.list[j].name \in Nat
    <2>1. c.list \in Seq(Item) /\ c.i \in Nat
      BY DEF Call
    <2>2. \A j \in DOMAIN c.list : c.list[j] \in Item
      BY <2>1
    <2>3. \A x \in Item : x.name \in Nat
      BY DEF Item
    <2> QED BY <2>1, <2>2, <2>3
  <1> QED BY <1>1 DEF Holds

\* What the step leaves, if it leaves such a list.
LEMMA ListGoesOn ==
    ASSUME Typed, NEW t \in Tasks, Exchange(t), task[t].cmd = "properties", NEW call \in Call,
           UNCHANGED <<scenario, closed, realmMap, wire, browser, history, subscribed, contextMap>>,
           subscribed => listening, call.n = task[t].n, call.cmd = task[t].cmd, Holds(call, arrays[t]),
           ~call.lost => \E a \in arrays[t] : call.length = Len(a),
           \/ call.i < call.length /\ Waits(t, "element", call)
           \/ call.i = call.length /\ Finished(t, "answered", call)
    PROVE  Exchange(t)' /\ Typed' /\ (subscribed => listening)' /\ \A u \in Tasks : u # t => task'[u] = task[u]
  <1>1. UNCHANGED <<wire, jar, got, arrays, array, listening, began, ended, subscribed, contextMap>>
    BY DEF browser, history
  <1>2. arrays' \in [Tasks -> SUBSET Seq(Elements)] /\ subscribed' \in BOOLEAN /\ contextMap' \subseteq Contexts
    BY <1>1 DEF Typed
  <1>3. /\ task' \in [Tasks -> Call] /\ inbox' \subseteq Command
        /\ \A u \in Tasks : u # t => task'[u] = task[u]
        /\ task'[t].cmd = "properties" /\ task'[t].i = call.i /\ task'[t].length = call.length
        /\ task'[t].list = call.list /\ task'[t].lost = call.lost
        /\ \/ call.i < call.length /\ task'[t].pc = "waits" /\ task'[t].ask = "element"
           \/ call.i = call.length /\ task'[t].pc = "answered"
    BY DEF Waits, Finished, Learned, Typed
  <1>4. Mail(t)' /\ Post(t)'
    <2>1. AsksFor("properties", "element")
      BY DEF AsksFor
    <2> QED BY <1>1, <2>1, MailWaits, MailFinished
  <1>5. Shape(t)' /\ Gives(t)'
    BY <1>3 DEF Shape, Asking, Gives, AsksFor
  <1>6. Jar(t)'
    BY <1>1, <1>3 DEF Exchange, Jar
  <1>7. Listing(t)'
    <2>1. array \in arrays[t] /\ IsFiniteSet(arrays[t])
      BY DEF Exchange, Listing
    <2>2. call.i \in Nat /\ call.length \in Nat
      BY DEF Call
    <2> QED BY <1>1, <1>3, <2>1, <2>2 DEF Listing, Holds, Asking
  <1>8. Typed'
    BY <1>1, <1>2, <1>3, TypedStep DEF browser
  <1> QED BY <1>1, <1>3, <1>4, <1>5, <1>6, <1>7, <1>8 DEF Exchange

LEMMA PropertiesGoOn ==
    ASSUME Typed, NEW t \in Tasks, Exchange(t), task[t] \in Call, task[t].cmd = "properties",
           UNCHANGED <<scenario, closed, realmMap, wire, browser, history>>, subscribed => listening,
           NEW ok, NEW v, Knows(t, ok, v), Returns(t, ok, v)
    PROVE  Exchange(t)' /\ Typed' /\ (subscribed => listening)' /\ \A u \in Tasks : u # t => task'[u] = task[u]
  <1>1. Listing(t) /\ Asking(t) /\ ok \in BOOLEAN /\ v \in Told /\ (ok => Truth(t, ok, v))
    BY DEF Exchange, Knows
  <1>2. task[t].ask \in {"length", "element"} /\ UNCHANGED <<subscribed, contextMap>>
    BY DEF Knows, Exchange, Shape, AsksFor, Returns
  <1>3. task[t].i \in Nat /\ task[t].length \in Nat /\ task[t].list \in Seq(Item) /\ task[t].lost \in BOOLEAN
    BY DEF Call
  <1>4. Holds(task[t], arrays[t])
    BY <1>1 DEF Holds, Listing
  <1>5. "element" \in Asked
    BY DEF Asked
  <1>6. CASE task[t].ask = "length"
    <2>1. LengthReturns(t, ok, v)
      BY <1>6 DEF Returns
    <2>2. task[t].i = 0 /\ task[t].length = 0 /\ task[t].list = <<>> /\ task[t].lost = FALSE
      BY <1>1, <1>3, <1>6 DEF Listing
    <2>3. ok => \E a \in arrays[t] : v = Len(a)
      BY <1>1, <1>6 DEF Truth
    <2>4. ok => v \in Nat
      BY <2>3 DEF Typed
    <2>5. CASE ~ok \/ v = 0
      <3> DEFINE call == [task[t] EXCEPT !.lost = ~ok]
      <3>1. (~ok) \in BOOLEAN
        BY <1>1
      <3>2. /\ call \in Call /\ call.n = task[t].n /\ call.cmd = task[t].cmd /\ call.i = 0
            /\ call.length = 0 /\ call.list = <<>> /\ call.lost = ~ok
        <4>1. call \in Call
          BY <3>1, CallFacts
        <4> QED BY <2>2, <4>1 DEF Call
      <3>3. Ends(t, "answered", call)
        BY <2>1, <2>5 DEF LengthReturns, Answers
      <3> HIDE DEF call
      <3>4. Finished(t, "answered", call)
        BY <3>2, <3>3, EndsIs
      <3>5. Holds(call, arrays[t])
        BY <3>2 DEF Holds
      <3>6. ~call.lost => \E a \in arrays[t] : call.length = Len(a)
        BY <2>3, <2>5, <3>2
      <3> QED BY <1>2, <3>2, <3>4, <3>5, <3>6, ListGoesOn
    <2>6. CASE ok /\ v # 0
      <3> DEFINE call == [task[t] EXCEPT !.length = v]
      <3>1. /\ call \in Call /\ call.n = task[t].n /\ call.cmd = task[t].cmd /\ call.i = 0
            /\ call.length = v /\ call.list = <<>> /\ call.lost = FALSE
        <4>1. call \in Call
          BY <2>4, <2>6, CallFacts
        <4> QED BY <2>2, <4>1 DEF Call
      <3>2. Asks(t, "element", call)
        BY <2>1, <2>6 DEF LengthReturns
      <3> HIDE DEF call
      <3>3. Waits(t, "element", call)
        BY <1>5, <3>1, <3>2, AsksIs
      <3>4. Holds(call, arrays[t])
        BY <3>1 DEF Holds
      <3>5. call.i < call.length /\ \E a \in arrays[t] : call.length = Len(a)
        BY <2>3, <2>4, <2>6, <3>1
      <3> QED BY <1>2, <3>1, <3>3, <3>4, <3>5, ListGoesOn
    <2> QED BY <1>1, <2>5, <2>6
  <1>7. CASE task[t].ask = "element"
    <2>1. ElementReturns(t, ok, v)
      BY <1>7 DEF Returns
    <2>2. task[t].i < task[t].length /\ (~task[t].lost => \E a \in arrays[t] : task[t].length = Len(a))
      BY <1>1, <1>7 DEF Listing
    <2>3. ASSUME NEW call \in Call, call.n = task[t].n, call.cmd = task[t].cmd, call.i = task[t].i + 1,
                 call.length = task[t].length, call.lost = task[t].lost \/ call.lost = TRUE,
                 Holds(call, arrays[t]),
                 IF call.i = call.length THEN Ends(t, "answered", call) ELSE Asks(t, "element", call)
          PROVE  Exchange(t)' /\ Typed' /\ (subscribed => listening)' /\ \A u \in Tasks : u # t => task'[u] = task[u]
      <3>1. ~call.lost => \E a \in arrays[t] : call.length = Len(a)
        BY <2>2, <2>3
      <3>2. \/ call.i < call.length /\ Waits(t, "element", call)
            \/ call.i = call.length /\ Finished(t, "answered", call)
        BY <1>3, <1>5, <2>2, <2>3, AsksIs, EndsIs
      <3> QED BY <1>2, <2>3, <3>1, <3>2, ListGoesOn
    <2>4. CASE ok
      <3> DEFINE call == [task[t] EXCEPT !.i = @ + 1, !.list = Named(t, v)]
      <3>1. \E a \in arrays[t] : v = At(a, task[t].i)
        BY <1>1, <1>7, <2>4 DEF Truth
      <3>2. Named(t, v) = Append(task[t].list, [name |-> task[t].i, value |-> v]) /\ Named(t, v) \in Seq(Item)
        BY <1>1, <1>3 DEF Named, Item
      <3>3. /\ call \in Call /\ call.n = task[t].n /\ call.cmd = task[t].cmd /\ call.i = task[t].i + 1
            /\ call.length = task[t].length /\ call.list = Named(t, v) /\ call.lost = task[t].lost
        <4>1. call \in Call
          BY <3>2, CallFacts
        <4> QED BY <4>1 DEF Call
      <3>4. IF call.i = call.length THEN Ends(t, "answered", call) ELSE Asks(t, "element", call)
        BY <2>1, <2>4 DEF ElementReturns, Answers
      <3> HIDE DEF call
      <3>5. Holds(call, arrays[t])
        BY <1>1, <1>4, <3>1, <3>2, <3>3, HoldsMore
      <3> QED BY <2>3, <3>3, <3>4, <3>5
    <2>5. CASE ~ok
      <3> DEFINE call == [task[t] EXCEPT !.i = @ + 1, !.lost = TRUE]
      <3>1. /\ call \in Call /\ call.n = task[t].n /\ call.cmd = task[t].cmd /\ call.i = task[t].i + 1
            /\ call.length = task[t].length /\ call.list = task[t].list /\ call.lost = TRUE
        <4>1. call \in Call
          BY CallFacts
        <4> QED BY <4>1 DEF Call
      <3>2. IF call.i = call.length THEN Ends(t, "answered", call) ELSE Asks(t, "element", call)
        BY <2>1, <2>5 DEF ElementReturns, Answers
      <3> HIDE DEF call
      <3>3. Holds(call, arrays[t])
        BY <1>4, <3>1, HoldsLess
      <3> QED BY <2>3, <3>1, <3>2, <3>3
    <2> QED BY <1>1, <2>4, <2>5
  <1> QED BY <1>2, <1>6, <1>7

\* The types of the pages and their realms.
PagesTyped == pages' \subseteq Contexts /\ realm' \in [Realms -> RealmRec] /\ listening' \in BOOLEAN

LEMMA RealmUpdates ==
    /\ \A x \in RealmRec, s \in {"none", "live", "gone"} : [x EXCEPT !.state = s] \in RealmRec
    /\ \A c \in AnyContext : [state |-> "live", context |-> c, first |-> FALSE] \in RealmRec
  BY DEF RealmRec

LEMMA EndPageTyped == ASSUME Typed, NEW c \in Contexts, EndPage(c) PROVE PagesTyped
  <1>1. pages' \subseteq Contexts /\ listening' \in BOOLEAN
    BY DEF EndPage, Typed
  <1>2. realm' \in [Realms -> RealmRec]
    BY RealmUpdates DEF EndPage, Typed
  <1> QED BY <1>1, <1>2 DEF PagesTyped

LEMMA NewDocumentTyped == ASSUME Typed, NEW c \in Contexts, NEW q, NewDocument(c, q) PROVE PagesTyped
  <1>1. pages' \subseteq Contexts /\ listening' \in BOOLEAN
    BY DEF NewDocument, Typed
  <1>2. c \in AnyContext
    BY DEF AnyContext
  <1>3. realm' \in [Realms -> RealmRec]
    BY <1>2, RealmUpdates DEF NewDocument, Typed
  <1> QED BY <1>1, <1>3 DEF PagesTyped

LEMMA ServeTyped == ASSUME Typed, NEW m \in inbox, Serve(m) PROVE PagesTyped /\ UNCHANGED <<array, changes>>
  <1>1. CASE UNCHANGED browser
    BY <1>1 DEF browser, Typed, PagesTyped
  <1>2. CASE ServeSession(m)
    <2>1. CASE UNCHANGED browser
      BY <1>1, <2>1
    <2>2. CASE listening' = TRUE /\ UNCHANGED <<pages, realm, array, changes, jar>>
      BY <2>2 DEF Typed, PagesTyped
    <2> QED BY <1>2, <2>1, <2>2 DEF ServeSession
  <1>3. CASE ServeCreate(m)
    <2>1. PICK c \in Contexts, q \in Fresh :
             /\ pages' = pages \cup {c}
             /\ realm' = [realm EXCEPT ![q] = [state |-> "live", context |-> c, first |-> FALSE]]
      BY <1>3 DEF ServeCreate
    <2>2. c \in AnyContext
      BY DEF AnyContext
    <2>3. realm' \in [Realms -> RealmRec]
      BY <2>1, <2>2, RealmUpdates DEF Typed
    <2> QED BY <1>3, <2>1, <2>3 DEF ServeCreate, Typed, PagesTyped
  <1>4. CASE ServePage(m)
    <2>1. CASE m.context \in pages /\ EndPage(m.context)
      <3>1. m.context \in Contexts /\ UNCHANGED <<array, changes>>
        BY <2>1 DEF Typed, EndPage
      <3> QED BY <2>1, <3>1, EndPageTyped
    <2>2. CASE m.context \in pages /\ \E q \in Fresh : NewDocument(m.context, q)
      <3>1. m.context \in Contexts /\ UNCHANGED <<array, changes>>
        BY <2>2 DEF Typed, NewDocument
      <3> QED BY <2>2, <3>1, NewDocumentTyped
    <2> QED BY <1>1, <1>4, <2>1, <2>2 DEF ServePage
  <1>5. CASE ServeCookie(m)
    BY <1>5 DEF ServeCookie, Typed, PagesTyped
  <1>6. CASE ServeArray(m) \/ ServeCall(m)
    BY <1>1, <1>6 DEF ServeArray, ServeCall
  <1> QED BY <1>2, <1>3, <1>4, <1>5, <1>6 DEF Serve

\* The argument of the call arrives.
LEMMA Arrives ==
    ASSUME Typed, NEW m \in inbox, NEW ok, NEW v, Does(m, ok, v), Exchange(m.task), m.ask = "call", ok,
           task' = task
    PROVE  Arrived(m.task)' /\ task[m.task].cmd = "call" /\ got'[m.task] \in Given
  <1>1. m.task \in Tasks
    BY DEF Typed, Command
  <1>2. task[m.task].cmd = "call"
    BY DEF Exchange, Mail, AsksFor
  <1>3. task[m.task].give \in Arguments
    BY <1>2 DEF Exchange, Gives
  <1>4. got'[m.task] = Received(ToBiDiArg(task[m.task].give)) /\ Acceptable(ToBiDiArg(task[m.task].give))
    BY <1>1 DEF Does, Typed
  <1>5. got'[m.task] = IF task[m.task].give = Of("array", <<>>) THEN Of("object", <<>>) ELSE task[m.task].give
    BY <1>3, <1>4, ArgumentArrives
  <1> QED BY <1>2, <1>3, <1>5 DEF Arrived, Given

LEMMA ServesTyped ==
    ASSUME Typed, NEW m \in inbox, Serve(m), Exchange(m.task), subscribed => listening
    PROVE  Typed' /\ (subscribed => listening)'
  <1>1. Serves(m) /\ PagesTyped /\ UNCHANGED <<array, changes>>
    BY ServesAll, ServeTyped
  <1>2. PICK ok \in BOOLEAN, v \in Told : Sends(Reply(m, ok, v)) /\ Does(m, ok, v)
    BY <1>1 DEF Serves
  <1>3. PICK s \in Seq(News) : wire' = wire \o s
    BY <1>2 DEF Sends
  <1>4. wire' \in Seq(News)
    BY <1>3 DEF Typed
  <1>5. UNCHANGED <<scenario, adapter, task, began, ended, arrays>> /\ inbox' = inbox \ {m}
    BY DEF Serve
  <1>6. m.task \in Tasks /\ m.i \in Nat
    BY DEF Typed, Command
  <1>7. jar' \in [Tasks -> Seq(Nat)]
    BY <1>2, <1>6 DEF Does, Typed
  <1>8. got' \in [Tasks -> Given]
    <2>1. CASE m.ask = "call" /\ ok
      <3>1. got'[m.task] \in Given
        BY <1>2, <1>5, <2>1, Arrives
      <3> QED BY <1>2, <1>6, <2>1, <3>1 DEF Does, Typed
    <2>2. CASE ~(m.ask = "call" /\ ok)
      BY <1>2, <2>2 DEF Does, Typed
    <2> QED BY <2>1, <2>2
  <1>9. (subscribed => listening)'
    BY <1>2, <1>5 DEF Does, adapter
  <1> QED BY <1>1, <1>4, <1>5, <1>7, <1>8, <1>9 DEF Typed, PagesTyped, adapter

LEMMA ServesExchange ==
    ASSUME Typed, NEW t \in Tasks, Exchange(t), NEW m \in inbox, Serve(m), Exchange(m.task) PROVE Exchange(t)'
  <1>1. PICK ok \in BOOLEAN, v \in Told : Sends(Reply(m, ok, v)) /\ Does(m, ok, v)
    BY ServesAll DEF Serves
  <1> DEFINE p == Reply(m, ok, v)
  <1>2. PICK s \in Seq(News) : wire' = wire \o s /\ AnswersOnly(s, p)
    BY <1>1 DEF Sends
  <1>3. UNCHANGED <<task, arrays>> /\ inbox' = inbox \ {m}
    BY DEF Serve
  <1>4. m \in Command /\ p.kind = "reply" /\ p.task = m.task /\ p.n = m.n /\ p.ok = ok /\ p.value = v
    BY NewsFacts DEF Typed
  <1>5. m.task \in Tasks /\ m.i \in Nat
    BY <1>4 DEF Command
  <1> HIDE DEF p
  <1>6. \A j \in DOMAIN wire' : wire'[j].kind = "reply" => wire'[j] = p \/ \E k \in DOMAIN wire : wire[k] = wire'[j]
    <2>1. wire \in Seq(News)
      BY DEF Typed
    <2> QED BY <1>2, <2>1, Joined DEF AnswersOnly
  <1>7. UNCHANGED array /\ (listening => listening')
        /\ (m.ask # "setCookie" => jar' = jar) /\ (m.ask # "call" => got' = got)
        /\ jar' \in [Tasks -> Seq(Nat)] /\ (t # m.task => jar'[t] = jar[t] /\ got'[t] = got[t])
    BY <1>1, <1>5 DEF Does, Typed
  <1>8. task[t].cmd = "properties" => array \in arrays[t] /\ IsFiniteSet(arrays[t])
    BY DEF Exchange, Listing
  <1>9. CASE t # m.task
    <2>1. \A j \in DOMAIN wire' : ReplyTo(wire'[j], t) => \E k \in DOMAIN wire : wire[k] = wire'[j]
      BY <1>4, <1>6, <1>9 DEF ReplyTo
    <2> QED BY <1>3, <1>7, <1>8, <1>9, <2>1, ExchangeRest
  <1>10. CASE t = m.task
    <2>1. AsksFor(task[t].cmd, m.ask) /\ m.n \in 1 .. task[t].n
          /\ (m.n = task[t].n /\ task[t].pc = "waits" => m.ask = task[t].ask /\ m.i = task[t].i)
      BY <1>10 DEF Exchange, Mail
    <2>2. Arrived(t) => Arrived(t)'
      <3>1. CASE m.ask = "call" /\ ok
        BY <1>1, <1>3, <1>10, <3>1, Arrives
      <3>2. CASE ~(m.ask = "call" /\ ok)
        BY <1>1, <1>3, <3>2 DEF Does, Arrived
      <3> QED BY <3>1, <3>2
    <2>3. Gives(t)'
      BY <1>3, <2>2 DEF Exchange, Gives
    <2>4. Mail(t)'
      BY <1>3 DEF Exchange, Mail
    <2>5. Listing(t)'
      BY <1>3, <1>7 DEF Exchange, Listing, Asking
    <2>6. m.n = task[t].n /\ task[t].pc = "waits" => TruthThen(t, ok, v)
      <3> SUFFICES ASSUME m.n = task[t].n, task[t].pc = "waits" PROVE TruthThen(t, ok, v)
        OBVIOUS
      <3>1. m.ask = task[t].ask /\ m.i = task[t].i /\ task'[t] = task[t]
        BY <1>3, <2>1
      <3>2. /\ task'[t].ask = "subscribe" /\ ok => listening'
            /\ task'[t].ask = "create" /\ ok => v \in Contexts
        BY <1>1, <3>1 DEF Does
      <3>3. task[t].ask \in {"length", "element"} => array \in arrays'[t]
        <4>1. task[t].ask \in {"length", "element"} => task[t].cmd = "properties"
          BY <2>1, <3>1 DEF AsksFor
        <4> QED BY <1>3, <1>8, <4>1
      <3>4. /\ task'[t].ask = "length" /\ ok => \E a \in arrays'[t] : v = Len(a)
            /\ task'[t].ask = "element" /\ ok => \E a \in arrays'[t] : v = At(a, task'[t].i)
        BY <1>1, <3>1, <3>3 DEF Does
      <3>5. task'[t].ask = "setCookie" => Len(jar'[t]) = task'[t].i + (IF ok THEN 1 ELSE 0)
        <4> SUFFICES ASSUME task[t].ask = "setCookie" PROVE Len(jar'[t]) = task[t].i + (IF ok THEN 1 ELSE 0)
          BY <3>1
        <4>1. task[t].cmd = "cookies"
          BY <2>1, <3>1 DEF AsksFor
        <4>2. Len(jar[t]) = task[t].i
          BY <1>10, <4>1 DEF Exchange, Jar
        <4>3. jar[t] \in Seq(Nat) /\ task[t].i \in Nat
          BY DEF Typed, Call
        <4>4. jar'[t] = IF ok THEN Append(jar[t], m.i) ELSE jar[t]
          BY <1>1, <1>10, <3>1 DEF Does, Typed
        <4> QED BY <1>5, <4>2, <4>3, <4>4
      <3>6. task'[t].ask = "call" /\ ok => v \in Values /\ Arrived(t)'
        BY <1>1, <1>3, <1>10, <3>1, Arrives DEF Does
      <3> QED BY <3>2, <3>4, <3>5, <3>6 DEF TruthThen
    <2>7. CASE task[t].cmd # "cookies"
      <3>1. m.ask # "setCookie"
        BY <2>1, <2>7 DEF AsksFor
      <3>2. jar'[t] = jar[t] /\ task'[t] = task[t] /\ arrays'[t] = arrays[t]
        BY <1>3, <1>7, <3>1
      <3>3. \A b, w : Truth(t, b, w) => TruthThen(t, b, w)
        BY <1>7, <2>2, <3>2, TruthStays
      <3>4. Jar(t)'
        BY <2>7, <3>2 DEF Exchange, Jar
      <3>5. Shape(t)'
        <4>1. task[t].pc = "ready" => TruthThen(t, task'[t].ok, task'[t].reply)
          BY <3>2, <3>3 DEF Exchange, Shape
        <4> QED BY <3>2, <4>1 DEF Exchange, Shape, Asking, TruthThen, Truth
      <3>6. Post(t)'
        <4> SUFFICES ASSUME NEW j \in DOMAIN wire', ReplyTo(wire'[j], t)
                     PROVE  /\ wire'[j].n \in 1 .. task'[t].n
                            /\ wire'[j].n = task'[t].n /\ task'[t].pc = "waits" => TruthThen(t, wire'[j].ok, wire'[j].value)
          BY DEF Post, ReplyTo, Truth, TruthThen
        <4>1. CASE wire'[j] = p
          BY <1>4, <2>1, <2>6, <3>2, <4>1
        <4>2. CASE \E k \in DOMAIN wire : wire[k] = wire'[j]
          BY <3>2, <3>3, <4>2 DEF Exchange, Post, ReplyTo
        <4> QED BY <1>6, <4>1, <4>2 DEF ReplyTo
      <3> QED BY <2>3, <2>4, <2>5, <3>4, <3>5, <3>6 DEF Exchange
    <2>8. CASE task[t].cmd = "cookies"
      <3>1. m.ask = "setCookie" /\ task'[t] = task[t]
        BY <1>3, <2>1, <2>8 DEF AsksFor
      <3>2. /\ m.i = task[t].i /\ m.n = task[t].n /\ Len(jar[t]) = task[t].i
            /\ task[t].pc \in {"waits", "failed"}
            /\ \A j \in DOMAIN wire : ReplyTo(wire[j], t) => wire[j].n # task[t].n
            /\ \A k \in inbox : k.task = t => k = m
            /\ \A j \in DOMAIN jar[t] : jar[t][j] = j - 1
        BY <1>10, <2>8 DEF Exchange, Jar
      <3>3. jar'[t] = IF ok THEN Append(jar[t], m.i) ELSE jar[t]
        BY <1>1, <1>10, <3>1 DEF Does, Typed
      <3>4. jar[t] \in Seq(Nat) /\ task[t].i \in Nat /\ Len(jar[t]) \in Nat
        BY DEF Typed, Call
      <3>5. (\A j \in DOMAIN jar'[t] : jar'[t][j] = j - 1) /\ Len(jar'[t]) \in task[t].i .. task[t].i + 1
        <4>1. CASE ok
          <5>1. /\ jar'[t] = Append(jar[t], m.i) /\ DOMAIN jar'[t] = 1 .. Len(jar[t]) + 1
                /\ Len(jar'[t]) = Len(jar[t]) + 1 /\ jar'[t][Len(jar[t]) + 1] = m.i
                /\ \A j \in 1 .. Len(jar[t]) : jar'[t][j] = jar[t][j] /\ j \in DOMAIN jar[t]
            BY <1>5, <3>3, <3>4, <4>1
          <5> QED BY <3>2, <3>4, <5>1
        <4>2. CASE ~ok
          BY <3>2, <3>3, <3>4, <4>2
        <4> QED BY <4>1, <4>2
      <3>6. \A k \in inbox' : k.task # t
        BY <1>3, <3>2
      <3>7. Jar(t)'
        BY <2>8, <3>1, <3>2, <3>5, <3>6 DEF Exchange, Jar
      <3>8. Shape(t)'
        BY <3>1, <3>2 DEF Exchange, Shape, Asking
      <3>9. Post(t)'
        <4> SUFFICES ASSUME NEW j \in DOMAIN wire', ReplyTo(wire'[j], t)
                     PROVE  /\ wire'[j].n \in 1 .. task'[t].n
                            /\ wire'[j].n = task'[t].n /\ task'[t].pc = "waits" => TruthThen(t, wire'[j].ok, wire'[j].value)
          BY DEF Post, ReplyTo, Truth, TruthThen
        <4>1. CASE wire'[j] = p
          BY <1>4, <2>1, <2>6, <3>1, <4>1
        <4>2. CASE \E k \in DOMAIN wire : wire[k] = wire'[j]
          BY <3>1, <3>2, <4>2 DEF Exchange, Post, ReplyTo
        <4> QED BY <1>6, <4>1, <4>2 DEF ReplyTo
      <3> QED BY <2>3, <2>4, <2>5, <3>7, <3>8, <3>9 DEF Exchange
    <2> QED BY <2>7, <2>8
  <1> QED BY <1>9, <1>10

\* What the adapter knows of a realm is where it is.
LEMMA KnownPlace ==
    ASSUME Typed, \A r \in Realms : Course(r), NEW r \in DOMAIN realmMap
    PROVE  r \in Realms /\ realmMap[r] = realm[r].context /\ realmMap[r] \in Contexts
  <1>1. r \in Realms /\ Over(r) /\ Known(r)
    BY DEF Typed, Course
  <1>2. ended[r] = {}
    BY <1>1 DEF Over
  <1>3. realm[r].context \in AnyContext
    BY <1>1 DEF Typed, RealmRec
  <1> QED BY <1>1, <1>2, <1>3 DEF Known, AnyContext

LEMMA ReaderTyped ==
    ASSUME Typed, \A r \in Realms : Course(r), ReaderStep PROVE Typed' /\ UNCHANGED <<subscribed, listening>>
  <1> DEFINE e == Head(wire)
  <1>1. /\ wire # <<>> /\ wire' = Tail(wire) /\ wire \in Seq(News)
        /\ UNCHANGED <<scenario, subscribed, closed, inbox, listening, pages, realm, array, changes, jar, arrays, got>>
    BY DEF ReaderStep, browser, Typed
  <1>2. e \in News /\ wire' \in Seq(News)
    BY <1>1, Rest
  <1>3. TakeReply(e) \/ TakeContextCreated(e) \/ TakeContextDestroyed(e) \/ TakeRealmCreated(e) \/ TakeRealmDestroyed(e)
    BY DEF ReaderStep
  <1> HIDE DEF e
  <1>4. SUFFICES /\ contextMap' \subseteq Contexts /\ DOMAIN realmMap' \subseteq Realms
                 /\ task' \in [Tasks -> Call]
                 /\ began' \in [Realms -> SUBSET AnyContext] /\ ended' \in [Realms -> SUBSET AnyContext]
    BY <1>1, <1>2 DEF Typed
  <1>5. /\ contextMap \subseteq Contexts /\ DOMAIN realmMap \subseteq Realms /\ task \in [Tasks -> Call]
        /\ began \in [Realms -> SUBSET AnyContext] /\ ended \in [Realms -> SUBSET AnyContext]
    BY DEF Typed
  <1>6. CASE TakeReply(e)
    <2>1. e \in Replies
      BY <1>2, <1>6, NewsFacts DEF TakeReply
    <2>2. e.ok \in BOOLEAN /\ e.value \in Told /\ e.task \in Tasks
      BY <2>1 DEF Replies
    <2>3. \A c \in Call : [c EXCEPT !.pc = "ready", !.ok = e.ok, !.reply = e.value] \in Call
      BY <2>2 DEF Call, PCs
    <2>4. task' \in [Tasks -> Call]
      BY <1>5, <1>6, <2>2, <2>3 DEF TakeReply
    <2> QED BY <1>5, <1>6, <2>4 DEF TakeReply
  <1>7. CASE TakeContextCreated(e)
    <2>1. e \in ContextNews
      BY <1>2, <1>7, NewsFacts DEF TakeContextCreated
    <2> QED BY <1>5, <1>7, <2>1 DEF TakeContextCreated, ContextNews
  <1>8. CASE TakeContextDestroyed(e)
    BY <1>5, <1>8 DEF TakeContextDestroyed
  <1>9. CASE TakeRealmCreated(e)
    <2>1. e \in Began
      BY <1>2, <1>9, NewsFacts DEF TakeRealmCreated
    <2>2. e.realm \in Realms /\ e.context \in AnyContext
      BY <2>1 DEF Began
    <2>3. DOMAIN realmMap' \subseteq Realms
      BY <1>5, <1>9, <2>2 DEF TakeRealmCreated
    <2>4. began' \in [Realms -> SUBSET AnyContext]
      BY <1>5, <1>9, <2>2 DEF TakeRealmCreated
    <2> QED BY <1>5, <1>9, <2>3, <2>4 DEF TakeRealmCreated
  <1>10. CASE TakeRealmDestroyed(e)
    <2>1. e \in Gone
      BY <1>2, <1>10, NewsFacts DEF TakeRealmDestroyed
    <2>2. e.realm \in Realms
      BY <2>1 DEF Gone
    <2>3. ContextOf(e.realm) \in AnyContext
      BY KnownPlace DEF ContextOf, AnyContext
    <2>4. DOMAIN realmMap' \subseteq Realms
      BY <1>5, <1>10 DEF TakeRealmDestroyed
    <2>5. ended' \in [Realms -> SUBSET AnyContext]
      BY <1>5, <1>10, <2>2, <2>3 DEF TakeRealmDestroyed
    <2> QED BY <1>5, <1>10, <2>4, <2>5 DEF TakeRealmDestroyed
  <1> QED BY <1>3, <1>6, <1>7, <1>8, <1>9, <1>10

\* What the page does to the array, and what else happens.
LEMMA ChangesTyped ==
    ASSUME Typed, PageChanges
    PROVE  /\ PagesTyped /\ listening' = listening /\ jar' = jar
           /\ array' \in Seq(Elements) /\ Len(array') <= MaxLength /\ changes' \in Nat
           /\ arrays' \in [Tasks -> SUBSET Seq(Elements)]
           /\ \A t \in Tasks : task[t].pc # "idle" => arrays[t] \subseteq arrays'[t] /\
                 (array \in arrays[t] /\ IsFiniteSet(arrays[t]) => array' \in arrays'[t] /\ IsFiniteSet(arrays'[t]))
  <1>1. CASE UNCHANGED <<array, arrays, changes, listening, jar>> /\ PagesTyped
    BY <1>1 DEF Typed
  <1>2. CASE /\ changes' = changes + 1
             /\ \/ \E e \in Elements : Len(array) < MaxLength /\ array' = Append(array, e)
                \/ array # <<>> /\ array' = Tail(array)
             /\ arrays' = [t \in Tasks |-> IF task[t].pc = "idle" THEN {} ELSE arrays[t] \cup {array'}]
             /\ UNCHANGED <<listening, pages, realm, jar, wire>>
    <2>1. array \in Seq(Elements) /\ Len(array) <= MaxLength /\ MaxLength \in Nat /\ changes \in Nat
      BY BiDiAssumption DEF Typed
    <2>2. array' \in Seq(Elements) /\ Len(array') <= MaxLength
      <3>1. ASSUME NEW e \in Elements, Len(array) < MaxLength, array' = Append(array, e)
            PROVE  array' \in Seq(Elements) /\ Len(array') <= MaxLength
        BY <2>1, <3>1
      <3>2. CASE array # <<>> /\ array' = Tail(array)
        <4>1. Len(array) > 0 /\ Len(Tail(array)) = Len(array) - 1 /\ Tail(array) \in Seq(Elements)
          BY <2>1, <3>2
        <4> QED BY <2>1, <3>2, <4>1
      <3> QED BY <1>2, <3>1, <3>2
    <2>3. PagesTyped /\ changes' \in Nat
      BY <1>2, <2>1 DEF PagesTyped, Typed
    <2>4. arrays' \in [Tasks -> SUBSET Seq(Elements)]
      BY <1>2, <2>2 DEF Typed
    <2>5. ASSUME NEW t \in Tasks, task[t].pc # "idle"
          PROVE  arrays[t] \subseteq arrays'[t] /\ array' \in arrays'[t]
                 /\ (IsFiniteSet(arrays[t]) => IsFiniteSet(arrays'[t]))
      <3>1. arrays'[t] = arrays[t] \cup {array'}
        BY <1>2, <2>5
      <3> QED BY <3>1, FS_AddElement
    <2> QED BY <1>2, <2>2, <2>3, <2>4, <2>5
  <1>3. ASSUME NEW c \in pages, EndPage(c), UNCHANGED arrays
        PROVE  UNCHANGED <<array, arrays, changes, listening, jar>> /\ PagesTyped
    <2>1. c \in Contexts
      BY DEF Typed
    <2> QED BY <1>3, <2>1, EndPageTyped DEF EndPage
  <1>4. ASSUME NEW c \in pages, NEW q \in Fresh, NewDocument(c, q), UNCHANGED arrays
        PROVE  UNCHANGED <<array, arrays, changes, listening, jar>> /\ PagesTyped
    <2>1. c \in Contexts
      BY DEF Typed
    <2> QED BY <1>4, <2>1, NewDocumentTyped DEF NewDocument
  <1>5. ASSUME NEW q \in Realms,
               realm' = [realm EXCEPT ![q].state = "live"] \/ realm' = [realm EXCEPT ![q].state = "gone"],
               UNCHANGED <<listening, pages, array, changes, jar, arrays>>
        PROVE  UNCHANGED <<array, arrays, changes, listening, jar>> /\ PagesTyped
    <2>1. realm' \in [Realms -> RealmRec]
      <3>1. realm \in [Realms -> RealmRec] /\ \A x \in {"live", "gone"} : [realm[q] EXCEPT !.state = x] \in RealmRec
        BY RealmUpdates DEF Typed
      <3>2. CASE realm' = [realm EXCEPT ![q].state = "live"]
        BY <3>1, <3>2
      <3>3. CASE realm' = [realm EXCEPT ![q].state = "gone"]
        BY <3>1, <3>3
      <3> QED BY <1>5, <3>2, <3>3
    <2> QED BY <1>5, <2>1 DEF PagesTyped, Typed
  <1>6. CASE \E c \in pages :
          /\ \/ EndPage(c)
             \/ \E r \in Fresh : NewDocument(c, r)
          /\ UNCHANGED arrays
    <2>1. UNCHANGED <<array, arrays, changes, listening, jar>> /\ PagesTyped
      BY <1>3, <1>4, <1>6
    <2> QED BY <1>1, <2>1
  <1>7. CASE \E r \in Realms :
          /\ realm' = [realm EXCEPT ![r].state = "live"] \/ realm' = [realm EXCEPT ![r].state = "gone"]
          /\ UNCHANGED <<listening, pages, array, changes, jar, arrays>>
    <2>1. UNCHANGED <<array, arrays, changes, listening, jar>> /\ PagesTyped
      BY <1>5, <1>7
    <2> QED BY <1>1, <2>1
  <1> QED BY <1>2, <1>6, <1>7 DEF PageChanges

LEMMA BrowserKeeps ==
    ASSUME Typed, \A t \in Tasks : Exchange(t), BrowserStep
    PROVE  Typed' /\ UNCHANGED <<subscribed, listening>> /\ \A t \in Tasks : Exchange(t)'
  <1>1. PageChanges /\ UNCHANGED <<scenario, adapter, task, inbox, began, ended, got>>
    BY DEF BrowserStep
  <1>2. /\ PagesTyped /\ listening' = listening /\ jar' = jar
        /\ array' \in Seq(Elements) /\ Len(array') <= MaxLength /\ changes' \in Nat
        /\ arrays' \in [Tasks -> SUBSET Seq(Elements)]
        /\ \A t \in Tasks : task[t].pc # "idle" => arrays[t] \subseteq arrays'[t] /\
              (array \in arrays[t] /\ IsFiniteSet(arrays[t]) => array' \in arrays'[t] /\ IsFiniteSet(arrays'[t]))
    BY <1>1, ChangesTyped
  <1>3. PICK s \in Seq(News) : wire' = wire \o s /\ Quiet(s)
    BY <1>1, HappensSo DEF Happened
  <1>4. wire' \in Seq(News)
    BY <1>3 DEF Typed
  <1>5. Typed'
    BY <1>1, <1>2, <1>4 DEF Typed, PagesTyped, adapter
  <1>6. \A j \in DOMAIN wire' : wire'[j].kind = "reply" => \E k \in DOMAIN wire : wire[k] = wire'[j]
    <2>1. wire \in Seq(News)
      BY DEF Typed
    <2> QED BY <1>3, <2>1, Joined DEF Quiet
  <1>7. ASSUME NEW t \in Tasks PROVE Exchange(t)'
    <2>1. task[t].cmd = "properties" => task[t].pc # "idle" /\ array \in arrays[t] /\ IsFiniteSet(arrays[t])
      BY DEF Exchange, Shape, Idle, Listing
    <2>2. \A j \in DOMAIN wire' : ReplyTo(wire'[j], t) => \E k \in DOMAIN wire : wire[k] = wire'[j]
      BY <1>6 DEF ReplyTo
    <2> QED BY <1>1, <1>2, <2>1, <2>2, ExchangeRest
  <1> QED BY <1>1, <1>2, <1>5, <1>7 DEF adapter

------------------------------------------------------------------------------
(* The invariant.                                                            *)

Inv ==
    /\ Typed /\ (subscribed => listening)
    /\ \A r \in Realms : Course(r)
    /\ \A t \in Tasks : Exchange(t)

LEMMA InitTyped == ASSUME Init PROVE Typed /\ (subscribed => listening)
  <1>1. PICK home \in [scenario.open -> Realms], known \in SUBSET Realms, of \in [Realms -> AnyContext] :
             /\ \A q \in Realms : q \in Range(home) => of[q] \in scenario.open
             /\ known = IF scenario.enabled THEN Range(home) ELSE {}
             /\ realm = [q \in Realms |-> IF q \in Range(home)
                                          THEN [state |-> "live", context |-> of[q], first |-> TRUE]
                                          ELSE [state |-> "none", context |-> NoContext, first |-> FALSE]]
             /\ realmMap = [q \in known |-> of[q]]
             /\ began = [q \in Realms |-> IF q \in known THEN {of[q]} ELSE {}]
    BY Home
  <1>2. scenario \in Scenarios
    BY DEF Init
  <1>3. scenario.open \subseteq Contexts /\ scenario.enabled \in BOOLEAN /\ MaxLength \in Nat
    BY <1>2, BiDiAssumption
  <1>4. /\ subscribed \in BOOLEAN /\ closed \in BOOLEAN /\ listening \in BOOLEAN /\ (subscribed => listening)
        /\ contextMap \subseteq Contexts /\ pages \subseteq Contexts /\ changes \in Nat
    BY <1>3 DEF Init
  <1>5. realm \in [Realms -> RealmRec]
    <2>1. \A q \in Realms : [state |-> "live", context |-> of[q], first |-> TRUE] \in RealmRec
      BY <1>1 DEF RealmRec
    <2>2. [state |-> "none", context |-> NoContext, first |-> FALSE] \in RealmRec
      BY DEF RealmRec, AnyContext
    <2> QED BY <1>1, <2>1, <2>2
  <1>6. DOMAIN realmMap \subseteq Realms
    BY <1>1
  <1>7. began \in [Realms -> SUBSET AnyContext] /\ ended \in [Realms -> SUBSET AnyContext]
    <2>1. began \in [Realms -> SUBSET AnyContext]
      BY <1>1
    <2>2. ended \in [Realms -> SUBSET AnyContext]
      BY DEF Init
    <2> QED BY <2>1, <2>2
  <1>8. array \in Seq(Elements) /\ Len(array) <= MaxLength
    <2>1. array \in BoundedSeq(Elements, MaxLength) \/ array = <<>>
      BY DEF Init
    <2>2. CASE array = <<>>
      BY <1>3, <2>2
    <2>3. CASE array \in BoundedSeq(Elements, MaxLength)
      <3>1. PICK n \in 0 .. MaxLength : array \in [1 .. n -> Elements]
        BY <2>3 DEF BoundedSeq, SeqOf
      <3>2. n \in Nat /\ n <= MaxLength
        BY <1>3
      <3> QED BY <3>1, <3>2, Mapped
    <2> QED BY <2>1, <2>2, <2>3
  <1>9. Idle \in Call
    <2>1. Null \in Given /\ Null \in Told /\ Null \in Result /\ NoContext \in AnyContext
      BY ToldFacts DEF Given, Result, AnyContext
    <2> QED BY <2>1 DEF Idle, Call, PCs, Cmds, Asked
  <1>10. task \in [Tasks -> Call] /\ inbox \subseteq Command
    BY <1>9 DEF Init
  <1>11. wire \in Seq(News) /\ jar \in [Tasks -> Seq(Nat)] /\ arrays \in [Tasks -> SUBSET Seq(Elements)]
    BY DEF Init
  <1>12. got \in [Tasks -> Given]
    BY DEF Init, Given
  <1> QED BY <1>2, <1>4, <1>5, <1>6, <1>7, <1>8, <1>10, <1>11, <1>12 DEF Typed

LEMMA InitExchange == ASSUME Init, NEW t \in Tasks PROVE Exchange(t)
  <1>1. task[t] = Idle /\ inbox = {} /\ wire = <<>> /\ jar[t] = <<>>
    BY DEF Init
  <1>2. /\ Idle.pc = "idle" /\ Idle.cmd = "none" /\ Idle.i = 0 /\ Idle.length = 0 /\ Idle.list = <<>>
    BY DEF Idle
  <1>3. DOMAIN wire = {}
    BY <1>1, None
  <1> QED BY <1>1, <1>2, <1>3 DEF Exchange, Shape, Gives, Mail, Post, Jar, Listing, Asking

LEMMA InvInit == Init => Inv
  BY InitTyped, InitExchange, CourseInit DEF Inv

LEMMA HandlerKeeps ==
    ASSUME Inv, NEW t \in Tasks, HandlerStep(t)
    PROVE  Typed' /\ (subscribed => listening)' /\ \A u \in Tasks : Exchange(u)'
  <1>1. /\ UNCHANGED <<scenario, closed, realmMap, wire, browser, history>>
        /\ task[t] \in Call /\ AsksFor(task[t].cmd, task[t].ask)
        /\ Typed /\ Exchange(t) /\ (subscribed => listening)
    BY HandlerIs DEF Inv
  <1>2. PICK ok, v : Knows(t, ok, v) /\ Returns(t, ok, v)
    BY HandlerIs DEF Inv
  <1>3. Exchange(t)' /\ Typed' /\ (subscribed => listening)' /\ \A u \in Tasks : u # t => task'[u] = task[u]
    <2>1. CASE task[t].cmd = "cookies"
      BY <1>1, <1>2, <2>1, CookieGoesOn
    <2>2. CASE task[t].cmd = "properties"
      BY <1>1, <1>2, <2>2, PropertiesGoOn
    <2>3. CASE task[t].cmd \notin {"cookies", "properties"}
      BY <1>1, <1>2, <2>3, PlainReturns
    <2> QED BY <2>1, <2>2, <2>3
  <1>4. \A m \in inbox' : m.task # t => m \in inbox
    <2>1. \A ask, call : Asks(t, ask, call) => \A m \in inbox' : m.task # t => m \in inbox
      BY DEF Asks
    <2>2. \A pc, call : Ends(t, pc, call) => inbox' = inbox
      BY DEF Ends
    <2>3. (\E ask, call : Asks(t, ask, call)) \/ (\E pc, call : Ends(t, pc, call))
      BY <1>2 DEF Returns, EnableReturns, NewPageReturns, OneReturns, CookieReturns, LengthReturns,
                  ElementReturns, CallReturns, Answers, Fails
    <2> QED BY <2>1, <2>2, <2>3
  <1>5. ASSUME NEW u \in Tasks, u # t PROVE Exchange(u)'
    <2>1. Exchange(u) /\ task'[u] = task[u]
      BY <1>3, <1>5 DEF Inv
    <2>2. UNCHANGED <<wire, listening, jar, got, arrays, array>>
      BY <1>1 DEF browser, history
    <2>3. task[u].cmd = "properties" => array \in arrays[u] /\ IsFiniteSet(arrays[u])
      BY <2>1 DEF Exchange, Listing
    <2> QED BY <1>1, <1>4, <1>5, <2>1, <2>2, <2>3, ExchangeRest
  <1> QED BY <1>3, <1>5

LEMMA CallsKeep ==
    ASSUME Inv, NEW t \in Tasks, Calls(t)
    PROVE  Typed' /\ (subscribed => listening)' /\ \A u \in Tasks : Exchange(u)'
  <1>1. /\ UNCHANGED <<scenario, adapter, wire, browser, began, ended, got>> /\ task[t] = Idle
        /\ Typed /\ Exchange(t) /\ (subscribed => listening)
    BY CallsIs DEF Inv
  <1>2. Exchange(t)' /\ Typed'
    BY <1>1, ExchangeCalls
  <1>3. UNCHANGED <<wire, listening, jar, got, array, subscribed>>
    BY <1>1 DEF browser, adapter
  <1>4. /\ \A m \in inbox' : m.task # t => m \in inbox
        /\ \A u \in Tasks : u # t => task'[u] = task[u] /\ arrays'[u] = arrays[u]
    <2>1. \/ \E ask, call : Starts(t, ask, call)
          \/ Finished(t, "answered", [task[t] EXCEPT !.cmd = "enable"]) /\ arrays' = arrays
      BY <1>1, CallsIs
    <2>2. CASE Finished(t, "answered", [task[t] EXCEPT !.cmd = "enable"]) /\ arrays' = arrays
      BY <2>2 DEF Finished, Learned
    <2>3. ASSUME NEW ask, NEW call, Starts(t, ask, call)
          PROVE  /\ \A m \in inbox' : m.task # t => m \in inbox
                 /\ \A u \in Tasks : u # t => task'[u] = task[u] /\ arrays'[u] = arrays[u]
      <3>1. Waits(t, ask, call)
        BY <1>1, <2>3, AsksIs DEF Starts
      <3>2. \A u \in Tasks : u # t => arrays'[u] = arrays[u]
        BY <1>1, <2>3 DEF Starts, Typed
      <3> QED BY <3>1, <3>2 DEF Waits, Learned
    <2> QED BY <2>1, <2>2, <2>3
  <1>5. ASSUME NEW u \in Tasks, u # t PROVE Exchange(u)'
    <2>1. Exchange(u) /\ task'[u] = task[u] /\ arrays'[u] = arrays[u]
      BY <1>4, <1>5 DEF Inv
    <2>2. task[u].cmd = "properties" => array \in arrays[u] /\ IsFiniteSet(arrays[u])
      BY <2>1 DEF Exchange, Listing
    <2> QED BY <1>1, <1>3, <1>4, <1>5, <2>1, <2>2, ExchangeRest
  <1> QED BY <1>1, <1>2, <1>3, <1>5

LEMMA InvNext == Inv /\ [Next]_vars => Inv'
  <1> SUFFICES ASSUME Inv, [Next]_vars PROVE Inv'
    OBVIOUS
  <1>1. Typed /\ (subscribed => listening) /\ (\A r \in Realms : Course(r)) /\ \A t \in Tasks : Exchange(t)
    BY DEF Inv
  <1>2. \A r \in Realms : Course(r)'
    BY <1>1, CourseNext
  <1> DEFINE Kept == Typed' /\ (subscribed => listening)' /\ \A t \in Tasks : Exchange(t)'
  <1>3. ASSUME NEW t \in Tasks, Calls(t) PROVE Kept
    BY <1>3, CallsKeep
  <1>4. ASSUME NEW t \in Tasks, HandlerStep(t) PROVE Kept
    BY <1>4, HandlerKeeps
  <1>5. ASSUME ReaderStep PROVE Kept
    BY <1>1, <1>5, ReaderTyped, ExchangeReads
  <1>6. ASSUME NEW m \in inbox, Serve(m) PROVE Kept
    <2>1. Exchange(m.task)
      BY <1>1 DEF Typed, Command
    <2> QED BY <1>1, <1>6, <2>1, ServesTyped, ServesExchange
  <1>7. ASSUME BrowserStep PROVE Kept
    BY <1>1, <1>7, BrowserKeeps
  <1>8. ASSUME UNCHANGED <<scenario, subscribed, contextMap, realmMap, task, inbox, wire, browser, history>>,
               closed' \in BOOLEAN
        PROVE  Kept
    <2>1. UNCHANGED <<listening, pages, realm, array, changes, jar, began, ended, arrays, got>>
      BY <1>8 DEF browser, history
    <2>2. Typed' /\ (subscribed => listening)'
      BY <1>1, <1>8, <2>1 DEF Typed
    <2>3. ASSUME NEW t \in Tasks PROVE Exchange(t)'
      <3>1. task[t].cmd = "properties" => array \in arrays[t] /\ IsFiniteSet(arrays[t])
        BY <1>1 DEF Exchange, Listing
      <3> QED BY <1>1, <1>8, <2>1, <3>1, ExchangeRest
    <2> QED BY <2>2, <2>3
  <1>9. ASSUME ConnectionEnds PROVE Kept
    BY <1>8, <1>9 DEF ConnectionEnds
  <1>10. ASSUME UNCHANGED vars PROVE Kept
    BY <1>1, <1>8, <1>10 DEF vars, adapter, Typed
  <1>11. Kept
    BY <1>3, <1>4, <1>5, <1>6, <1>7, <1>9, <1>10 DEF Next
  <1> QED BY <1>2, <1>11 DEF Inv

LEMMA InvHolds == Spec => []Inv
  BY InvInit, InvNext, PTL DEF Spec

------------------------------------------------------------------------------
(* What it says.                                                             *)

LEMMA InvTypeOK == Inv => TypeOK
  <1> SUFFICES ASSUME Inv PROVE TypeOK
    OBVIOUS
  <1>1. Typed /\ (subscribed => listening) /\ (\A r \in Realms : Course(r)) /\ \A t \in Tasks : Exchange(t)
    BY DEF Inv
  <1>2. Range(realmMap) \subseteq Contexts
    BY <1>1, KnownPlace DEF Range
  <1>3. ASSUME NEW t \in Tasks
        PROVE  /\ task[t].pc \in {"idle", "waits", "ready", "answered", "failed"}
               /\ task[t].i <= task[t].length /\ Len(task[t].list) <= task[t].i
               /\ task[t].pc = "answered" => task[t].i = task[t].length \/ task[t].list = <<>>
    <2>1. task[t] \in Call
      BY <1>1 DEF Typed
    <2>2. task[t].i \in Nat /\ task[t].length \in Nat /\ task[t].pc \in PCs
      BY <2>1 DEF Call
    <2>3. Shape(t) /\ Jar(t) /\ Listing(t)
      BY <1>1 DEF Exchange
    <2>4. CASE task[t].cmd = "cookies"
      BY <2>2, <2>3, <2>4 DEF Jar, PCs
    <2>5. CASE task[t].cmd = "properties"
      BY <2>2, <2>3, <2>5, <1>1 DEF Listing, PCs, Asking, Shape, AsksFor
    <2>6. CASE task[t].cmd \notin {"cookies", "properties"}
      BY <2>2, <2>3, <2>6 DEF Shape, PCs
    <2> QED BY <2>4, <2>5, <2>6
  <1>4. ASSUME NEW m \in inbox PROVE m.n <= task[m.task].n
    <2>1. m.task \in Tasks
      BY <1>1 DEF Typed, Command
    <2>2. m.n \in 1 .. task[m.task].n /\ task[m.task].n \in Nat
      BY <1>1, <2>1 DEF Exchange, Mail, Typed, Call
    <2> QED BY <2>2
  <1> QED BY <1>1, <1>2, <1>3, <1>4 DEF TypeOK, Typed

LEMMA InvAnswers == Inv => AnswersTrue
  <1> SUFFICES ASSUME Inv, NEW t \in Tasks
               PROVE  /\ task[t].cmd = "properties" /\ task[t].pc = "answered" => ListTrue(t)
                      /\ task[t].cmd = "cookies" => CookiesTrue(t)
    BY DEF AnswersTrue
  <1>1. Typed /\ Jar(t) /\ Listing(t) /\ task[t] \in Call
    BY DEF Inv, Exchange, Typed
  <1>2. task[t].cmd = "cookies" => CookiesTrue(t)
    BY <1>1 DEF Jar, CookiesTrue
  <1>3. ASSUME task[t].cmd = "properties", task[t].pc = "answered" PROVE ListTrue(t)
    <2> DEFINE list == task[t].list
    <2>1. list \in Seq(Item) /\ task[t].i \in Nat /\ task[t].length \in Nat
      BY <1>1 DEF Call
    <2>2. /\ IsFiniteSet(arrays[t]) /\ task[t].i = task[t].length
          /\ \A j \in DOMAIN list : /\ list[j].name < task[t].i
                                    /\ \E a \in arrays[t] : list[j].value = At(a, list[j].name)
          /\ \A j, k \in DOMAIN list : j < k => list[j].name < list[k].name
      BY <1>1, <1>3 DEF Listing, Asking
    <2>3. ~task[t].lost => /\ Len(list) = task[t].length
                           /\ \A j \in DOMAIN list : list[j].name = j - 1
                           /\ \E a \in arrays[t] : task[t].length = Len(a)
      BY <1>1, <1>3 DEF Listing, Asking
    <2>4. ASSUME ~task[t].lost, Cardinality(arrays[t]) = 1
          PROVE  [j \in DOMAIN list |-> list[j].value] \in arrays[t]
      <3>1. PICK a : arrays[t] = {a}
        BY <2>2, <2>4, FS_Singleton
      <3>2. a \in Seq(Elements)
        BY <1>1, <3>1 DEF Typed
      <3>3. Len(list) = Len(a)
        BY <2>3, <2>4, <3>1
      <3>4. DOMAIN list = 1 .. Len(a) /\ DOMAIN a = 1 .. Len(a)
        BY <2>1, <3>2, <3>3
      <3> HIDE DEF list
      <3>5. ASSUME NEW j \in DOMAIN list PROVE list[j].value = a[j]
        <4>1. list[j].name = j - 1 /\ list[j].value = At(a, j - 1)
          BY <2>2, <2>3, <2>4, <3>1
        <4>2. j \in 1 .. Len(a) /\ Len(a) \in Nat
          BY <3>2, <3>4
        <4>3. j - 1 < Len(a) /\ (j - 1) + 1 = j
          BY <4>2
        <4> QED BY <4>1, <4>3 DEF At
      <3>6. [j \in DOMAIN list |-> list[j].value] = a
        BY <3>2, <3>4, <3>5
      <3> QED BY <3>1, <3>6
    <2>5. \A j \in DOMAIN list :
              \E a \in arrays[t] : IF list[j].name < Len(a) THEN list[j].value = a[list[j].name + 1]
                                   ELSE list[j].value = Undefined
      BY <2>2 DEF At
    <2> QED BY <2>2, <2>4, <2>5 DEF ListTrue
  <1> QED BY <1>2, <1>3

LEMMA InvValues == Inv => ValuesSurvive
  <1> SUFFICES ASSUME Inv, NEW t \in Tasks
               PROVE  /\ task[t].cmd = "call" /\ task[t].pc = "ready" /\ task[t].ok /\ IsData[task[t].reply] =>
                            TranslateScriptResult(task[t].reply) = Data[task[t].reply]
                      /\ task[t].cmd = "call" /\ task[t].pc = "answered" => Arrived(t)
    BY DEF ValuesSurvive, Arrived
  <1>1. Shape(t) /\ Gives(t)
    BY DEF Inv, Exchange
  <1>2. ASSUME task[t].cmd = "call", task[t].pc = "ready", task[t].ok PROVE task[t].reply \in Values
    BY <1>1, <1>2 DEF Shape, Asking, AsksFor, Truth
  <1> QED BY <1>1, <1>2, ResultIsData DEF Gives

\* The state of the adapter, of its calls and of the connection keeps its types: a call is never
\* past the end of its list, and no command names a call that did not send it.
THEOREM TypeCorrect == Spec => []TypeOK
  BY InvHolds, InvTypeOK, PTL

\* onRealmCreated and onRealmDestroyed: whatever pages are opened, closed and navigated, and
\* whenever the adapter subscribes, the end of a realm reaches the session its beginning reached,
\* though the event does not name it, and no realm that is gone is remembered.
THEOREM RealmsEnd == Spec => []RealmEndsWhereItBegan
  <1>1. Inv => RealmEndsWhereItBegan
    BY CourseMeans DEF Inv
  <1> QED BY InvHolds, <1>1, PTL

\* handleSetCookies and handleRuntimeGetObjectProperties: whichever of their commands fail or are
\* late, and whatever the page does in between, the cookies set are the first of the list, and the
\* elements listed were in the array, at their index, in the course of the call.
THEOREM AnswersTold == Spec => []AnswersTrue
  BY InvHolds, InvAnswers, PTL

\* handleRuntimeCallFunction: a value that JSON holds, with lists of up to two values nested to
\* any depth, comes back as it was, and an argument that the browser takes is the one the client
\* gave.
THEOREM ValuesReturn == Spec => []ValuesSurvive
  BY InvHolds, InvValues, PTL
=============================================================================
