---------------------------- MODULE Compiler_proofs ---------------------------
(***************************************************************************)
(* Proofs about Compiler, for every set of names, expressions and          *)
(* parameter lists, every bound and every sequence of programs.            *)
(***************************************************************************)
EXTENDS Compiler, TLAPS, SequenceTheorems, FiniteSetTheorems

(* A sequence of whatever it holds.                                        *)
IsSeq(s) == \E S : s \in Seq(S)

LEMMA SeqFacts ==
  ASSUME NEW s, IsSeq(s)
  PROVE  /\ Len(s) \in Nat /\ DOMAIN s = 1 .. Len(s)
         /\ s = <<>> <=> Len(s) = 0
PROOF
  <1>1. PICK S : s \in Seq(S)
    BY DEF IsSeq
  <1> QED BY <1>1, EmptySeq

LEMMA NoneIsSeq == IsSeq(<<>>) /\ Len(<<>>) = 0
PROOF
  <1>1. <<>> \in Seq({})
    OBVIOUS
  <1> QED BY <1>1 DEF IsSeq

LEMMA OneIsSeq ==
  ASSUME NEW x
  PROVE  IsSeq(<<x>>) /\ Len(<<x>>) = 1 /\ <<x>>[1] = x
PROOF
  <1>1. <<x>> \in Seq({x})
    OBVIOUS
  <1> QED BY <1>1 DEF IsSeq

LEMMA AppendFacts ==
  ASSUME NEW s, IsSeq(s), NEW x
  PROVE  /\ IsSeq(Append(s, x)) /\ Len(Append(s, x)) = Len(s) + 1
         /\ Append(s, x)[Len(s) + 1] = x
         /\ \A i \in 1 .. Len(s) : Append(s, x)[i] = s[i]
PROOF
  <1>1. PICK S : s \in Seq(S)
    BY DEF IsSeq
  <1>2. s \in Seq(S \cup {x})
    BY <1>1, SeqMonotonic
  <1>3. Append(s, x) \in Seq(S \cup {x})
    BY <1>2
  <1> QED BY <1>2, <1>3 DEF IsSeq

LEMMA ButBackFacts ==
  ASSUME NEW s, IsSeq(s), Len(s) > 0
  PROVE  /\ IsSeq(ButBack(s)) /\ Len(ButBack(s)) = Len(s) - 1
         /\ \A i \in 1 .. Len(s) - 1 : ButBack(s)[i] = s[i]
PROOF
  <1>1. PICK S : s \in Seq(S)
    BY DEF IsSeq
  <1>2. /\ ButBack(s) \in Seq(S) /\ Len(ButBack(s)) = Len(s) - 1
        /\ \A i \in 1 .. Len(s) - 1 : ButBack(s)[i] = s[i]
    <2> DEFINE n == Len(s) - 1
    <2>1. n \in Int /\ 1 \in Int /\ n >= 0
      BY <1>1
    <2>2. \A i \in 1 .. n : s[i] \in S
      BY <1>1
    <2> HIDE DEF n
    <2>3. /\ SubSeq(s, 1, n) \in Seq(S)
          /\ Len(SubSeq(s, 1, n)) = IF 1 <= n THEN n - 1 + 1 ELSE 0
          /\ \A i \in 1 .. n - 1 + 1 : SubSeq(s, 1, n)[i] = s[1 + i - 1]
      BY <2>1, <2>2, SubSeqProperties, SMTT(30)
    <2>4. /\ Len(SubSeq(s, 1, n)) = n
          /\ \A i \in 1 .. n : SubSeq(s, 1, n)[i] = s[i]
      BY <2>1, <2>3
    <2> QED BY <2>3, <2>4 DEF ButBack, n
  <1> QED BY <1>2 DEF IsSeq

LEMMA ReplaceFacts ==
  ASSUME NEW s, IsSeq(s), Len(s) > 0, NEW x
  PROVE  /\ IsSeq(Replace(s, x)) /\ Len(Replace(s, x)) = Len(s)
         /\ Replace(s, x)[Len(s)] = x
         /\ \A i \in 1 .. Len(s) - 1 : Replace(s, x)[i] = s[i]
PROOF
  <1>1. PICK S : s \in Seq(S)
    BY DEF IsSeq
  <1>2. s \in Seq(S \cup {x})
    BY <1>1, SeqMonotonic
  <1>3. Replace(s, x) \in Seq(S \cup {x}) /\ Len(Replace(s, x)) = Len(s)
    BY <1>2 DEF Replace
  <1>4. /\ Replace(s, x)[Len(s)] = x
        /\ \A i \in 1 .. Len(s) - 1 : Replace(s, x)[i] = s[i]
    BY <1>2 DEF Replace
  <1> QED BY <1>3, <1>4 DEF IsSeq

-----------------------------------------------------------------------------
(* The scopes.  Outside of every function nothing is declared.             *)
Levels(s) == 1 .. Len(s.levels)

LevelsOK(s) ==
  /\ IsSeq(s.levels) /\ Len(s.levels) >= 1
  /\ s.levels[1].vars = {}
  /\ \A k \in Levels(s) : s.levels[k].sp \in Nat
  /\ \A j, k \in Levels(s) : j <= k => s.levels[j].sp <= s.levels[k].sp

DeclaredOK(s) ==
  /\ \A k \in Levels(s) : \A x \in s.levels[k].vars :
       /\ x \in DOMAIN s.var_names
       /\ s.var_names[x] \in Nat /\ s.var_names[x] < s.levels[k].sp
  /\ \A x \in DOMAIN s.var_names : \E k \in Levels(s) : x \in s.levels[k].vars
  /\ \A j, k \in Levels(s) : \A x \in s.levels[j].vars :
       x \in s.levels[k].vars => j = k
  /\ \A x, y \in DOMAIN s.var_names : s.var_names[x] = s.var_names[y] => x = y

ScopeOK(s) ==
  /\ s = [levels |-> s.levels, var_names |-> s.var_names]
  /\ LevelsOK(s) /\ DeclaredOK(s)

LEMMA FreshScope == ScopeOK(VarManager) /\ Len(VarManager.levels) = 1
PROOF
  <1> DEFINE l == [sp |-> 0, vars |-> {}]
  <1>1. /\ VarManager = [levels |-> <<l>>, var_names |-> <<>>]
        /\ VarManager.levels = <<l>> /\ VarManager.var_names = <<>>
    BY DEF VarManager
  <1>2. IsSeq(<<l>>) /\ Len(<<l>>) = 1 /\ <<l>>[1] = l
    BY OneIsSeq
  <1>3. LevelsOK(VarManager)
    BY <1>1, <1>2 DEF LevelsOK, Levels
  <1>4. DOMAIN VarManager.var_names = {}
    BY <1>1
  <1>5. DeclaredOK(VarManager)
    BY <1>1, <1>2, <1>4 DEF DeclaredOK, Levels
  <1> QED BY <1>1, <1>2, <1>3, <1>5 DEF ScopeOK

LEMMA NewScope ==
  ASSUME NEW s, ScopeOK(s)
  PROVE  ScopeOK(new_scope(s)) /\ Len(new_scope(s).levels) = Len(s.levels) + 1
PROOF
  <1> DEFINE t == new_scope(s)
             l == [sp |-> sp(s), vars |-> {}]
  <1>1. t = [levels |-> Append(s.levels, l), var_names |-> s.var_names]
    BY DEF ScopeOK, new_scope
  <1>2. IsSeq(s.levels) /\ Len(s.levels) \in Nat \ {0}
    BY SeqFacts DEF ScopeOK, LevelsOK
  <1>3. /\ IsSeq(t.levels) /\ Len(t.levels) = Len(s.levels) + 1
        /\ t.levels[Len(s.levels) + 1] = l
        /\ \A k \in Levels(s) : t.levels[k] = s.levels[k]
    BY <1>1, <1>2, AppendFacts DEF Levels
  <1>4. l.sp = s.levels[Len(s.levels)].sp /\ l.vars = {} /\ l.sp \in Nat
    BY <1>2 DEF sp, back, ScopeOK, LevelsOK, Levels
  <1>5. t.var_names = s.var_names
        /\ t = [levels |-> t.levels, var_names |-> t.var_names]
    BY <1>1
  <1> HIDE DEF t, l
  <1> DEFINE n == Len(s.levels)
  <1>6. /\ Levels(t) = Levels(s) \cup {n + 1} /\ n + 1 \notin Levels(s)
        /\ n \in Levels(s) /\ 1 \in Levels(s)
        /\ \A k \in Levels(s) : k \in Nat /\ k <= n
    BY <1>2, <1>3 DEF Levels
  <1>7. LevelsOK(t)
    <2>1. t.levels[1].vars = {} /\ \A k \in Levels(t) : t.levels[k].sp \in Nat
      BY <1>3, <1>4, <1>6 DEF ScopeOK, LevelsOK
    <2>2. \A j \in Levels(s) : s.levels[j].sp <= l.sp
      BY <1>4, <1>6 DEF ScopeOK, LevelsOK
    <2>3. \A j, k \in Levels(t) : j <= k => t.levels[j].sp <= t.levels[k].sp
      <3>1. ASSUME NEW j \in Levels(s), NEW k \in Levels(s), j <= k
            PROVE  t.levels[j].sp <= t.levels[k].sp
        BY <1>3, <3>1 DEF ScopeOK, LevelsOK
      <3>2. ASSUME NEW j \in Levels(t)
            PROVE  t.levels[j].sp <= t.levels[n + 1].sp
        BY <1>3, <1>4, <1>6, <2>2
      <3>3. \A k \in Levels(s) : ~(n + 1 <= k)
        BY <1>2, <1>6
      <3> QED BY <1>6, <3>1, <3>2, <3>3
    <2> QED BY <1>2, <1>3, <2>1, <2>3 DEF LevelsOK
  <1>8. DeclaredOK(t)
    BY <1>2, <1>3, <1>4, <1>5, <1>6 DEF ScopeOK, DeclaredOK
  <1> QED BY <1>3, <1>5, <1>7, <1>8 DEF ScopeOK, t

LEMMA CloseScope ==
  ASSUME NEW s, ScopeOK(s), Len(s.levels) >= 2
  PROVE  ScopeOK(close_scope(s)) /\ Len(close_scope(s).levels) = Len(s.levels) - 1
PROOF
  <1> DEFINE t == close_scope(s)
             gone == s.levels[Len(s.levels)].vars
  <1>1. /\ t = [levels |-> t.levels, var_names |-> t.var_names]
        /\ t.levels = ButBack(s.levels)
        /\ t.var_names = [x \in DOMAIN s.var_names \ gone |-> s.var_names[x]]
    BY DEF close_scope, back
  <1>2. IsSeq(s.levels) /\ Len(s.levels) \in Nat
    BY SeqFacts DEF ScopeOK, LevelsOK
  <1>3. /\ IsSeq(t.levels) /\ Len(t.levels) = Len(s.levels) - 1
        /\ \A k \in Levels(t) : t.levels[k] = s.levels[k]
    BY <1>1, <1>2, ButBackFacts DEF Levels
  <1>4. DOMAIN t.var_names = DOMAIN s.var_names \ gone
        /\ \A x \in DOMAIN t.var_names : t.var_names[x] = s.var_names[x]
    BY <1>1
  <1> HIDE DEF t
  <1>5. Levels(t) \subseteq Levels(s) /\ Len(s.levels) \in Levels(s) \ Levels(t)
        /\ \A k \in Levels(s) \ {Len(s.levels)} : k \in Levels(t)
    BY <1>2, <1>3 DEF Levels
  <1>6. LevelsOK(t)
    <2>1. 1 \in Levels(t)
      BY <1>2, <1>3 DEF Levels
    <2> QED BY <1>2, <1>3, <1>5, <2>1, SMTT(30) DEF ScopeOK, LevelsOK
  <1>7. DeclaredOK(t)
    BY <1>2, <1>3, <1>4, <1>5 DEF ScopeOK, DeclaredOK
  <1> QED BY <1>1, <1>3, <1>6, <1>7 DEF ScopeOK, t

LEMMA PushVar ==
  ASSUME NEW s, ScopeOK(s), Len(s.levels) >= 2, NEW x, ~is_var(s, x)
  PROVE  ScopeOK(push_var(s, x)) /\ Len(push_var(s, x).levels) = Len(s.levels)
PROOF
  <1> DEFINE t == push_var(s, x)
             n == Len(s.levels)
             l == [sp |-> sp(s) + 1, vars |-> s.levels[n].vars \cup {x}]
  <1>1. /\ t = [levels |-> t.levels, var_names |-> t.var_names]
        /\ t.levels = Replace(s.levels, l)
        /\ t.var_names = [y \in DOMAIN s.var_names \cup {x} |->
                            IF y = x THEN sp(s) ELSE s.var_names[y]]
    BY DEF push_var, back
  <1>2. IsSeq(s.levels) /\ n \in Nat /\ n >= 2 /\ n > 0
    BY SeqFacts DEF ScopeOK, LevelsOK
  <1>3. /\ IsSeq(t.levels) /\ Len(t.levels) = n /\ t.levels[n] = l
        /\ \A k \in 1 .. n - 1 : t.levels[k] = s.levels[k]
    <2> HIDE DEF t, l
    <2>1. /\ IsSeq(Replace(s.levels, l)) /\ Len(Replace(s.levels, l)) = n
          /\ Replace(s.levels, l)[n] = l
          /\ \A k \in 1 .. n - 1 : Replace(s.levels, l)[k] = s.levels[k]
      BY <1>2, ReplaceFacts
    <2> QED BY <1>1, <2>1
  <1>4. /\ x \notin DOMAIN s.var_names
        /\ DOMAIN t.var_names = DOMAIN s.var_names \cup {x}
        /\ t.var_names[x] = sp(s)
        /\ \A y \in DOMAIN s.var_names : t.var_names[y] = s.var_names[y]
    BY <1>1 DEF is_var
  <1>5. sp(s) = s.levels[n].sp /\ sp(s) \in Nat
        /\ l.sp = sp(s) + 1 /\ l.vars = s.levels[n].vars \cup {x}
    BY <1>2 DEF sp, back, ScopeOK, LevelsOK, Levels
  <1> HIDE DEF t, l
  <1>6. Levels(t) = Levels(s) /\ n \in Levels(s) /\ 1 \in Levels(s) \ {n}
        /\ \A k \in Levels(s) \ {n} : t.levels[k] = s.levels[k]
    BY <1>2, <1>3 DEF Levels
  <1>7. LevelsOK(t)
    <2>1. t.levels[1].vars = {} /\ \A k \in Levels(t) : t.levels[k].sp \in Nat
      BY <1>3, <1>5, <1>6 DEF ScopeOK, LevelsOK
    <2>2. \A j \in Levels(s) : j <= n /\ j \in Nat /\ s.levels[j].sp <= s.levels[n].sp
      BY <1>2, <1>6 DEF ScopeOK, LevelsOK, Levels
    <2>3. \A j, k \in Levels(t) : j <= k => t.levels[j].sp <= t.levels[k].sp
      BY <1>2, <1>3, <1>5, <1>6, <2>2, SMTT(30) DEF ScopeOK, LevelsOK
    <2> QED BY <1>2, <1>3, <2>1, <2>3 DEF LevelsOK
  <1>8. \A k \in Levels(s) : t.levels[k].vars \subseteq s.levels[k].vars \cup {x}
        /\ (x \in t.levels[k].vars => k = n)
    BY <1>3, <1>4, <1>5, <1>6 DEF ScopeOK, DeclaredOK
  <1>9. \A y \in DOMAIN s.var_names : s.var_names[y] \in Nat /\ s.var_names[y] < sp(s)
    BY <1>2, <1>5, <1>6 DEF ScopeOK, DeclaredOK, LevelsOK, Levels
  <1>10. DeclaredOK(t)
    <2>1. \A k \in Levels(t) : \A y \in t.levels[k].vars :
            /\ y \in DOMAIN t.var_names
            /\ t.var_names[y] \in Nat /\ t.var_names[y] < t.levels[k].sp
      BY <1>3, <1>4, <1>5, <1>6, <1>8, <1>9 DEF ScopeOK, DeclaredOK
    <2>2. \A y \in DOMAIN t.var_names : \E k \in Levels(t) : y \in t.levels[k].vars
      BY <1>3, <1>4, <1>5, <1>6 DEF ScopeOK, DeclaredOK
    <2>3. \A j, k \in Levels(t) : \A y \in t.levels[j].vars :
            y \in t.levels[k].vars => j = k
      BY <1>4, <1>6, <1>8 DEF ScopeOK, DeclaredOK
    <2>4. \A y, z \in DOMAIN t.var_names : t.var_names[y] = t.var_names[z] => y = z
      BY <1>4, <1>5, <1>9 DEF ScopeOK, DeclaredOK
    <2> QED BY <2>1, <2>2, <2>3, <2>4 DEF DeclaredOK
  <1> QED BY <1>1, <1>3, <1>7, <1>10 DEF ScopeOK, t

LEMMA Parameters ==
  ASSUME ScopeOK(scope), Len(scope.levels) = 1, NEW params \in Params, Distinct(params)
  PROVE  ScopeOK(PushParams(params)) /\ Len(PushParams(params).levels) = 2
PROOF
  <1> DEFINE t == PushParams(params)
             xs == {params[k] : k \in DOMAIN params}
             l == [sp |-> sp(scope) + Len(params), vars |-> xs]
             at(x) == CHOOSE k \in DOMAIN params : params[k] = x
  <1>1. /\ t = [levels |-> t.levels, var_names |-> t.var_names]
        /\ t.levels = Append(scope.levels, l)
        /\ t.var_names = [x \in xs |-> sp(scope) + at(x) - 1]
    BY DEF PushParams
  <1>2. DOMAIN params = 1 .. Len(params) /\ Len(params) \in Nat
    BY CompilerAssumption
  <1>3. \A x \in xs : at(x) \in 1 .. Len(params) /\ params[at(x)] = x
    BY <1>2
  <1>4. /\ IsSeq(t.levels) /\ Len(t.levels) = 2 /\ t.levels[2] = l
        /\ t.levels[1] = scope.levels[1]
    BY <1>1, AppendFacts DEF ScopeOK, LevelsOK
  <1>5. sp(scope) = scope.levels[1].sp /\ sp(scope) \in Nat
        /\ scope.levels[1].vars = {}
    BY DEF sp, back, ScopeOK, LevelsOK, Levels
  <1>6. l.sp = sp(scope) + Len(params) /\ l.vars = xs
    OBVIOUS
  <1>7. DOMAIN t.var_names = xs
        /\ \A x \in xs : t.var_names[x] = sp(scope) + at(x) - 1
    BY <1>1
  <1> HIDE DEF t, l, xs, at
  <1>8. Levels(t) = {1, 2}
    BY <1>4 DEF Levels
  <1>9. LevelsOK(t)
    BY <1>2, <1>4, <1>5, <1>6, <1>8, SMTT(30) DEF LevelsOK
  <1>10. DeclaredOK(t)
    BY <1>2, <1>3, <1>4, <1>5, <1>6, <1>7, <1>8, SMTT(30) DEF DeclaredOK
  <1> QED BY <1>1, <1>4, <1>9, <1>10 DEF ScopeOK, t

LEMMA Apart ==
  ASSUME ScopeOK(scope)
  PROVE  VariablesApart
PROOF
  <1> DEFINE names == DOMAIN scope.var_names
  <1>1. DOMAIN scope.levels = Levels(scope) /\ Len(scope.levels) \in Nat
    BY SeqFacts DEF ScopeOK, LevelsOK, Levels
  <1>2. ASSUME NEW x \in names
        PROVE  Cardinality({k \in DOMAIN scope.levels : x \in scope.levels[k].vars}) = 1
    <2>1. PICK k \in Levels(scope) : x \in scope.levels[k].vars
      BY <1>2 DEF ScopeOK, DeclaredOK
    <2>2. {j \in DOMAIN scope.levels : x \in scope.levels[j].vars} = {k}
      BY <1>1, <2>1 DEF ScopeOK, DeclaredOK
    <2> QED BY <2>2, FS_Singleton
  <1>3. \A k \in DOMAIN scope.levels :
          /\ scope.levels[k].vars \subseteq names
          /\ \A x \in scope.levels[k].vars : scope.var_names[x] < scope.levels[k].sp
          /\ k > 1 => scope.levels[k - 1].sp <= scope.levels[k].sp
    BY <1>1 DEF ScopeOK, DeclaredOK, LevelsOK, Levels
  <1> QED BY <1>2, <1>3 DEF VariablesApart, ScopeOK, DeclaredOK
-----------------------------------------------------------------------------
(* The constructs being parsed.  What the invariant says of one depends on *)
(* its kind, its labels and whether its body is a block.                   *)
Shape(c) ==
  /\ c = [kind |-> c.kind, name |-> c.name, l1 |-> c.l1, l2 |-> c.l2, e |-> c.e,
          at |-> c.at, inc |-> c.inc, incAt |-> c.incAt, first |-> c.first,
          body |-> c.body]
  /\ c.body = [braced |-> c.body.braced, list |-> c.body.list]
  /\ c.kind \in {"function", "then", "else", "while", "for"}

Like(c, d) ==
  /\ d.kind = c.kind /\ d.l1 = c.l1 /\ d.l2 = c.l2
  /\ d.body.braced = c.body.braced
  /\ Shape(c) => Shape(d)

Alike(o, p, n) == \A j \in 1 .. n : Like(o[j], p[j])

Expectations ==
  {"function", "statement", "block", "done", "else", "init", "header"}

StackOK(o, x) ==
  /\ IsSeq(o)
  /\ \A j \in 1 .. Len(o) : Shape(o[j]) /\ (o[j].kind = "function" <=> j = 1)
  /\ x \in Expectations
  /\ x = "function" <=> Len(o) = 0
  /\ x = "else" => o[Len(o)].kind = "then"
  /\ x \in {"init", "header"} => o[Len(o)].kind = "for"

LEMMA NoStack == StackOK(<<>>, "function")
PROOF
  <1>1. 1 .. 0 = {}
    OBVIOUS
  <1> QED BY <1>1, NoneIsSeq DEF StackOK, Expectations

(* p keeps the first n constructs of o, and has at most one more.          *)
Extends(o, p, n) ==
  /\ IsSeq(p) /\ n \in Nat /\ n <= Len(o)
  /\ Alike(o, p, n)
  /\ Len(p) \in {n, n + 1}

LEMMA StackNext ==
  ASSUME NEW o, NEW x, StackOK(o, x), NEW p, NEW y \in Expectations, NEW n,
         Extends(o, p, n),
         Len(p) = n + 1 => /\ Shape(p[n + 1])
                           /\ p[n + 1].kind = "function" <=> n = 0,
         y = "function" <=> Len(p) = 0,
         y = "else" => p[Len(p)].kind = "then",
         y \in {"init", "header"} => p[Len(p)].kind = "for"
  PROVE  StackOK(p, y)
PROOF
  <1>1. Len(o) \in Nat /\ Len(p) \in Nat /\ n \in Nat
    BY SeqFacts DEF StackOK, Extends
  <1>2. ASSUME NEW j \in 1 .. n
        PROVE  Shape(p[j]) /\ (p[j].kind = "function" <=> j = 1)
    <2>1. j \in 1 .. Len(o) /\ Like(o[j], p[j])
      BY <1>1 DEF Extends, Alike
    <2> QED BY <2>1 DEF StackOK, Like
  <1>3. ASSUME NEW j \in 1 .. Len(p)
        PROVE  Shape(p[j]) /\ (p[j].kind = "function" <=> j = 1)
    <2>1. j \in 1 .. n \/ (j = n + 1 /\ Len(p) = n + 1)
      BY <1>1 DEF Extends
    <2> QED BY <1>1, <1>2, <2>1
  <1> QED BY <1>3 DEF StackOK, Extends

-----------------------------------------------------------------------------
(* How many levels of scopes there are up to each construct.  After the    *)
(* block of a then is complete its level is closed.                        *)
Opens(c) == IF c.kind \in {"then", "else"} /\ ~c.body.braced THEN 0 ELSE 1

Depths(o, d) ==
  /\ d \in [0 .. Len(o) -> Nat] /\ d[0] = 1
  /\ \A j \in 1 .. Len(o) : d[j] = d[j - 1] + Opens(o[j]) /\ d[j] >= 2

Closed(o, x) == IF x = "else" /\ o[Len(o)].body.braced THEN 1 ELSE 0

DepthOK(o, x, levels) ==
  \E d : Depths(o, d) /\ levels = d[Len(o)] - Closed(o, x)

(* e is to p what d is to o, up to n.                                      *)
Prolongs(p, e, d, n) ==
  /\ Depths(p, e)
  /\ \A k \in 0 .. n : e[k] = d[k]
  /\ Len(p) = n + 1 => e[n + 1] = d[n] + Opens(p[n + 1])

LEMMA DepthsNext ==
  ASSUME NEW o, IsSeq(o), NEW d, Depths(o, d), NEW p, NEW n, Extends(o, p, n),
         Len(p) = n + 1 /\ n = 0 => p[1].kind = "function"
  PROVE  \E e : Prolongs(p, e, d, n)
PROOF
  <1>0. Len(o) \in Nat /\ Len(p) \in Nat /\ n \in Nat /\ n <= Len(o)
        /\ Len(p) \in {n, n + 1}
    BY SeqFacts DEF Extends
  <1>1. ASSUME NEW k \in 0 .. n
        PROVE  k \in 0 .. Len(p) /\ k <= n /\ d[k] \in Nat
    <2>1. k \in 0 .. Len(p) /\ k \in 0 .. Len(o) /\ k <= n
      BY <1>0
    <2> QED BY <2>1 DEF Depths
  <1>3. \A c : Opens(c) \in {0, 1}
    BY DEF Opens
  <1> DEFINE next(k) == IF k <= n THEN d[k] ELSE d[n] + Opens(p[n + 1])
             e == [k \in 0 .. Len(p) |-> next(k)]
  <1>5. e \in [0 .. Len(p) -> Nat]
    <2>1. d[n] \in Nat
      BY <1>0, <1>1
    <2>2. ASSUME NEW k \in 0 .. Len(p)
          PROVE  next(k) \in Nat
      BY <1>0, <1>1, <1>3, <2>1
    <2> HIDE DEF next
    <2> QED BY <2>2
  <1>2. \A k \in 0 .. n : e[k] = d[k] /\ d[k] \in Nat
    BY <1>1
  <1>4. Len(p) = n + 1 => e[n + 1] = d[n] + Opens(p[n + 1])
    BY <1>0
  <1> HIDE DEF e
  <1>7. ASSUME NEW j \in 1 .. n
        PROVE  e[j] = e[j - 1] + Opens(p[j]) /\ e[j] >= 2
    <2>1. j \in 1 .. Len(o) /\ j \in 0 .. n /\ j - 1 \in 0 .. n
      BY <1>0
    <2>2. Opens(p[j]) = Opens(o[j])
      BY DEF Extends, Alike, Like, Opens
    <2> QED BY <1>2, <2>1, <2>2 DEF Depths
  <1>8. Len(p) = n + 1 => e[n + 1] >= 2
    <2>1. CASE n = 0
      BY <1>0, <1>2, <1>4, <2>1 DEF Opens, Depths
    <2>2. CASE n > 0
      <3>1. n \in 1 .. Len(o) /\ n \in 0 .. n
        BY <1>0, <2>2
      <3>2. d[n] >= 2 /\ d[n] \in Nat
        BY <1>2, <3>1 DEF Depths
      <3> QED BY <1>3, <1>4, <3>2
    <2> QED BY <1>0, <2>1, <2>2
  <1>9. ASSUME NEW j \in 1 .. Len(p)
        PROVE  e[j] = e[j - 1] + Opens(p[j]) /\ e[j] >= 2
    <2>1. j \in 1 .. n \/ (j = n + 1 /\ Len(p) = n + 1 /\ j - 1 = n /\ n \in 0 .. n)
      BY <1>0
    <2> QED BY <1>2, <1>4, <1>7, <1>8, <2>1
  <1>10. e[0] = 1
    BY <1>0, <1>2 DEF Depths
  <1>11. Depths(p, e)
    BY <1>5, <1>9, <1>10 DEF Depths
  <1> QED BY <1>2, <1>4, <1>11 DEF Prolongs

LEMMA DepthsInside ==
  ASSUME NEW o, IsSeq(o), NEW d, Depths(o, d), NEW p, NEW n, Extends(o, p, n), n > 0
  PROVE  \E e : Prolongs(p, e, d, n)
PROOF
  <1>1. ~(Len(p) = n + 1 /\ n = 0)
    BY DEF Extends
  <1>2. Len(p) = n + 1 /\ n = 0 => p[1].kind = "function"
    BY <1>1
  <1> QED BY <1>2, DepthsNext

(* What the last of the first n + 1 constructs adds to the levels.         *)
Tip(o, n) == IF Len(o) = n + 1 THEN Opens(o[n + 1]) ELSE 0

LEMMA DepthMoves ==
  ASSUME NEW o, IsSeq(o), NEW x, NEW levels, DepthOK(o, x, levels),
         NEW p, NEW n, Extends(o, p, n), n > 0, Len(o) \in {n, n + 1}, NEW y
  PROVE  DepthOK(p, y, levels + Closed(o, x) - Tip(o, n) + Tip(p, n) - Closed(p, y))
PROOF
  <1>1. PICK d : Depths(o, d) /\ levels = d[Len(o)] - Closed(o, x)
    BY DEF DepthOK
  <1>0. PICK e : Prolongs(p, e, d, n)
    BY <1>1, DepthsInside
  <1>2. /\ Depths(p, e)
        /\ \A k \in 0 .. n : e[k] = d[k]
        /\ Len(p) = n + 1 => e[n + 1] = d[n] + Opens(p[n + 1])
    BY <1>0 DEF Prolongs
  <1>3. Len(o) \in Nat /\ Len(p) \in {n, n + 1} /\ n \in Nat
    BY SeqFacts DEF Extends
  <1>4. /\ Closed(o, x) \in Int /\ Closed(p, y) \in Int
        /\ Tip(o, n) \in Int /\ Tip(p, n) \in Int
    BY DEF Closed, Tip, Opens
  <1>5. d[n] \in Int /\ d[Len(o)] = d[n] + Tip(o, n)
    <2>1. n \in 0 .. Len(o) /\ (Len(o) = n + 1 => n + 1 \in 1 .. Len(o))
      BY <1>3
    <2> QED BY <1>1, <1>3, <2>1 DEF Depths, Tip
  <1>6. e[Len(p)] = d[n] + Tip(p, n)
    BY <1>2, <1>3, <1>5 DEF Tip
  <1>7. levels + Closed(o, x) - Tip(o, n) + Tip(p, n) - Closed(p, y)
          = e[Len(p)] - Closed(p, y)
    BY <1>1, <1>4, <1>5, <1>6, SMTT(30)
  <1>8. \E f : /\ Depths(p, f)
               /\ levels + Closed(o, x) - Tip(o, n) + Tip(p, n) - Closed(p, y)
                    = f[Len(p)] - Closed(p, y)
    <2> WITNESS e
    <2> QED BY <1>2, <1>7, Zenon
  <1> QED BY <1>8, Zenon DEF DepthOK

(* Inside a function there are two levels at least, and two more around a  *)
(* body.                                                                   *)
LEMMA DepthFacts ==
  ASSUME NEW o, NEW x, StackOK(o, x), NEW levels, DepthOK(o, x, levels)
  PROVE  /\ levels \in Int
         /\ Len(o) = 0 => levels = 1
         /\ Len(o) > 0 /\ x # "else" => levels >= 2
         /\ x = "else" => levels >= 2
PROOF
  <1>1. PICK d : Depths(o, d) /\ levels = d[Len(o)] - Closed(o, x)
    BY DEF DepthOK
  <1> DEFINE n == Len(o)
  <1>2. n \in Nat
    BY SeqFacts DEF StackOK
  <1>3. d[n] \in Nat /\ Closed(o, x) \in {0, 1}
    BY <1>1, <1>2 DEF Depths, Closed
  <1>4. n = 0 => d[n] = 1 /\ Closed(o, x) = 0
    BY <1>1 DEF Depths, Closed, StackOK
  <1>5. n > 0 => d[n] >= 2
    BY <1>1, <1>2 DEF Depths
  <1>6. x = "else" => levels >= 2
    <2> SUFFICES ASSUME x = "else" PROVE levels >= 2
      OBVIOUS
    <2>1. n > 0 /\ o[n].kind = "then" /\ n - 1 \in 1 .. n /\ n \in 1 .. n
      <3>1. n > 0 /\ o[n].kind = "then"
        BY <1>2 DEF StackOK
      <3>2. n # 1
        BY <3>1 DEF StackOK
      <3> QED BY <1>2, <3>1, <3>2
    <2>2. d[n - 1] >= 2 /\ d[n - 1] \in Nat /\ d[n] = d[n - 1] + Opens(o[n])
      BY <1>1, <1>2, <2>1 DEF Depths
    <2>3. Opens(o[n]) = Closed(o, x)
      BY <2>1 DEF Opens, Closed, StackOK, Shape
    <2> QED BY <1>1, <1>3, <2>2, <2>3
  <1> QED BY <1>1, <1>2, <1>3, <1>4, <1>5, <1>6 DEF Closed
-----------------------------------------------------------------------------
(* The loops whose header has been compiled, by their place in the stack,  *)
(* and the labels that break sees, which are theirs.                       *)
Headed(o, x) ==
  {j \in 1 .. Len(o) : /\ o[j].kind \in {"while", "for"}
                       /\ j = Len(o) => x \notin {"init", "header"}}

Matches(o, x, ls, m) ==
  /\ m \in [1 .. Len(ls) -> Headed(o, x)]
  /\ \A j, k \in 1 .. Len(ls) : j < k => m[j] < m[k]
  /\ \A k \in 1 .. Len(ls) : ls[k].end = o[m[k]].l2
  /\ \A i \in Headed(o, x) : \E k \in 1 .. Len(ls) : m[k] = i

LoopsOK(o, x, ls) == \E m : Matches(o, x, ls, m)

LEMMA NoLoops == LoopsOK(<<>>, "function", <<>>)
PROOF
  <1>1. Headed(<<>>, "function") = {} /\ 1 .. Len(<<>>) = {}
    BY NoneIsSeq DEF Headed
  <1>2. <<>> \in [1 .. Len(<<>>) -> Headed(<<>>, "function")]
    BY <1>1
  <1>3. Matches(<<>>, "function", <<>>, <<>>)
    BY <1>1, <1>2 DEF Matches
  <1> QED BY <1>3 DEF LoopsOK

LEMMA LoopsSame ==
  ASSUME NEW o, NEW x, NEW p, NEW y, NEW n, Extends(o, p, n), NEW ls,
         LoopsOK(o, x, ls), Headed(p, y) = Headed(o, x), Headed(o, x) \subseteq 1 .. n
  PROVE  LoopsOK(p, y, ls)
PROOF
  <1>1. PICK m : Matches(o, x, ls, m)
    BY DEF LoopsOK
  <1>2. \A k \in 1 .. Len(ls) : p[m[k]].l2 = o[m[k]].l2
    BY <1>1 DEF Matches, Extends, Alike, Like
  <1>3. Matches(p, y, ls, m)
    BY <1>1, <1>2 DEF Matches
  <1> QED BY <1>3 DEF LoopsOK

LEMMA LoopsPush ==
  ASSUME NEW o, NEW x, NEW p, NEW y, NEW n, Extends(o, p, n), NEW ls, IsSeq(ls),
         LoopsOK(o, x, ls), Headed(p, y) = Headed(o, x) \cup {n + 1},
         Headed(o, x) \subseteq 1 .. n, NEW l, l.end = p[n + 1].l2
  PROVE  LoopsOK(p, y, Append(ls, l))
PROOF
  <1>1. PICK m : Matches(o, x, ls, m)
    BY DEF LoopsOK
  <1> DEFINE N == Len(ls)
             t == Append(ls, l)
             at(k) == IF k <= N THEN m[k] ELSE n + 1
             f == [k \in 1 .. N + 1 |-> at(k)]
  <1>2. N \in Nat /\ n \in Nat
    BY SeqFacts DEF Extends
  <1>3. Len(t) = N + 1 /\ t[N + 1] = l /\ \A k \in 1 .. N : t[k] = ls[k]
    BY AppendFacts
  <1>4. ASSUME NEW k \in 1 .. N + 1
        PROVE  /\ at(k) \in Headed(p, y)
               /\ t[k].end = p[at(k)].l2
    <2>1. CASE k \in 1 .. N
      <3>1. at(k) = m[k] /\ m[k] \in Headed(o, x)
        BY <1>1, <1>2, <2>1 DEF Matches
      <3>2. p[m[k]].l2 = o[m[k]].l2
        BY <3>1 DEF Extends, Alike, Like
      <3> QED BY <1>1, <1>3, <2>1, <3>1, <3>2 DEF Matches
    <2>2. CASE k = N + 1
      BY <1>2, <1>3, <2>2
    <2> QED BY <1>2, <2>1, <2>2
  <1>5. \A k \in 1 .. N + 1 : f[k] = at(k)
    OBVIOUS
  <1>6. f \in [1 .. N + 1 -> Headed(p, y)]
    <2> HIDE DEF at
    <2> QED BY <1>4
  <1> HIDE DEF f, t
  <1>7. ASSUME NEW j \in 1 .. N + 1, NEW k \in 1 .. N + 1, j < k
        PROVE  f[j] < f[k]
    <2>1. j \in 1 .. N /\ f[j] = m[j] /\ m[j] \in 1 .. n
      BY <1>1, <1>2, <1>5, <1>7 DEF Matches
    <2>2. CASE k \in 1 .. N
      BY <1>1, <1>2, <1>5, <1>7, <2>1, <2>2 DEF Matches
    <2>3. CASE k = N + 1
      BY <1>2, <1>5, <2>1, <2>3
    <2> QED BY <1>2, <2>2, <2>3
  <1>8. ASSUME NEW i \in Headed(p, y)
        PROVE  \E k \in 1 .. N + 1 : f[k] = i
    <2>1. CASE i = n + 1
      BY <1>2, <1>5, <2>1
    <2>2. CASE i \in Headed(o, x)
      <3>1. PICK k \in 1 .. N : m[k] = i
        BY <1>1, <2>2 DEF Matches
      <3>2. k \in 1 .. N + 1 /\ f[k] = i
        BY <1>2, <1>5, <3>1
      <3> QED BY <3>2
    <2> QED BY <2>1, <2>2
  <1>9. Matches(p, y, t, f)
    BY <1>3, <1>4, <1>5, <1>6, <1>7, <1>8 DEF Matches
  <1> QED BY <1>9 DEF LoopsOK, t

LEMMA LoopsPop ==
  ASSUME NEW o, NEW x, NEW p, NEW y, NEW n, Extends(o, p, n), NEW ls, IsSeq(ls),
         LoopsOK(o, x, ls), Headed(o, x) = Headed(p, y) \cup {n + 1},
         Headed(p, y) \subseteq 1 .. n
  PROVE  Len(ls) > 0 /\ LoopsOK(p, y, ButBack(ls))
PROOF
  <1>1. PICK m : Matches(o, x, ls, m)
    BY DEF LoopsOK
  <1> DEFINE N == Len(ls)
             t == ButBack(ls)
             f == [k \in 1 .. N - 1 |-> m[k]]
  <1>2. N \in Nat /\ n \in Nat
    BY SeqFacts DEF Extends
  <1>3. PICK z \in 1 .. N : m[z] = n + 1
    BY <1>1 DEF Matches
  <1>4. N > 0 /\ N \in 1 .. N
    BY <1>2, <1>3
  <1>5. \A i \in Headed(o, x) : i \in Int /\ i <= n + 1
    BY <1>2
  <1>6. z = N
    <2> SUFFICES ASSUME z < N PROVE FALSE
      BY <1>2, <1>3
    <2>1. m[z] < m[N] /\ m[N] \in Headed(o, x)
      BY <1>1, <1>3, <1>4 DEF Matches
    <2> QED BY <1>2, <1>3, <1>5, <2>1
  <1>7. Len(t) = N - 1 /\ \A k \in 1 .. N - 1 : t[k] = ls[k]
    BY <1>4, ButBackFacts
  <1>8. ASSUME NEW k \in 1 .. N - 1
        PROVE  /\ f[k] = m[k] /\ k \in 1 .. N /\ m[k] \in Headed(p, y)
               /\ t[k].end = p[m[k]].l2
    <2>1. f[k] = m[k] /\ k \in 1 .. N /\ k < N
      BY <1>2
    <2>2. m[k] < m[N] /\ m[k] \in Headed(o, x)
      BY <1>1, <1>4, <2>1 DEF Matches
    <2>3. m[k] \in Headed(p, y)
      BY <1>2, <1>3, <1>6, <2>2
    <2>4. p[m[k]].l2 = o[m[k]].l2
      BY <2>3 DEF Extends, Alike, Like
    <2> QED BY <1>1, <1>7, <2>1, <2>3, <2>4 DEF Matches
  <1>9. f \in [1 .. N - 1 -> Headed(p, y)]
    BY <1>8
  <1> HIDE DEF f, t
  <1>10. \A j, k \in 1 .. N - 1 : j < k => f[j] < f[k]
    BY <1>1, <1>8 DEF Matches
  <1>11. ASSUME NEW i \in Headed(p, y)
         PROVE  \E k \in 1 .. N - 1 : f[k] = i
    <2>1. PICK k \in 1 .. N : m[k] = i
      BY <1>1 DEF Matches
    <2>2. k # N
      BY <1>2, <1>3, <1>6, <2>1
    <2>3. k \in 1 .. N - 1
      BY <1>2, <2>2
    <2> QED BY <1>8, <2>1, <2>3
  <1>12. Matches(p, y, t, f)
    BY <1>7, <1>8, <1>9, <1>10, <1>11 DEF Matches
  <1> QED BY <1>4, <1>12 DEF LoopsOK, t

LEMMA NoneLeft ==
  ASSUME NEW o, NEW x, NEW ls, IsSeq(ls), LoopsOK(o, x, ls), Headed(o, x) = {}
  PROVE  ls = <<>>
PROOF
  <1>1. PICK m : Matches(o, x, ls, m)
    BY DEF LoopsOK
  <1>2. Len(ls) \in Nat /\ (ls = <<>> <=> Len(ls) = 0)
    BY SeqFacts
  <1>3. \A k \in 1 .. Len(ls) : m[k] \in {}
    BY <1>1 DEF Matches
  <1> QED BY <1>2, <1>3
-----------------------------------------------------------------------------
(* The emitter.                                                            *)
Plain(i) == i = [op |-> i.op, a |-> i.a, b |-> i.b, e |-> i.e]

EmitterOK(em) ==
  /\ em = [code |-> em.code, pending |-> em.pending, labels |-> em.labels]
  /\ IsSeq(em.code)
  /\ \A i \in 1 .. Len(em.code) :
       /\ Plain(em.code[i])
       /\ em.code[i].op \in JumpOps => \E p \in em.pending : p.at = i
  /\ \A l \in DOMAIN em.labels : em.labels[l] \in 1 .. Here(em)

(* Code has been added and no jump.                                        *)
Straight(em, fm) ==
  EmitterOK(fm) /\ fm.pending = em.pending /\ fm.labels = em.labels

LEMMA NoCode == EmitterOK(begin_func)
PROOF
  <1>1. /\ begin_func = [code |-> <<>>, pending |-> {}, labels |-> <<>>]
        /\ begin_func.code = <<>> /\ begin_func.pending = {}
        /\ begin_func.labels = <<>>
    BY DEF begin_func
  <1>2. 1 .. Len(<<>>) = {} /\ DOMAIN <<>> = {}
    BY NoneIsSeq, SeqFacts
  <1> QED BY <1>1, <1>2, NoneIsSeq DEF EmitterOK

LEMMA Adding ==
  ASSUME NEW em, EmitterOK(em), NEW op, NEW a, NEW b, NEW e
  PROVE  LET i  == Instruction(op, a, b, e)
             fm == add(em, op, a, b, e)
         IN /\ fm = [code |-> fm.code, pending |-> em.pending, labels |-> em.labels]
            /\ IsSeq(fm.code) /\ Len(fm.code) = Len(em.code) + 1
            /\ fm.code[Len(em.code) + 1] = i /\ Plain(i) /\ i.op = op
            /\ \A k \in 1 .. Len(em.code) : fm.code[k] = em.code[k]
            /\ Len(em.code) \in Nat
PROOF
  <1> DEFINE i  == Instruction(op, a, b, e)
             fm == add(em, op, a, b, e)
  <1>1. fm = [code |-> Append(em.code, i), pending |-> em.pending,
              labels |-> em.labels]
    BY SMTT(30) DEF EmitterOK, add
  <1>2. fm.code = Append(em.code, i)
    BY <1>1
  <1>3. Plain(i) /\ i.op = op
    BY DEF Plain, Instruction
  <1> HIDE DEF i, fm
  <1>4. IsSeq(em.code) /\ Len(em.code) \in Nat
    BY SeqFacts DEF EmitterOK
  <1>5. /\ IsSeq(fm.code) /\ Len(fm.code) = Len(em.code) + 1
        /\ fm.code[Len(em.code) + 1] = i
        /\ \A k \in 1 .. Len(em.code) : fm.code[k] = em.code[k]
    BY <1>2, <1>4, AppendFacts
  <1> QED BY <1>1, <1>2, <1>3, <1>4, <1>5 DEF i, fm

LEMMA AddStraight ==
  ASSUME NEW em, EmitterOK(em), NEW op, op \notin JumpOps, NEW a, NEW b, NEW e
  PROVE  Straight(em, add(em, op, a, b, e))
PROOF
  <1> DEFINE i  == Instruction(op, a, b, e)
             fm == add(em, op, a, b, e)
             n  == Len(em.code)
  <1>1. /\ fm = [code |-> fm.code, pending |-> em.pending, labels |-> em.labels]
        /\ IsSeq(fm.code) /\ Len(fm.code) = n + 1 /\ n \in Nat
        /\ fm.code[n + 1] = i /\ Plain(i) /\ i.op = op
        /\ \A k \in 1 .. n : fm.code[k] = em.code[k]
    BY Adding
  <1> HIDE DEF i, fm
  <1>2. fm.pending = em.pending /\ fm.labels = em.labels
    BY <1>1
  <1>3. ASSUME NEW k \in 1 .. n + 1
        PROVE  /\ Plain(fm.code[k])
               /\ fm.code[k].op \in JumpOps => \E p \in fm.pending : p.at = k
    <2>1. k \in 1 .. n \/ k = n + 1
      BY <1>1
    <2> QED BY <1>1, <1>2, <2>1 DEF EmitterOK
  <1>4. \A l \in DOMAIN fm.labels : fm.labels[l] \in 1 .. Here(fm)
    BY <1>1, <1>2 DEF EmitterOK, Here
  <1> QED BY <1>1, <1>2, <1>3, <1>4 DEF Straight, EmitterOK, fm

LEMMA Jumping ==
  ASSUME NEW em, EmitterOK(em), NEW op, NEW a, NEW l
  PROVE  LET fm == jump(em, op, a, l)
         IN /\ EmitterOK(fm) /\ fm.labels = em.labels
            /\ fm.pending = em.pending \cup {[at |-> Here(em), label |-> l]}
PROOF
  <1> DEFINE i  == Instruction(op, a, 0, 0)
             gm == add(em, op, a, 0, 0)
             fm == jump(em, op, a, l)
             n  == Len(em.code)
             p  == [at |-> Here(em), label |-> l]
  <1>1. /\ gm = [code |-> gm.code, pending |-> em.pending, labels |-> em.labels]
        /\ IsSeq(gm.code) /\ Len(gm.code) = n + 1 /\ n \in Nat
        /\ gm.code[n + 1] = i /\ Plain(i) /\ i.op = op
        /\ \A k \in 1 .. n : gm.code[k] = em.code[k]
    BY Adding
  <1>2. fm = [gm EXCEPT !.pending = @ \cup {p}]
    BY DEF jump
  <1> HIDE DEF gm, i, fm
  <1>3. fm = [code |-> gm.code, pending |-> em.pending \cup {p}, labels |-> em.labels]
    <2> HIDE DEF p
    <2>1. gm.pending = em.pending /\ gm.labels = em.labels
      BY <1>1
    <2>2. fm = [[code |-> gm.code, pending |-> em.pending, labels |-> em.labels]
                 EXCEPT !.pending = em.pending \cup {p}]
      BY <1>1, <1>2, <2>1, Zenon
    <2> QED BY <2>2
  <1>4. fm.code = gm.code /\ fm.pending = em.pending \cup {p} /\ fm.labels = em.labels
        /\ p.at = n + 1
    BY <1>3 DEF Here
  <1> HIDE DEF p
  <1>5. ASSUME NEW k \in 1 .. n + 1
        PROVE  /\ Plain(fm.code[k])
               /\ fm.code[k].op \in JumpOps => \E q \in fm.pending : q.at = k
    <2>1. k \in 1 .. n \/ k = n + 1
      BY <1>1
    <2> QED BY <1>1, <1>4, <2>1 DEF EmitterOK
  <1>6. \A x \in DOMAIN fm.labels : fm.labels[x] \in 1 .. Here(fm)
    BY <1>1, <1>4 DEF EmitterOK, Here
  <1> QED BY <1>1, <1>3, <1>4, <1>5, <1>6 DEF EmitterOK, fm, p

LEMMA Labelling ==
  ASSUME NEW em, EmitterOK(em), NEW l
  PROVE  LET fm == label(em, l)
         IN /\ EmitterOK(fm) /\ fm.pending = em.pending
            /\ DOMAIN fm.labels = DOMAIN em.labels \cup {l}
PROOF
  <1> DEFINE fm == label(em, l)
             ls == [x \in DOMAIN em.labels \cup {l} |->
                      IF x = l THEN Here(em) ELSE em.labels[x]]
  <1>1. fm = [code |-> em.code, pending |-> em.pending, labels |-> ls]
    BY DEF EmitterOK, label
  <1>2. fm.code = em.code /\ fm.pending = em.pending /\ fm.labels = ls
    BY <1>1
  <1> HIDE DEF fm
  <1>3. Here(fm) = Here(em) /\ Here(em) \in Nat /\ Here(em) >= 1
    BY <1>2, SeqFacts DEF Here, EmitterOK
  <1>4. \A x \in DOMAIN ls : ls[x] \in 1 .. Here(em)
    BY <1>3 DEF EmitterOK
  <1>5. DOMAIN ls = DOMAIN em.labels \cup {l}
    OBVIOUS
  <1> HIDE DEF ls
  <1> QED BY <1>1, <1>2, <1>3, <1>4, <1>5 DEF EmitterOK, fm

LEMMA MoveStraight ==
  ASSUME NEW em, EmitterOK(em), NEW a, NEW b
  PROVE  Straight(em, emit_move(em, a, b))
BY AddStraight DEF emit_move, Straight, JumpOps

LEMMA EvalStraight ==
  ASSUME NEW em, EmitterOK(em), NEW s, NEW a, NEW e
  PROVE  Straight(em, eval_into(em, s, a, e)) /\ Straight(em, epush(em, s, e))
BY AddStraight DEF eval_into, epush, JumpOps

LEMMA StraightTwice ==
  ASSUME NEW em, NEW fm, NEW gm, Straight(em, fm), Straight(fm, gm)
  PROVE  Straight(em, gm)
BY DEF Straight

LEMMA AssignStraight ==
  ASSUME NEW em, EmitterOK(em), NEW s, NEW i
  PROVE  Straight(em, push_assign(em, s, i))
PROOF
  <1> DEFINE pushed == epush(em, s, i.e)
             res    == s.var_names[i.x]
  <1>1. Straight(em, pushed)
    BY EvalStraight
  <1> HIDE DEF pushed
  <1>2. EmitterOK(pushed)
    BY <1>1 DEF Straight
  <1>3. Straight(em, emit_move(pushed, res, sp(s)))
    BY <1>1, <1>2, MoveStraight, StraightTwice
  <1>4. Straight(em, add(pushed, "ADD", res, <<sp(s), res>>, 0))
    BY <1>1, <1>2, AddStraight, StraightTwice DEF JumpOps
  <1>5. Straight(em, add(pushed, "SUB", res, <<res, sp(s)>>, 0))
    BY <1>1, <1>2, AddStraight, StraightTwice DEF JumpOps
  <1> QED BY <1>1, <1>3, <1>4, <1>5 DEF push_assign, pushed, is_var

(* A function whose jumps all have labels: RETURNNIL comes last, so every  *)
(* label, also one behind the last statement, is on an instruction.        *)
LEMMA Resolving ==
  ASSUME NEW em, EmitterOK(em), NEW fm, fm = add(em, "RETURNNIL", 0, 0, 0),
         WellFormed(fm)
  PROVE  JumpsInside(resolve(fm))
PROOF
  <1> DEFINE n == Len(fm.code)
             code == resolve(fm)
             the(i) == CHOOSE p \in fm.pending : p.at = i
  <1>1. EmitterOK(fm) /\ fm.labels = em.labels /\ n = Here(em) /\ n \in Nat
    BY AddStraight, Adding DEF Straight, JumpOps, Here
  <1>2. DOMAIN fm.code = 1 .. n
    BY <1>1, SeqFacts DEF EmitterOK
  <1>3. DOMAIN code = 1 .. n
    BY <1>2 DEF resolve
  <1>4. ASSUME NEW i \in 1 .. n, code[i].op \in JumpOps
        PROVE  i + 1 + code[i].b \in 1 .. n
    <2>1. Plain(fm.code[i])
      BY <1>1 DEF EmitterOK
    <2>2. code[i].op = fm.code[i].op
      BY <1>2, <2>1 DEF resolve, Plain
    <2>3. the(i) \in fm.pending /\ the(i).at = i
      BY <1>1, <1>4, <2>2 DEF EmitterOK
    <2>4. code[i] = [fm.code[i] EXCEPT !.b = Offset(fm, the(i))]
      BY <1>2, <2>3 DEF resolve
    <2> HIDE DEF the, code
    <2>5. code[i].b = Offset(fm, the(i))
      BY <2>1, <2>4 DEF Plain
    <2>6. fm.labels[the(i).label] \in 1 .. n
      BY <1>1, <2>3 DEF WellFormed, EmitterOK
    <2> QED BY <2>3, <2>5, <2>6 DEF Offset
  <1> QED BY <1>3, <1>4 DEF JumpsInside
-----------------------------------------------------------------------------
(* How the stack of constructs changes.                                    *)
Save(o, s) == Replace(o, [back(o) EXCEPT !.body.list = Append(@, s)])

LEMMA Saving ==
  ASSUME NEW o, NEW x, StackOK(o, x), Len(o) > 0, NEW s
  PROVE  Extends(o, Save(o, s), Len(o)) /\ Len(Save(o, s)) = Len(o)
PROOF
  <1> DEFINE n == Len(o)
             c == o[n]
             d == [c EXCEPT !.body.list = Append(@, s)]
  <1>1. IsSeq(o) /\ n \in Nat /\ n > 0 /\ n \in 1 .. n
    BY SeqFacts DEF StackOK
  <1>2. Shape(c)
    BY <1>1 DEF StackOK
  <1>3. d = [c EXCEPT !.body = [c.body EXCEPT !.list = Append(@, s)]]
    BY <1>2 DEF Shape
  <1>4. d = [kind |-> c.kind, name |-> c.name, l1 |-> c.l1, l2 |-> c.l2, e |-> c.e,
             at |-> c.at, inc |-> c.inc, incAt |-> c.incAt, first |-> c.first,
             body |-> [c.body EXCEPT !.list = Append(@, s)]]
    <2> DEFINE b == [c.body EXCEPT !.list = Append(@, s)]
    <2>1. d = [[kind |-> c.kind, name |-> c.name, l1 |-> c.l1, l2 |-> c.l2, e |-> c.e,
                at |-> c.at, inc |-> c.inc, incAt |-> c.incAt, first |-> c.first,
                body |-> c.body] EXCEPT !.body = b]
      BY <1>2, <1>3, Zenon DEF Shape
    <2> HIDE DEF b, c, d
    <2> QED BY <2>1 DEF b
  <1>5. [c.body EXCEPT !.list = Append(@, s)]
          = [braced |-> c.body.braced, list |-> Append(c.body.list, s)]
    BY <1>2, SMTT(30) DEF Shape
  <1>6. Save(o, s) = Replace(o, d)
    BY DEF Save, back
  <1> HIDE DEF d
  <1>7. Like(c, d)
    BY <1>2, <1>4, <1>5 DEF Like, Shape
  <1>8. /\ IsSeq(Replace(o, d)) /\ Len(Replace(o, d)) = n
        /\ Replace(o, d)[n] = d
        /\ \A j \in 1 .. n - 1 : Replace(o, d)[j] = o[j]
    BY <1>1, ReplaceFacts
  <1>9. \A j : Like(o[j], o[j])
    BY DEF Like
  <1>10. ASSUME NEW j \in 1 .. n
         PROVE  Like(o[j], Replace(o, d)[j])
    BY <1>1, <1>7, <1>8, <1>9
  <1> QED BY <1>1, <1>6, <1>8, <1>10 DEF Extends, Alike

LEMMA Pushing ==
  ASSUME NEW o, IsSeq(o), NEW c
  PROVE  LET p == Append(o, c) IN
         /\ Extends(o, p, Len(o)) /\ Len(p) = Len(o) + 1 /\ p[Len(o) + 1] = c
PROOF
  <1>1. Len(o) \in Nat
    BY SeqFacts
  <1>2. \A j : Like(o[j], o[j])
    BY DEF Like
  <1> QED BY <1>1, <1>2, AppendFacts DEF Extends, Alike

LEMMA Swapping ==
  ASSUME NEW o, IsSeq(o), Len(o) > 0, NEW c, NEW p,
         p \in {Replace(o, c), Append(ButBack(o), c)}
  PROVE  /\ Extends(o, p, Len(o) - 1) /\ Len(p) = Len(o) /\ p[Len(o)] = c
PROOF
  <1> DEFINE n == Len(o)
  <1>1. n \in Nat /\ n > 0 /\ n - 1 + 1 = n
    BY SeqFacts
  <1>2. \A j : Like(o[j], o[j])
    BY DEF Like
  <1>3. IsSeq(p) /\ Len(p) = n /\ p[n] = c /\ \A j \in 1 .. n - 1 : p[j] = o[j]
    <2>1. CASE p = Replace(o, c)
      BY <2>1, ReplaceFacts
    <2>2. CASE p = Append(ButBack(o), c)
      <3>1. /\ IsSeq(ButBack(o)) /\ Len(ButBack(o)) = n - 1
            /\ \A j \in 1 .. n - 1 : ButBack(o)[j] = o[j]
        BY ButBackFacts
      <3> DEFINE r == ButBack(o)
      <3> HIDE DEF r
      <3>2. /\ IsSeq(Append(r, c)) /\ Len(Append(r, c)) = Len(r) + 1
            /\ Append(r, c)[Len(r) + 1] = c
            /\ \A j \in 1 .. Len(r) : Append(r, c)[j] = r[j]
        BY <3>1, AppendFacts DEF r
      <3> QED BY <1>1, <2>2, <3>1, <3>2 DEF r
    <2> QED BY <2>1, <2>2
  <1> QED BY <1>1, <1>2, <1>3 DEF Extends, Alike

LEMMA Popping ==
  ASSUME NEW o, NEW x, StackOK(o, x), Len(o) > 1, NEW s
  PROVE  LET p == Save(ButBack(o), s) IN
         Extends(o, p, Len(o) - 1) /\ Len(p) = Len(o) - 1
PROOF
  <1> DEFINE n == Len(o) - 1
             r == ButBack(o)
             p == Save(r, s)
  <1>1. IsSeq(o) /\ Len(o) \in Nat /\ n \in Nat /\ n > 0
    BY SeqFacts DEF StackOK
  <1>2. IsSeq(r) /\ Len(r) = n /\ \A j \in 1 .. n : r[j] = o[j]
    BY <1>1, ButBackFacts
  <1>3. StackOK(r, "block")
    BY <1>1, <1>2 DEF StackOK, Expectations
  <1>4. Extends(r, p, n) /\ Len(p) = n
    BY <1>1, <1>2, <1>3, Saving
  <1> QED BY <1>1, <1>2, <1>4 DEF Extends, Alike

-----------------------------------------------------------------------------
(* The label that a construct still has to place.                          *)
Owing(o, x, j, l) ==
  \/ o[j].kind = "then" /\ l = o[j].l1
  \/ o[j].kind = "else" /\ l = o[j].l2
  \/ j \in Headed(o, x) /\ l = o[j].l2

Owed(o, x, l) == \E j \in 1 .. Len(o) : Owing(o, x, j, l)

LEMMA OwedNext ==
  ASSUME NEW o, NEW x, NEW p, NEW y, NEW n, Extends(o, p, n), IsSeq(o),
         \A j \in 1 .. n : j \in Headed(o, x) => j \in Headed(p, y),
         NEW l, Owed(o, x, l), \A j \in 1 .. Len(o) : Owing(o, x, j, l) => j \in 1 .. n
  PROVE  Owed(p, y, l)
PROOF
  <1>1. PICK j \in 1 .. n : Owing(o, x, j, l)
    BY DEF Owed
  <1>2. Like(o[j], p[j])
    BY DEF Extends, Alike
  <1>3. j \in 1 .. Len(p)
    BY SeqFacts DEF Extends
  <1>4. Owing(p, y, j, l)
    BY <1>1, <1>2 DEF Owing, Like
  <1> QED BY <1>3, <1>4 DEF Owed

(* The last construct stays, perhaps with one more statement; y is what    *)
(* comes next.                                                             *)
LEMMA Keeps ==
  ASSUME NEW o, NEW x, StackOK(o, x), NEW p, Extends(o, p, Len(o)), Len(p) = Len(o),
         Len(o) > 0, NEW levels, DepthOK(o, x, levels),
         NEW y \in Expectations \ {"function"}, x # "else",
         x \in {"init", "header"} <=> y \in {"init", "header"},
         y = "else" => o[Len(o)].kind = "then"
  PROVE  /\ StackOK(p, y) /\ Headed(p, y) = Headed(o, x)
         /\ \A l : Owed(o, x, l) => Owed(p, y, l)
         /\ DepthOK(p, y, levels - Closed(p, y))
PROOF
  <1> DEFINE n == Len(o)
  <1>1. n \in Nat /\ n > 0 /\ n \in 1 .. n
    BY SeqFacts DEF StackOK
  <1>2. \A j \in 1 .. n : Like(o[j], p[j])
    BY DEF Extends, Alike
  <1>3. StackOK(p, y)
    BY <1>1, <1>2, StackNext DEF StackOK, Like
  <1>4. Headed(p, y) = Headed(o, x)
    BY <1>2 DEF Headed, Like
  <1>5. ASSUME NEW l, Owed(o, x, l)
        PROVE  Owed(p, y, l)
    BY <1>4, <1>5, OwedNext DEF StackOK
  <1>6. DepthOK(p, y, levels - Closed(p, y))
    <2>1. IsSeq(o) /\ Extends(o, p, n) /\ n > 0 /\ Len(o) \in {n, n + 1}
      BY <1>1 DEF StackOK
    <2>2. DepthOK(p, y, levels + Closed(o, x) - Tip(o, n) + Tip(p, n) - Closed(p, y))
      BY <2>1, DepthMoves
    <2>3. Closed(o, x) = 0 /\ Tip(o, n) = 0 /\ Tip(p, n) = 0
      BY <1>1 DEF Closed, Tip
    <2>4. levels \in Int /\ Closed(p, y) \in Int
      BY DepthFacts DEF Closed
    <2>5. levels + Closed(o, x) - Tip(o, n) + Tip(p, n) - Closed(p, y)
            = levels - Closed(p, y)
      BY <2>3, <2>4
    <2> QED BY <2>2, <2>5
  <1> QED BY <1>3, <1>4, <1>5, <1>6

(* A construct begins inside a function.                                   *)
LEMMA Pushes ==
  ASSUME NEW o, NEW x, StackOK(o, x), NEW p, Extends(o, p, Len(o)),
         Len(p) = Len(o) + 1, Len(o) > 0, Shape(p[Len(p)]), p[Len(p)].kind # "function",
         NEW levels, DepthOK(o, x, levels), x \in {"block", "statement"},
         NEW y \in {"block", "statement", "init"}, y = "init" => p[Len(p)].kind = "for"
  PROVE  /\ StackOK(p, y)
         /\ Headed(p, y) = Headed(o, x) \cup
              (IF p[Len(p)].kind \in {"while", "for"} /\ y # "init" THEN {Len(p)} ELSE {})
         /\ \A l : Owed(o, x, l) => Owed(p, y, l)
         /\ DepthOK(p, y, levels + Opens(p[Len(p)]))
PROOF
  <1> DEFINE n == Len(o)
  <1>1. n \in Nat /\ n > 0 /\ Len(p) = n + 1
    BY SeqFacts DEF StackOK
  <1>2. \A j \in 1 .. n : Like(o[j], p[j])
    BY DEF Extends, Alike
  <1>3. StackOK(p, y)
    <2>1. y \in Expectations /\ y # "function" /\ y # "else" /\ Len(p) # 0
          /\ y \notin {"init", "header"} \ {"init"}
      BY <1>1 DEF Expectations
    <2>2. Shape(p[n + 1]) /\ p[n + 1].kind # "function" /\ n # 0
      BY <1>1
    <2> QED BY <2>1, <2>2, StackNext
  <1>4. Headed(p, y) = Headed(o, x) \cup
              (IF p[Len(p)].kind \in {"while", "for"} /\ y # "init" THEN {Len(p)} ELSE {})
    <2>1. \A j \in 1 .. n : j \in Headed(p, y) <=> j \in Headed(o, x)
      BY <1>1, <1>2 DEF Headed, Like
    <2>2. n + 1 \in Headed(p, y)
            <=> p[Len(p)].kind \in {"while", "for"} /\ y # "init"
      BY <1>1 DEF Headed
    <2>3. Headed(p, y) \subseteq 1 .. n + 1 /\ Headed(o, x) \subseteq 1 .. n
      BY <1>1 DEF Headed
    <2>4. \A j \in 1 .. n + 1 : j \in 1 .. n \/ j = n + 1
      BY <1>1
    <2> QED BY <1>1, <2>1, <2>2, <2>3, <2>4
  <1>5. ASSUME NEW l, Owed(o, x, l)
        PROVE  Owed(p, y, l)
    BY <1>4, <1>5, OwedNext DEF StackOK
  <1>6. DepthOK(p, y, levels + Opens(p[Len(p)]))
    <2>1. IsSeq(o) /\ Extends(o, p, n) /\ n > 0 /\ Len(o) \in {n, n + 1}
      BY <1>1 DEF StackOK
    <2>2. DepthOK(p, y, levels + Closed(o, x) - Tip(o, n) + Tip(p, n) - Closed(p, y))
      BY <2>1, DepthMoves
    <2>3. Closed(o, x) = 0 /\ Closed(p, y) = 0 /\ Tip(o, n) = 0
          /\ Tip(p, n) = Opens(p[Len(p)])
      BY <1>1 DEF Closed, Tip
    <2>4. levels \in Int /\ Opens(p[Len(p)]) \in Int
      BY DepthFacts DEF Opens
    <2>5. levels + Closed(o, x) - Tip(o, n) + Tip(p, n) - Closed(p, y)
            = levels + Opens(p[Len(p)])
      BY <2>3, <2>4
    <2> QED BY <2>2, <2>5
  <1> QED BY <1>3, <1>4, <1>5, <1>6

(* A then becomes its else, and a for gets its header.                     *)
LEMMA Swaps ==
  ASSUME NEW o, NEW x, StackOK(o, x), NEW p, NEW N, N = Len(o), N > 0,
         Extends(o, p, N - 1), Len(p) = N, Shape(p[N]),
         NEW levels, DepthOK(o, x, levels), x \in {"else", "header"},
         p[N].kind = IF x = "else" THEN "else" ELSE "for",
         NEW y \in {"block", "statement"}
  PROVE  /\ StackOK(p, y)
         /\ Headed(p, y) = Headed(o, x) \cup (IF x = "header" THEN {N} ELSE {})
         /\ Headed(o, x) \subseteq 1 .. N - 1
         /\ \A l : Owed(o, x, l) => Owed(p, y, l) \/ (x = "else" /\ l = o[N].l1)
         /\ DepthOK(p, y, levels + (IF x = "else" THEN Opens(p[N]) ELSE 0))
PROOF
  <1>1. IsSeq(o) /\ N \in Nat /\ N \in 1 .. N /\ Shape(o[N])
    BY SeqFacts DEF StackOK
  <1>2. o[N].kind = IF x = "else" THEN "then" ELSE "for"
    BY DEF StackOK
  <1>3. N > 1 /\ N - 1 \in Nat /\ N - 1 > 0 /\ N - 1 + 1 = N
    <2>1. N # 1
      BY <1>1, <1>2 DEF StackOK
    <2> QED BY <1>1, <2>1
  <1>4. \A j \in 1 .. N - 1 : Like(o[j], p[j])
    BY DEF Extends, Alike
  <1>5. StackOK(p, y)
    <2>1. y \in Expectations /\ y \notin {"function", "else", "init", "header"}
      BY DEF Expectations
    <2>2. Shape(p[N - 1 + 1]) /\ p[N - 1 + 1].kind # "function" /\ N - 1 # 0 /\ Len(p) # 0
      BY <1>1, <1>3
    <2> QED BY <2>1, <2>2, StackNext
  <1>6. \A j : j \in 1 .. N <=> j \in 1 .. N - 1 \/ j = N
    BY <1>1
  <1>7. \A j \in 1 .. N - 1 : j # N /\ (j \in Headed(p, y) <=> j \in Headed(o, x))
    BY <1>1, <1>4, <1>6 DEF Headed, Like
  <1>8. N \notin Headed(o, x) /\ (N \in Headed(p, y) <=> x = "header")
    BY <1>1, <1>2 DEF Headed
  <1>9. Headed(p, y) \subseteq 1 .. N /\ Headed(o, x) \subseteq 1 .. N
    BY DEF Headed
  <1>10. /\ Headed(p, y) = Headed(o, x) \cup (IF x = "header" THEN {N} ELSE {})
         /\ Headed(o, x) \subseteq 1 .. N - 1
    BY <1>6, <1>7, <1>8, <1>9
  <1>11. ASSUME NEW l, Owed(o, x, l), ~(x = "else" /\ l = o[N].l1)
         PROVE  Owed(p, y, l)
    <2>1. ~Owing(o, x, N, l)
      BY <1>2, <1>8, <1>11 DEF Owing
    <2>2. \A j \in 1 .. Len(o) : Owing(o, x, j, l) => j \in 1 .. N - 1
      BY <1>6, <2>1
    <2>3. \A j \in 1 .. N - 1 : j \in Headed(o, x) => j \in Headed(p, y)
      BY <1>7
    <2> QED BY <1>1, <1>11, <2>2, <2>3, OwedNext
  <1>12. DepthOK(p, y, levels + (IF x = "else" THEN Opens(p[N]) ELSE 0))
    <2> DEFINE n == N - 1
    <2>1. Extends(o, p, n) /\ n > 0 /\ Len(o) \in {n, n + 1}
      BY <1>3
    <2>2. DepthOK(p, y, levels + Closed(o, x) - Tip(o, n) + Tip(p, n) - Closed(p, y))
      BY <1>1, <2>1, DepthMoves
    <2>3. Tip(o, n) = Opens(o[N]) /\ Tip(p, n) = Opens(p[N]) /\ Closed(p, y) = 0
      BY <1>3 DEF Tip, Closed
    <2>4. Closed(o, x) = (IF x = "else" THEN Opens(o[N]) ELSE 0)
      BY <1>1, <1>2 DEF Closed, Opens
    <2>5. x = "header" => Opens(o[N]) = 1 /\ Opens(p[N]) = 1
      BY <1>2 DEF Opens
    <2>6. levels \in Int /\ Opens(o[N]) \in Int /\ Opens(p[N]) \in Int
      BY DepthFacts DEF Opens
    <2>7. levels + Closed(o, x) - Tip(o, n) + Tip(p, n) - Closed(p, y)
            = levels + (IF x = "else" THEN Opens(p[N]) ELSE 0)
      BY <2>3, <2>4, <2>5, <2>6
    <2> QED BY <2>2, <2>7
  <1> QED BY <1>5, <1>10, <1>11, <1>12

(* The last construct is complete.                                         *)
Popped(o, x, p, y, N, levels) ==
  /\ StackOK(p, y)
  /\ Headed(o, x) = Headed(p, y) \cup
       (IF o[N].kind \in {"while", "for"} THEN {N} ELSE {})
  /\ Headed(p, y) \subseteq 1 .. N - 1
  /\ \A l : Owed(o, x, l) => Owed(p, y, l) \/ Owing(o, x, N, l)
  /\ DepthOK(p, y, levels + Closed(o, x) - Opens(o[N]))

LEMMA Pops ==
  ASSUME NEW o, NEW x, StackOK(o, x), NEW p, NEW N, N = Len(o), N > 1,
         Extends(o, p, N - 1), Len(p) = N - 1,
         NEW levels, DepthOK(o, x, levels), x \in {"block", "done", "else"},
         NEW y \in {"block", "done"}
  PROVE  Popped(o, x, p, y, N, levels)
PROOF
  <1>1. IsSeq(o) /\ N \in Nat /\ N \in 1 .. N
    BY SeqFacts DEF StackOK
  <1>3. N - 1 \in Nat /\ N - 1 > 0 /\ N - 1 + 1 = N
    BY <1>1
  <1>4. \A j \in 1 .. N - 1 : Like(o[j], p[j])
    BY DEF Extends, Alike
  <1>5. StackOK(p, y)
    <2>1. y \in Expectations /\ y \notin {"function", "else", "init", "header"}
      BY DEF Expectations
    <2>2. Len(p) # N - 1 + 1 /\ Len(p) # 0
      BY <1>1, <1>3
    <2> QED BY <2>1, <2>2, StackNext
  <1>6. \A j : j \in 1 .. N <=> j \in 1 .. N - 1 \/ j = N
    BY <1>1
  <1>7. \A j \in 1 .. N - 1 : j # N /\ (j \in Headed(p, y) <=> j \in Headed(o, x))
    BY <1>1, <1>4, <1>6 DEF Headed, Like
  <1>8. N \in Headed(o, x) <=> o[N].kind \in {"while", "for"}
    BY <1>1 DEF Headed
  <1>9. Headed(p, y) \subseteq 1 .. N - 1 /\ Headed(o, x) \subseteq 1 .. N
    BY DEF Headed
  <1>10. Headed(o, x) = Headed(p, y) \cup
           (IF o[N].kind \in {"while", "for"} THEN {N} ELSE {})
    BY <1>6, <1>7, <1>8, <1>9
  <1>11. ASSUME NEW l, Owed(o, x, l), ~Owing(o, x, N, l)
         PROVE  Owed(p, y, l)
    <2>2. \A j \in 1 .. Len(o) : Owing(o, x, j, l) => j \in 1 .. N - 1
      BY <1>6, <1>11
    <2>3. \A j \in 1 .. N - 1 : j \in Headed(o, x) => j \in Headed(p, y)
      BY <1>7
    <2> QED BY <1>1, <1>11, <2>2, <2>3, OwedNext
  <1>12. DepthOK(p, y, levels + Closed(o, x) - Opens(o[N]))
    <2> DEFINE n == N - 1
    <2>1. Extends(o, p, n) /\ n > 0 /\ Len(o) \in {n, n + 1}
      BY <1>3
    <2>2. DepthOK(p, y, levels + Closed(o, x) - Tip(o, n) + Tip(p, n) - Closed(p, y))
      BY <1>1, <2>1, DepthMoves
    <2>3. Tip(o, n) = Opens(o[N]) /\ Tip(p, n) = 0 /\ Closed(p, y) = 0
      BY <1>1, <1>3 DEF Tip, Closed
    <2>6. levels \in Int /\ Opens(o[N]) \in Int /\ Closed(o, x) \in Int
      BY DepthFacts DEF Opens, Closed
    <2>7. levels + Closed(o, x) - Tip(o, n) + Tip(p, n) - Closed(p, y)
            = levels + Closed(o, x) - Opens(o[N])
      BY <2>3, <2>6
    <2> QED BY <2>2, <2>7
  <1> QED BY <1>5, <1>9, <1>10, <1>11, <1>12 DEF Popped

-----------------------------------------------------------------------------
(* The jumps that wait for a label: it is placed already or owed by an     *)
(* open construct.  The end of a loop jumps back to a label that is placed.*)
PendingOK(em, o, x) ==
  \A q \in em.pending : q.label \in DOMAIN em.labels \/ Owed(o, x, q.label)

TargetsOK(em, o, x) == \A j \in Headed(o, x) : o[j].l1 \in DOMAIN em.labels

LEMMA PendingNext ==
  ASSUME NEW em, NEW o, NEW x, PendingOK(em, o, x), NEW fm, NEW p, NEW y,
         DOMAIN em.labels \subseteq DOMAIN fm.labels,
         \A l : Owed(o, x, l) => Owed(p, y, l) \/ l \in DOMAIN fm.labels,
         \A q \in fm.pending : \/ q \in em.pending
                              \/ Owed(p, y, q.label) \/ q.label \in DOMAIN fm.labels
  PROVE  PendingOK(fm, p, y)
BY DEF PendingOK

LEMMA TargetsNext ==
  ASSUME NEW em, NEW o, NEW x, TargetsOK(em, o, x), NEW fm, NEW p, NEW y, NEW n,
         Extends(o, p, n), DOMAIN em.labels \subseteq DOMAIN fm.labels,
         \A j \in Headed(p, y) : \/ j \in Headed(o, x) /\ j \in 1 .. n
                                 \/ p[j].l1 \in DOMAIN fm.labels
  PROVE  TargetsOK(fm, p, y)
BY DEF TargetsOK, Extends, Alike, Like

(* What break finds is the label of an open loop.                          *)
LEMMA BreakFinds ==
  ASSUME NEW o, NEW x, NEW ls, IsSeq(ls), LoopsOK(o, x, ls), ls # <<>>
  PROVE  Owed(o, x, back(ls).end)
PROOF
  <1>1. PICK m : Matches(o, x, ls, m)
    BY DEF LoopsOK
  <1>2. Len(ls) \in 1 .. Len(ls)
    BY SeqFacts
  <1>3. m[Len(ls)] \in Headed(o, x) /\ back(ls).end = o[m[Len(ls)]].l2
    BY <1>1, <1>2 DEF Matches, back
  <1> QED BY <1>3 DEF Owed, Owing, Headed

-----------------------------------------------------------------------------
(* The inductive invariant.  A parse that began with labels of loops that  *)
(* were never left (stale) may end a function whose jumps have no label.   *)
CInv ==
  /\ StackOK(open, expects)
  /\ ScopeOK(scope) /\ DepthOK(open, expects, Len(scope.levels))
  /\ EmitterOK(emitter) /\ TargetsOK(emitter, open, expects)
  /\ IsSeq(loops) /\ stale \in Nat
  /\ IsSeq(functions) /\ \A k \in DOMAIN functions : JumpsInside(functions[k].code)
  /\ stale = 0 => /\ PendingOK(emitter, open, expects)
                  /\ status = "parsing" => LoopsOK(open, expects, loops)
                  /\ status # "ill formed"

LEMMA InvFacts ==
  ASSUME CInv
  PROVE  /\ IsSeq(open) /\ Len(open) \in Nat
         /\ Len(scope.levels) \in Nat /\ Len(scope.levels) \in Int
         /\ expects # "function" => Len(open) > 0 /\ Len(scope.levels) >= 2
         /\ expects = "function" => open = <<>> /\ Len(scope.levels) = 1
PROOF
  <1>1. /\ IsSeq(open) /\ Len(open) \in Nat /\ (open = <<>> <=> Len(open) = 0)
        /\ Len(scope.levels) \in Nat
    BY SeqFacts DEF CInv, StackOK, ScopeOK, LevelsOK
  <1>2. expects = "function" <=> Len(open) = 0
    BY DEF CInv, StackOK
  <1>3. /\ Len(open) = 0 => Len(scope.levels) = 1
        /\ Len(open) > 0 /\ expects # "else" => Len(scope.levels) >= 2
        /\ expects = "else" => Len(scope.levels) >= 2
    BY DepthFacts DEF CInv
  <1> QED BY <1>1, <1>2, <1>3

(* Nothing is open.                                                        *)
LEMMA Outside ==
  /\ StackOK(<<>>, "function") /\ Headed(<<>>, "function") = {}
  /\ DepthOK(<<>>, "function", 1)
  /\ \A em : TargetsOK(em, <<>>, "function")
  /\ PendingOK(begin_func, <<>>, "function")
PROOF
  <1>1. Headed(<<>>, "function") = {}
    BY NoneIsSeq DEF Headed
  <1>2. DepthOK(<<>>, "function", 1)
    <2> DEFINE d == [k \in 0 .. 0 |-> 1]
    <2>1. d \in [0 .. 0 -> Nat] /\ d[0] = 1
      OBVIOUS
    <2>2. Len(<<>>) = 0 /\ 1 .. 0 = {}
      BY NoneIsSeq
    <2> HIDE DEF d
    <2>3. Depths(<<>>, d)
      BY <2>1, <2>2 DEF Depths
    <2>4. Closed(<<>>, "function") = 0 /\ 1 = d[Len(<<>>)] - 0
      BY <2>1, <2>2 DEF Closed
    <2> QED BY <2>3, <2>4 DEF DepthOK
  <1>3. begin_func.pending = {}
    BY DEF begin_func
  <1> QED BY <1>1, <1>2, <1>3, NoStack DEF TargetsOK, PendingOK

LEMMA Rejecting ==
  ASSUME CInv, NEW ls, IsSeq(ls), Rejects(ls), stale' = stale
  PROVE  CInv'
PROOF
  <1>1. /\ emitter' = begin_func /\ functions' = <<>> /\ scope' = VarManager
        /\ open' = <<>> /\ expects' = "function" /\ status' = "rejected" /\ loops' = ls
    BY DEF Rejects, Begin
  <1>2. DOMAIN <<>> = {}
    OBVIOUS
  <1> QED BY <1>1, <1>2, Outside, FreshScope, NoCode, NoneIsSeq DEF CInv

(* A statement is complete, in a construct that stays open.                *)
LEMMA Simples ==
  ASSUME CInv, NEW ok, NEW em, NEW s, NEW st, Simple(ok, em, s, st),
         ok => /\ ScopeOK(s) /\ Len(s.levels) = Len(scope.levels)
               /\ EmitterOK(em) /\ em.labels = emitter.labels
               /\ \A q \in em.pending : \/ q \in emitter.pending
                                        \/ stale = 0 => Owed(open, expects, q.label)
  PROVE  CInv'
PROOF
  <1>1. CASE ~ok
    BY <1>1, Rejecting DEF Simple, CInv
  <1>2. CASE ok
    <2> DEFINE p == Save(open, st)
               y == Left(back(open).body)
               n == Len(open)
    <2>1. /\ status = "parsing" /\ expects \in {"block", "statement"}
          /\ emitter' = em /\ scope' = s /\ open' = p /\ expects' = y
          /\ functions' = functions /\ loops' = loops /\ status' = status
          /\ stale' = stale
      BY <1>2 DEF Simple, Expecting, Complete, Save
    <2>2. n \in Nat /\ n > 0 /\ IsSeq(open) /\ Len(scope.levels) \in Int
      BY <2>1, InvFacts
    <2>3. Extends(open, p, n) /\ Len(p) = n
      BY <2>2, Saving DEF CInv
    <2>4. y \in {"block", "done"}
      BY DEF Left
    <2> HIDE DEF p, y, n
    <2>5. /\ y \in Expectations \ {"function"} /\ y # "else" /\ expects # "else"
          /\ expects \notin {"init", "header"} /\ y \notin {"init", "header"}
      BY <2>1, <2>4 DEF Expectations
    <2>6. /\ StackOK(p, y) /\ Headed(p, y) = Headed(open, expects)
          /\ \A l : Owed(open, expects, l) => Owed(p, y, l)
          /\ DepthOK(p, y, Len(scope.levels) - Closed(p, y))
      BY <2>2, <2>3, <2>5, Keeps DEF CInv, n
    <2>7. DepthOK(p, y, Len(s.levels))
      BY <1>2, <2>2, <2>5, <2>6 DEF Closed
    <2>8. Headed(p, y) \subseteq 1 .. n
      BY <2>3 DEF Headed
    <2>9. TargetsOK(em, p, y)
      BY <1>2, <2>3, <2>6, <2>8, TargetsNext DEF CInv
    <2>10. stale = 0 => PendingOK(em, p, y)
      BY <1>2, <2>6, PendingNext DEF CInv
    <2>11. stale = 0 => LoopsOK(p, y, loops)
      BY <2>1, <2>3, <2>6, <2>8, LoopsSame DEF CInv
    <2> QED BY <1>2, <2>1, <2>6, <2>7, <2>9, <2>10, <2>11 DEF CInv
  <1> QED BY <1>1, <1>2

LEMMA AssigningScope ==
  ASSUME NEW s, ScopeOK(s), Len(s.levels) >= 2, NEW i
  PROVE  ScopeOK(AssignScope(s, i)) /\ Len(AssignScope(s, i).levels) = Len(s.levels)
BY PushVar DEF AssignScope

LEMMA AssignKeeps ==
  ASSUME CInv, Assign
  PROVE  CInv'
PROOF
  <1>1. PICK a \in Assignments :
          LET i == [a EXCEPT !.e = Expr(@)] IN
          Simple(Assignable(scope, i), push_assign(emitter, scope, i),
                 AssignScope(scope, i), Statement("assign", ResolvedAssign(scope, i)))
    BY DEF Assign
  <1> DEFINE i == [a EXCEPT !.e = Expr(@)]
  <1> HIDE DEF i
  <1>3. Len(scope.levels) >= 2
    BY <1>1, InvFacts DEF Simple, Expecting, i
  <1>4. Straight(emitter, push_assign(emitter, scope, i))
    <2>1. EmitterOK(emitter)
      BY DEF CInv
    <2> QED BY <2>1, AssignStraight
  <1>5. /\ ScopeOK(AssignScope(scope, i))
        /\ Len(AssignScope(scope, i).levels) = Len(scope.levels)
    BY <1>3, AssigningScope DEF CInv
  <1>6. Simple(Assignable(scope, i), push_assign(emitter, scope, i),
               AssignScope(scope, i), Statement("assign", ResolvedAssign(scope, i)))
    BY <1>1 DEF i
  <1> QED BY <1>4, <1>5, <1>6, Simples DEF Straight

LEMMA CallKeeps ==
  ASSUME CInv, Call
  PROVE  CInv'
PROOF
  <1> DEFINE r == sp(scope)
             called(e) == add(eval_into(emitter, scope, r + 1, e), "NATIVE", 0, r + 1, 0)
  <1>1. PICK e : Simple(Known(scope, e), emit_move(called(e), r, r + 1), scope,
                        Statement("call", Resolved(scope, e)))
    BY DEF Call
  <1> DEFINE em == eval_into(emitter, scope, r + 1, e)
  <1>2. Straight(emitter, em)
    <2>1. EmitterOK(emitter)
      BY DEF CInv
    <2> QED BY <2>1, EvalStraight
  <1> HIDE DEF em
  <1>3. Straight(em, add(em, "NATIVE", 0, r + 1, 0))
    BY <1>2, AddStraight DEF Straight, JumpOps
  <1>4. Straight(emitter, called(e))
    BY <1>2, <1>3, StraightTwice DEF em
  <1> HIDE DEF called
  <1>5. Straight(called(e), emit_move(called(e), r, r + 1))
    BY <1>4, MoveStraight DEF Straight
  <1>6. Straight(emitter, emit_move(called(e), r, r + 1))
    BY <1>4, <1>5, StraightTwice
  <1> HIDE DEF r
  <1> QED BY <1>1, <1>6, Simples DEF Straight, CInv

LEMMA ReturnKeeps ==
  ASSUME CInv, parse_return
  PROVE  CInv'
PROOF
  <1> DEFINE em(e) == epush(emitter, scope, e)
             fm(e) == add(em(e), "RETURN", sp(scope), 0, 0)
  <1>1. PICK e : Simple(Known(scope, e), fm(e), scope,
                        Statement("return", Resolved(scope, e)))
    BY DEF parse_return
  <1>2. Straight(emitter, em(e))
    <2>1. EmitterOK(emitter)
      BY DEF CInv
    <2> QED BY <2>1, EvalStraight
  <1> HIDE DEF em
  <1>3. Straight(em(e), fm(e))
    BY <1>2, AddStraight DEF Straight, JumpOps
  <1>4. Straight(emitter, fm(e))
    BY <1>2, <1>3, StraightTwice
  <1> HIDE DEF fm
  <1> QED BY <1>1, <1>4, Simples DEF Straight, CInv

LEMMA BreakKeeps ==
  ASSUME CInv, parse_break
  PROVE  CInv'
PROOF
  <1> DEFINE em == jump(emitter, "JMP", 0, break_label)
  <1>1. Simple(loops # <<>>, em, scope, Statement("break", <<>>))
    BY DEF parse_break
  <1>2. /\ EmitterOK(em) /\ em.labels = emitter.labels
        /\ em.pending = emitter.pending \cup {[at |-> Here(emitter), label |-> break_label]}
    <2>1. EmitterOK(emitter)
      BY DEF CInv
    <2> QED BY <2>1, Jumping
  <1>3. ASSUME stale = 0, loops # <<>>
        PROVE  Owed(open, expects, break_label)
    BY <1>1, <1>3, BreakFinds DEF CInv, break_label, Simple, Expecting
  <1>4. [at |-> Here(emitter), label |-> break_label].label = break_label
    OBVIOUS
  <1> HIDE DEF em
  <1>5. loops # <<>> =>
          \A q \in em.pending : \/ q \in emitter.pending
                                \/ stale = 0 => Owed(open, expects, q.label)
    BY <1>2, <1>3, <1>4
  <1> QED BY <1>1, <1>2, <1>5, Simples DEF CInv

(* A construct begins: its jumps wait for the label it owes.               *)
LEMMA Begins ==
  ASSUME CInv, NEW c, Shape(c), c.kind # "function",
         status = "parsing", expects \in {"block", "statement"},
         open' = Append(open, c), expects' \in {"block", "statement", "init"},
         expects' = "init" => c.kind = "for",
         ScopeOK(scope'), Len(scope'.levels) = Len(scope.levels) + Opens(c),
         EmitterOK(emitter'), DOMAIN emitter.labels \subseteq DOMAIN emitter'.labels,
         \A q \in emitter'.pending :
           \/ q \in emitter.pending
           \/ c.kind = "then" /\ q.label = c.l1
           \/ c.kind = "while" /\ q.label = c.l2,
         c.kind = "while" => c.l1 \in DOMAIN emitter'.labels,
         c.kind = "for" => expects' = "init",
         IF c.kind = "while" THEN \E l : l.end = c.l2 /\ loops' = Append(loops, l)
                             ELSE loops' = loops,
         functions' = functions, status' = status, stale' = stale
  PROVE  CInv'
PROOF
  <1> DEFINE p == open'
             y == expects'
             n == Len(open)
  <1>1. n \in Nat /\ n > 0 /\ IsSeq(open) /\ Len(scope.levels) \in Int
    BY InvFacts
  <1>2. Extends(open, p, n) /\ Len(p) = n + 1 /\ p[n + 1] = c
    BY <1>1, Pushing
  <1> HIDE DEF p, y, n
  <1>3. Len(p) = Len(open) + 1 /\ Len(open) > 0 /\ Extends(open, p, Len(open))
        /\ p[Len(p)] = c /\ Len(p) = n + 1
    BY <1>1, <1>2 DEF n
  <1>4. /\ StackOK(open, expects) /\ DepthOK(open, expects, Len(scope.levels))
        /\ y \in {"block", "statement", "init"} /\ (y = "init" => p[Len(p)].kind = "for")
        /\ Shape(p[Len(p)]) /\ p[Len(p)].kind # "function"
    BY <1>3 DEF CInv, y
  <1>5. /\ StackOK(p, y)
        /\ Headed(p, y) = Headed(open, expects) \cup
             (IF p[Len(p)].kind \in {"while", "for"} /\ y # "init" THEN {Len(p)} ELSE {})
        /\ \A l : Owed(open, expects, l) => Owed(p, y, l)
        /\ DepthOK(p, y, Len(scope.levels) + Opens(p[Len(p)]))
    BY <1>3, <1>4, Pushes
  <1>6. Headed(p, y) = Headed(open, expects) \cup
             (IF c.kind = "while" THEN {n + 1} ELSE {})
    <2>1. c.kind \in {"while", "for"} /\ y # "init" <=> c.kind = "while"
      BY DEF y
    <2> QED BY <1>3, <1>5, <2>1
  <1>7. Headed(open, expects) \subseteq 1 .. n
    BY DEF Headed, n
  <1>8. TargetsOK(emitter', p, y)
    <2>1. TargetsOK(emitter, open, expects)
      BY DEF CInv
    <2>2. \A j \in Headed(p, y) : \/ j \in Headed(open, expects) /\ j \in 1 .. n
                                  \/ p[j].l1 \in DOMAIN emitter'.labels
      BY <1>2, <1>6, <1>7
    <2> QED BY <1>2, <2>1, <2>2, TargetsNext
  <1>9. ASSUME stale = 0
        PROVE  PendingOK(emitter', p, y) /\ LoopsOK(p, y, loops')
    <2>1. PendingOK(emitter, open, expects) /\ LoopsOK(open, expects, loops)
          /\ IsSeq(loops)
      BY <1>9 DEF CInv
    <2>2. \A l : (\/ c.kind = "then" /\ l = c.l1
                  \/ c.kind = "while" /\ l = c.l2) => Owed(p, y, l)
      <3>1. n + 1 \in 1 .. Len(p)
        BY <1>1, <1>3
      <3>2. c.kind = "while" => n + 1 \in Headed(p, y)
        BY <1>6
      <3> QED BY <1>2, <3>1, <3>2 DEF Owed, Owing
    <2>3. PendingOK(emitter', p, y)
      <3>1. \A q \in emitter'.pending : q \in emitter.pending \/ Owed(p, y, q.label)
        BY <2>2
      <3> QED BY <1>5, <2>1, <3>1 DEF PendingOK
    <2>4. CASE c.kind = "while"
      <3>1. PICK l : l.end = c.l2 /\ loops' = Append(loops, l)
        BY <2>4
      <3>2. Headed(p, y) = Headed(open, expects) \cup {n + 1} /\ l.end = p[n + 1].l2
        BY <1>2, <1>6, <2>4, <3>1
      <3>3. LoopsOK(p, y, Append(loops, l))
        BY <1>2, <1>7, <2>1, <3>2, LoopsPush
      <3> QED BY <2>3, <3>1, <3>3
    <2>5. CASE c.kind # "while"
      <3>1. Headed(p, y) = Headed(open, expects) /\ loops' = loops
        BY <1>6, <2>5
      <3>2. LoopsOK(p, y, loops)
        BY <1>2, <1>7, <2>1, <3>1, LoopsSame
      <3> QED BY <2>3, <3>1, <3>2
    <2> QED BY <2>4, <2>5
  <1>10. IsSeq(loops')
    <2>1. IsSeq(loops)
      BY DEF CInv
    <2>2. \A l : IsSeq(Append(loops, l))
      BY <2>1, AppendFacts
    <2>3. loops' = loops \/ \E l : loops' = Append(loops, l)
      OBVIOUS
    <2> QED BY <2>1, <2>2, <2>3
  <1>11. DepthOK(p, y, Len(scope'.levels))
    BY <1>3, <1>5
  <1> QED BY <1>5, <1>8, <1>9, <1>10, <1>11 DEF CInv, p, y

LEMMA OpenBody ==
  ASSUME NEW s, ScopeOK(s), NEW braced
  PROVE  /\ ScopeOK(open_body(s, braced))
         /\ Len(open_body(s, braced).levels)
              = Len(s.levels) + (IF braced THEN 1 ELSE 0)
PROOF
  <1>1. Len(s.levels) \in Nat
    BY SeqFacts DEF ScopeOK, LevelsOK
  <1>2. CASE braced
    BY <1>1, <1>2, NewScope DEF open_body
  <1>3. CASE ~braced
    BY <1>1, <1>3 DEF open_body
  <1> QED BY <1>2, <1>3

LEMMA CloseBody ==
  ASSUME NEW s, ScopeOK(s), NEW braced, Len(s.levels) >= 2
  PROVE  /\ ScopeOK(close_body(s, braced))
         /\ Len(close_body(s, braced).levels)
              = Len(s.levels) - (IF braced THEN 1 ELSE 0)
PROOF
  <1>1. Len(s.levels) \in Nat
    BY SeqFacts DEF ScopeOK, LevelsOK
  <1> QED BY <1>1, CloseScope DEF close_body

(* The constructs that the actions build.                                  *)
LEMMA ConstructShape ==
  ASSUME NEW kind \in {"function", "then", "else", "while", "for"}, NEW name
  PROVE  Shape(Construct(kind, name)) /\ Construct(kind, name).kind = kind
PROOF
  <1> DEFINE b == Block(TRUE)
             f == Block(FALSE)
             e == Lit(0)
             c == Construct(kind, name)
  <1>1. b = [braced |-> b.braced, list |-> b.list]
    BY DEF Block
  <1>2. c = [kind |-> kind, name |-> name, l1 |-> 0, l2 |-> 0, e |-> e, at |-> e,
             inc |-> <<>>, incAt |-> <<>>, first |-> f, body |-> b]
    BY DEF Construct
  <1> HIDE DEF b, f, e, c
  <1>3. /\ c.kind = kind /\ c.body = b
        /\ c = [kind |-> c.kind, name |-> c.name, l1 |-> c.l1, l2 |-> c.l2, e |-> c.e,
                at |-> c.at, inc |-> c.inc, incAt |-> c.incAt, first |-> c.first,
                body |-> c.body]
    BY <1>2
  <1>4. Shape(c)
    BY <1>1, <1>3 DEF Shape
  <1> QED BY <1>3, <1>4 DEF c

Then(c, l1, at, braced) ==
  [c EXCEPT !.l1 = l1, !.at = at, !.body = Block(braced)]

Else(c, l2, braced) ==
  [c EXCEPT !.kind = "else", !.l2 = l2, !.first = c.body, !.body = Block(braced)]

LoopHead(c, l1, l2, e, at, braced) ==
  [c EXCEPT !.l1 = l1, !.l2 = l2, !.e = e, !.at = at, !.body = Block(braced)]

Increasing(c, inc, incAt) == [c EXCEPT !.inc = inc, !.incAt = incAt]

Begun(c, list) == [c EXCEPT !.first.list = list]

Taking(c, params) == [c EXCEPT !.inc = params]

LEMMA ThenShape ==
  ASSUME NEW c, Shape(c), NEW l1, NEW at, NEW braced
  PROVE  LET d == Then(c, l1, at, braced) IN
         Shape(d) /\ d.kind = c.kind /\ d.l1 = l1 /\ d.l2 = c.l2 /\ d.body.braced = braced
PROOF
  <1> DEFINE b == Block(braced)
             d == Then(c, l1, at, braced)
             r == [kind |-> c.kind, name |-> c.name, l1 |-> c.l1, l2 |-> c.l2,
                   e |-> c.e, at |-> c.at, inc |-> c.inc, incAt |-> c.incAt,
                   first |-> c.first, body |-> c.body]
  <1>1. b = [braced |-> b.braced, list |-> b.list] /\ b.braced = braced
    BY DEF Block
  <1>2. c = r /\ c.kind \in {"function", "then", "else", "while", "for"}
    BY DEF Shape
  <1>3. d = [c EXCEPT !.l1 = l1, !.at = at, !.body = b]
    BY DEF Then
  <1> HIDE DEF b, d, r
  <1>4. d = [r EXCEPT !.l1 = l1, !.at = at, !.body = b]
    BY <1>2, <1>3, Zenon
  <1>5. d = [kind |-> c.kind, name |-> c.name, l1 |-> l1, l2 |-> c.l2,
             e |-> c.e, at |-> at, inc |-> c.inc, incAt |-> c.incAt,
             first |-> c.first, body |-> b]
    BY <1>4 DEF r
  <1>6. /\ d.kind = c.kind /\ d.l1 = l1 /\ d.l2 = c.l2 /\ d.body = b
        /\ d = [kind |-> d.kind, name |-> d.name, l1 |-> d.l1, l2 |-> d.l2, e |-> d.e,
                at |-> d.at, inc |-> d.inc, incAt |-> d.incAt, first |-> d.first,
                body |-> d.body]
    BY <1>5
  <1>7. Shape(d)
    BY <1>1, <1>2, <1>6 DEF Shape
  <1> QED BY <1>1, <1>6, <1>7 DEF d

LEMMA ElseShape ==
  ASSUME NEW c, Shape(c), NEW l2, NEW braced
  PROVE  LET d == Else(c, l2, braced) IN
         Shape(d) /\ d.kind = "else" /\ d.l1 = c.l1 /\ d.l2 = l2 /\ d.body.braced = braced
PROOF
  <1> DEFINE b == Block(braced)
             d == Else(c, l2, braced)
             r == [kind |-> c.kind, name |-> c.name, l1 |-> c.l1, l2 |-> c.l2,
                   e |-> c.e, at |-> c.at, inc |-> c.inc, incAt |-> c.incAt,
                   first |-> c.first, body |-> c.body]
  <1>1. b = [braced |-> b.braced, list |-> b.list] /\ b.braced = braced
    BY DEF Block
  <1>2. c = r /\ c.kind \in {"function", "then", "else", "while", "for"}
    BY DEF Shape
  <1>3. d = [c EXCEPT !.kind = "else", !.l2 = l2, !.first = c.body, !.body = b]
    BY DEF Else
  <1> HIDE DEF b, d, r
  <1>4. d = [r EXCEPT !.kind = "else", !.l2 = l2, !.first = c.body, !.body = b]
    BY <1>2, <1>3, Zenon
  <1>5. d = [kind |-> "else", name |-> c.name, l1 |-> c.l1, l2 |-> l2,
             e |-> c.e, at |-> c.at, inc |-> c.inc, incAt |-> c.incAt,
             first |-> c.body, body |-> b]
    BY <1>4 DEF r
  <1>6. /\ d.kind = "else" /\ d.l1 = c.l1 /\ d.l2 = l2 /\ d.body = b
        /\ d = [kind |-> d.kind, name |-> d.name, l1 |-> d.l1, l2 |-> d.l2, e |-> d.e,
                at |-> d.at, inc |-> d.inc, incAt |-> d.incAt, first |-> d.first,
                body |-> d.body]
    BY <1>5
  <1>7. Shape(d)
    BY <1>1, <1>2, <1>6 DEF Shape
  <1> QED BY <1>1, <1>6, <1>7 DEF d

LEMMA HeadShape ==
  ASSUME NEW c, Shape(c), NEW l1, NEW l2, NEW e, NEW at, NEW braced
  PROVE  LET d == LoopHead(c, l1, l2, e, at, braced) IN
         Shape(d) /\ d.kind = c.kind /\ d.l1 = l1 /\ d.l2 = l2 /\ d.body.braced = braced
PROOF
  <1> DEFINE b == Block(braced)
             d == LoopHead(c, l1, l2, e, at, braced)
             r == [kind |-> c.kind, name |-> c.name, l1 |-> c.l1, l2 |-> c.l2,
                   e |-> c.e, at |-> c.at, inc |-> c.inc, incAt |-> c.incAt,
                   first |-> c.first, body |-> c.body]
  <1>1. b = [braced |-> b.braced, list |-> b.list] /\ b.braced = braced
    BY DEF Block
  <1>2. c = r /\ c.kind \in {"function", "then", "else", "while", "for"}
    BY DEF Shape
  <1>3. d = [c EXCEPT !.l1 = l1, !.l2 = l2, !.e = e, !.at = at, !.body = b]
    BY DEF LoopHead
  <1> HIDE DEF b, d, r
  <1>4. d = [r EXCEPT !.l1 = l1, !.l2 = l2, !.e = e, !.at = at, !.body = b]
    BY <1>2, <1>3, Zenon
  <1>5. d = [kind |-> c.kind, name |-> c.name, l1 |-> l1, l2 |-> l2,
             e |-> e, at |-> at, inc |-> c.inc, incAt |-> c.incAt,
             first |-> c.first, body |-> b]
    BY <1>4 DEF r
  <1>6. /\ d.kind = c.kind /\ d.l1 = l1 /\ d.l2 = l2 /\ d.body = b
        /\ d = [kind |-> d.kind, name |-> d.name, l1 |-> d.l1, l2 |-> d.l2, e |-> d.e,
                at |-> d.at, inc |-> d.inc, incAt |-> d.incAt, first |-> d.first,
                body |-> d.body]
    BY <1>5
  <1>7. Shape(d)
    BY <1>1, <1>2, <1>6 DEF Shape
  <1> QED BY <1>1, <1>6, <1>7 DEF d

LEMMA IncreasingLike ==
  ASSUME NEW c, Shape(c), NEW inc, NEW incAt
  PROVE  Like(c, Increasing(c, inc, incAt))
PROOF
  <1> DEFINE b == c.body
             d == Increasing(c, inc, incAt)
             r == [kind |-> c.kind, name |-> c.name, l1 |-> c.l1, l2 |-> c.l2,
                   e |-> c.e, at |-> c.at, inc |-> c.inc, incAt |-> c.incAt,
                   first |-> c.first, body |-> c.body]
  <1>1. b = [braced |-> b.braced, list |-> b.list]
    BY DEF Shape
  <1>2. c = r /\ c.kind \in {"function", "then", "else", "while", "for"}
    BY DEF Shape
  <1>3. d = [c EXCEPT !.inc = inc, !.incAt = incAt]
    BY DEF Increasing
  <1> HIDE DEF b, d, r
  <1>4. d = [r EXCEPT !.inc = inc, !.incAt = incAt]
    BY <1>2, <1>3, Zenon
  <1>5. d = [kind |-> c.kind, name |-> c.name, l1 |-> c.l1, l2 |-> c.l2,
             e |-> c.e, at |-> c.at, inc |-> inc, incAt |-> incAt,
             first |-> c.first, body |-> c.body]
    BY <1>4 DEF r
  <1>6. /\ d.kind = c.kind /\ d.l1 = c.l1 /\ d.l2 = c.l2 /\ d.body = c.body
        /\ d = [kind |-> d.kind, name |-> d.name, l1 |-> d.l1, l2 |-> d.l2, e |-> d.e,
                at |-> d.at, inc |-> d.inc, incAt |-> d.incAt, first |-> d.first,
                body |-> d.body]
    BY <1>5
  <1>7. Shape(d)
    BY <1>1, <1>2, <1>6 DEF Shape, b
  <1> QED BY <1>1, <1>6, <1>7 DEF d, Like

LEMMA BegunLike ==
  ASSUME NEW c, Shape(c), NEW list
  PROVE  Like(c, Begun(c, list))
PROOF
  <1> DEFINE b == c.body
             d == Begun(c, list)
             r == [kind |-> c.kind, name |-> c.name, l1 |-> c.l1, l2 |-> c.l2,
                   e |-> c.e, at |-> c.at, inc |-> c.inc, incAt |-> c.incAt,
                   first |-> c.first, body |-> c.body]
  <1>1. b = [braced |-> b.braced, list |-> b.list]
    BY DEF Shape
  <1>2. c = r /\ c.kind \in {"function", "then", "else", "while", "for"}
    BY DEF Shape
  <1>3. d = [c EXCEPT !.first = [c.first EXCEPT !.list = list]]
    BY DEF Begun
  <1> HIDE DEF b, d, r
  <1>4. d = [r EXCEPT !.first = [c.first EXCEPT !.list = list]]
    BY <1>2, <1>3, Zenon
  <1>5. d = [kind |-> c.kind, name |-> c.name, l1 |-> c.l1, l2 |-> c.l2,
             e |-> c.e, at |-> c.at, inc |-> c.inc, incAt |-> c.incAt,
             first |-> [c.first EXCEPT !.list = list], body |-> c.body]
    BY <1>4 DEF r
  <1>6. /\ d.kind = c.kind /\ d.l1 = c.l1 /\ d.l2 = c.l2 /\ d.body = c.body
        /\ d = [kind |-> d.kind, name |-> d.name, l1 |-> d.l1, l2 |-> d.l2, e |-> d.e,
                at |-> d.at, inc |-> d.inc, incAt |-> d.incAt, first |-> d.first,
                body |-> d.body]
    BY <1>5
  <1>7. Shape(d)
    BY <1>1, <1>2, <1>6 DEF Shape, b
  <1> QED BY <1>1, <1>6, <1>7 DEF d, Like

LEMMA TakingLike ==
  ASSUME NEW c, Shape(c), NEW params
  PROVE  Like(c, Taking(c, params))
PROOF
  <1> DEFINE b == c.body
             d == Taking(c, params)
             r == [kind |-> c.kind, name |-> c.name, l1 |-> c.l1, l2 |-> c.l2,
                   e |-> c.e, at |-> c.at, inc |-> c.inc, incAt |-> c.incAt,
                   first |-> c.first, body |-> c.body]
  <1>1. b = [braced |-> b.braced, list |-> b.list]
    BY DEF Shape
  <1>2. c = r /\ c.kind \in {"function", "then", "else", "while", "for"}
    BY DEF Shape
  <1>3. d = [c EXCEPT !.inc = params]
    BY DEF Taking
  <1> HIDE DEF b, d, r
  <1>4. d = [r EXCEPT !.inc = params]
    BY <1>2, <1>3, Zenon
  <1>5. d = [kind |-> c.kind, name |-> c.name, l1 |-> c.l1, l2 |-> c.l2,
             e |-> c.e, at |-> c.at, inc |-> params, incAt |-> c.incAt,
             first |-> c.first, body |-> c.body]
    BY <1>4 DEF r
  <1>6. /\ d.kind = c.kind /\ d.l1 = c.l1 /\ d.l2 = c.l2 /\ d.body = c.body
        /\ d = [kind |-> d.kind, name |-> d.name, l1 |-> d.l1, l2 |-> d.l2, e |-> d.e,
                at |-> d.at, inc |-> d.inc, incAt |-> d.incAt, first |-> d.first,
                body |-> d.body]
    BY <1>5
  <1>7. Shape(d)
    BY <1>1, <1>2, <1>6 DEF Shape, b
  <1> QED BY <1>1, <1>6, <1>7 DEF d, Like

LEMMA IfKeeps ==
  ASSUME CInv, if_statement
  PROVE  CInv'
PROOF
  <1>1. PICK e \in {Expr(f) : f \in Exprs}, braced \in BOOLEAN :
          IF Known(scope, e)
          THEN /\ emitter' = jump(epush(emitter, scope, e), "JMPF", sp(scope), jmp_uid)
               /\ scope' = open_body(scope, braced)
               /\ open' = Append(open, [Construct("then", "") EXCEPT
                    !.l1 = jmp_uid, !.at = Resolved(scope, e), !.body = Block(braced)])
               /\ expects' = Entered(Block(braced))
               /\ UNCHANGED <<functions, loops, status>>
          ELSE Rejects(loops)
    BY DEF if_statement
  <1>2. status = "parsing" /\ expects \in {"block", "statement"} /\ stale' = stale
    BY DEF if_statement, Expecting
  <1>3. CASE ~Known(scope, e)
    BY <1>1, <1>2, <1>3, Rejecting DEF CInv
  <1>4. CASE Known(scope, e)
    <2> DEFINE d == Construct("then", "")
               c == Then(d, jmp_uid, Resolved(scope, e), braced)
               em == epush(emitter, scope, e)
    <2>2. /\ emitter' = jump(em, "JMPF", sp(scope), jmp_uid) /\ open' = Append(open, c)
          /\ scope' = open_body(scope, braced) /\ expects' = Entered(Block(braced))
          /\ functions' = functions /\ loops' = loops /\ status' = status
      <3>1. c = [Construct("then", "") EXCEPT
                   !.l1 = jmp_uid, !.at = Resolved(scope, e), !.body = Block(braced)]
        BY Zenon DEF Then
      <3> HIDE DEF c, em
      <3> QED BY <1>1, <1>4, <3>1, Zenon DEF em
    <2>3. Shape(c) /\ c.kind = "then" /\ c.l1 = jmp_uid /\ c.body.braced = braced
      <3>1. Shape(d) /\ d.kind = "then"
        BY ConstructShape
      <3> DEFINE at == Resolved(scope, e)
      <3> HIDE DEF d, at
      <3>2. LET f == Then(d, jmp_uid, at, braced) IN
            Shape(f) /\ f.kind = d.kind /\ f.l1 = jmp_uid /\ f.body.braced = braced
        BY <3>1, ThenShape
      <3> QED BY <3>1, <3>2 DEF at
    <2> HIDE DEF c
    <2>4. EmitterOK(em) /\ em.labels = emitter.labels /\ em.pending = emitter.pending
      <3>1. EmitterOK(emitter)
        BY DEF CInv
      <3>2. Straight(emitter, em)
        BY <3>1, EvalStraight
      <3> HIDE DEF em
      <3> QED BY <3>2 DEF Straight
    <2> HIDE DEF em
    <2>5. /\ EmitterOK(emitter') /\ emitter'.labels = emitter.labels
          /\ emitter'.pending
               = emitter.pending \cup {[at |-> Here(em), label |-> jmp_uid]}
      BY <2>2, <2>4, Jumping
    <2>6. [at |-> Here(em), label |-> jmp_uid].label = jmp_uid
      OBVIOUS
    <2>7. \A q \in emitter'.pending : q \in emitter.pending \/ q.label = c.l1
      BY <2>3, <2>5, <2>6
    <2>8. ScopeOK(scope') /\ Len(scope'.levels) = Len(scope.levels) + Opens(c)
      BY <2>2, <2>3, OpenBody DEF CInv, Opens
    <2>9. expects' \in {"block", "statement"}
      BY <2>2 DEF Entered
    <2> QED BY <1>2, <2>2, <2>3, <2>5, <2>7, <2>8, <2>9, Begins
  <1> QED BY <1>3, <1>4

LEMMA EndThenKeeps ==
  ASSUME CInv, end_then
  PROVE  CInv'
PROOF
  <1> DEFINE n == Len(open)
             c == open[n]
             braced == c.body.braced
  <1>1. /\ c.kind = "then" /\ open # <<>> /\ status = "parsing"
        /\ expects = Left(c.body)
        /\ scope' = close_body(scope, braced) /\ expects' = "else"
        /\ emitter' = emitter /\ functions' = functions /\ loops' = loops
        /\ open' = open /\ status' = status /\ stale' = stale
    BY DEF end_then, BodyEnds, Expecting, top, back, historyVars
  <1>2. expects \in {"block", "done"}
    BY <1>1 DEF Left
  <1>3. n \in Nat /\ n > 0 /\ IsSeq(open) /\ Len(scope.levels) \in Int
        /\ Len(scope.levels) >= 2
    BY <1>2, InvFacts
  <1>4. Extends(open, open, n)
    BY <1>3 DEF Extends, Alike, Like
  <1>5. /\ StackOK(open, "else") /\ Headed(open, "else") = Headed(open, expects)
        /\ \A l : Owed(open, expects, l) => Owed(open, "else", l)
        /\ DepthOK(open, "else", Len(scope.levels) - Closed(open, "else"))
    <2>1. /\ expects # "else" /\ "else" \in Expectations \ {"function"}
          /\ expects \notin {"init", "header"} /\ "else" \notin {"init", "header"}
      BY <1>2 DEF Expectations
    <2> HIDE DEF n
    <2> QED BY <1>1, <1>3, <1>4, <2>1, Keeps DEF CInv, n
  <1>6. DepthOK(open, "else", Len(scope'.levels)) /\ ScopeOK(scope')
    <2>1. CASE braced
      <3>1. /\ ScopeOK(close_scope(scope))
            /\ Len(close_scope(scope).levels) = Len(scope.levels) - 1
        BY <1>3, CloseScope DEF CInv
      <3> QED BY <1>1, <1>5, <2>1, <3>1 DEF close_body, Closed
    <2>2. CASE ~braced
      BY <1>1, <1>3, <1>5, <2>2 DEF close_body, Closed, CInv
    <2> QED BY <2>1, <2>2
  <1>7. Headed(open, expects) \subseteq 1 .. n
    BY DEF Headed
  <1>8. TargetsOK(emitter, open, "else")
    BY <1>5 DEF CInv, TargetsOK
  <1>9. ASSUME stale = 0
        PROVE  PendingOK(emitter, open, "else") /\ LoopsOK(open, "else", loops)
    <2>1. PendingOK(emitter, open, "else")
      BY <1>5, <1>9 DEF CInv, PendingOK
    <2>2. LoopsOK(open, expects, loops)
      BY <1>1, <1>9 DEF CInv
    <2> QED BY <1>4, <1>5, <1>7, <2>1, <2>2, LoopsSame
  <1> QED BY <1>1, <1>5, <1>6, <1>8, <1>9 DEF CInv

(* A construct takes its place in the stack with what it still owes.       *)
LEMMA Becomes ==
  ASSUME CInv, NEW c, Shape(c), status = "parsing", expects \in {"else", "header"},
         c.kind = IF expects = "else" THEN "else" ELSE "for",
         open' \in {Replace(open, c), Append(ButBack(open), c)},
         expects' \in {"block", "statement"},
         ScopeOK(scope'),
         Len(scope'.levels)
           = Len(scope.levels) + (IF expects = "else" THEN Opens(c) ELSE 0),
         EmitterOK(emitter'), DOMAIN emitter.labels \subseteq DOMAIN emitter'.labels,
         \A q \in emitter'.pending : q \in emitter.pending \/ q.label = c.l2,
         (IF expects = "else" THEN back(open).l1 ELSE c.l1) \in DOMAIN emitter'.labels,
         IF expects = "header" THEN \E l : l.end = c.l2 /\ loops' = Append(loops, l)
                               ELSE loops' = loops,
         functions' = functions, status' = status, stale' = stale
  PROVE  CInv'
PROOF
  <1> DEFINE p == open'
             y == expects'
             x == expects
             n == Len(open)
  <1>1. n \in Nat /\ n > 0 /\ IsSeq(open) /\ Len(scope.levels) \in Int
    BY InvFacts
  <1>2. Extends(open, p, n - 1) /\ Len(p) = n /\ p[n] = c
    BY <1>1, Swapping
  <1>3. /\ StackOK(open, x) /\ DepthOK(open, x, Len(scope.levels))
        /\ y \in {"block", "statement"} /\ x \in {"else", "header"}
        /\ Shape(p[n]) /\ p[n].kind = IF x = "else" THEN "else" ELSE "for"
    BY <1>2 DEF CInv
  <1>0. n = Len(open)
    OBVIOUS
  <1> HIDE DEF p, y, n, x
  <1>5. /\ StackOK(p, y)
        /\ Headed(p, y) = Headed(open, x) \cup (IF x = "header" THEN {n} ELSE {})
        /\ Headed(open, x) \subseteq 1 .. n - 1
        /\ \A l : Owed(open, x, l) => Owed(p, y, l) \/ (x = "else" /\ l = open[n].l1)
        /\ DepthOK(p, y, Len(scope.levels) + (IF x = "else" THEN Opens(p[n]) ELSE 0))
    BY <1>0, <1>1, <1>2, <1>3, Swaps
  <1>6. DepthOK(p, y, Len(scope'.levels))
    BY <1>2, <1>5 DEF x
  <1>7. open[n].l1 = back(open).l1
    BY DEF n, back
  <1>8. TargetsOK(emitter', p, y)
    <2>1. TargetsOK(emitter, open, x)
      BY DEF CInv, x
    <2>2. \A j \in Headed(p, y) : \/ j \in Headed(open, x) /\ j \in 1 .. n - 1
                                  \/ p[j].l1 \in DOMAIN emitter'.labels
      BY <1>2, <1>5 DEF x
    <2> QED BY <1>2, <2>1, <2>2, TargetsNext
  <1>9. ASSUME stale = 0
        PROVE  PendingOK(emitter', p, y) /\ LoopsOK(p, y, loops')
    <2>1. PendingOK(emitter, open, x) /\ LoopsOK(open, x, loops) /\ IsSeq(loops)
      BY <1>9 DEF CInv, x
    <2>2. Owed(p, y, c.l2)
      <3>1. n \in 1 .. Len(p)
        BY <1>1, <1>2
      <3>2. x = "header" => n \in Headed(p, y)
        BY <1>5
      <3> QED BY <1>2, <1>3, <3>1, <3>2 DEF Owed, Owing
    <2>3. PendingOK(emitter', p, y)
      <3>1. \A q \in emitter'.pending : q \in emitter.pending \/ Owed(p, y, q.label)
        BY <2>2
      <3>2. \A l : Owed(open, x, l) => Owed(p, y, l) \/ l \in DOMAIN emitter'.labels
        BY <1>5, <1>7 DEF x
      <3> QED BY <2>1, <3>1, <3>2 DEF PendingOK
    <2>4. CASE x = "header"
      <3>1. PICK l : l.end = c.l2 /\ loops' = Append(loops, l)
        BY <2>4 DEF x
      <3> DEFINE m == n - 1
      <3>2. /\ Headed(p, y) = Headed(open, x) \cup {m + 1} /\ l.end = p[m + 1].l2
            /\ Headed(open, x) \subseteq 1 .. m /\ Extends(open, p, m)
        BY <1>1, <1>2, <1>5, <2>4, <3>1
      <3> HIDE DEF m
      <3>3. LoopsOK(p, y, Append(loops, l))
        BY <2>1, <3>2, LoopsPush
      <3> QED BY <2>3, <3>1, <3>3
    <2>5. CASE x # "header"
      <3>1. Headed(p, y) = Headed(open, x) /\ loops' = loops
        BY <1>5, <2>5 DEF x
      <3>2. LoopsOK(p, y, loops)
        BY <1>2, <1>5, <2>1, <3>1, LoopsSame
      <3> QED BY <2>3, <3>1, <3>2
    <2> QED BY <2>4, <2>5
  <1>10. IsSeq(loops')
    <2>1. IsSeq(loops)
      BY DEF CInv
    <2>2. \A l : IsSeq(Append(loops, l))
      BY <2>1, AppendFacts
    <2>3. loops' = loops \/ \E l : loops' = Append(loops, l)
      OBVIOUS
    <2> QED BY <2>1, <2>2, <2>3
  <1> QED BY <1>5, <1>6, <1>8, <1>9, <1>10 DEF CInv, p, y

LEMMA ButBackIsSeq ==
  ASSUME NEW s, IsSeq(s)
  PROVE  IsSeq(ButBack(s))
PROOF
  <1>1. CASE Len(s) > 0
    BY <1>1, ButBackFacts
  <1>2. CASE ~(Len(s) > 0)
    <2>1. s = <<>> /\ Len(s) = 0
      BY <1>2, SeqFacts
    <2>2. SubSeq(<<>>, 1, 0 - 1) = <<>>
      OBVIOUS
    <2> QED BY <2>1, <2>2, NoneIsSeq DEF ButBack
  <1> QED BY <1>1, <1>2

(* A construct is complete: it has placed what it owed.                    *)
LEMMA Ends ==
  ASSUME CInv, NEW st, status = "parsing", expects \in {"block", "done", "else"},
         top.kind # "function",
         Complete(ButBack(open), st),
         ScopeOK(scope'),
         Len(scope'.levels) = Len(scope.levels) + Closed(open, expects) - Opens(top),
         EmitterOK(emitter'), DOMAIN emitter.labels \subseteq DOMAIN emitter'.labels,
         \A q \in emitter'.pending :
           q \in emitter.pending \/ q.label \in DOMAIN emitter'.labels,
         (IF top.kind = "then" THEN top.l1 ELSE top.l2) \in DOMAIN emitter'.labels,
         loops' = IF top.kind \in {"while", "for"} THEN ButBack(loops) ELSE loops,
         functions' = functions, status' = status, stale' = stale
  PROVE  CInv'
PROOF
  <1> DEFINE p == open'
             y == expects'
             x == expects
             n == Len(open)
  <1>1. n \in Nat /\ n > 0 /\ IsSeq(open) /\ Len(scope.levels) \in Int
    BY InvFacts
  <1>2. n > 1 /\ Shape(top)
    <2>1. n \in 1 .. n
      BY <1>1
    <2>2. n # 1 /\ Shape(top)
      BY <2>1 DEF CInv, StackOK, top, back
    <2> HIDE DEF n
    <2> QED BY <1>1, <2>2
  <1>3. p = Save(ButBack(open), st) /\ y \in {"block", "done"}
    BY DEF Complete, Save, Left
  <1>4. StackOK(open, x) /\ DepthOK(open, x, Len(scope.levels))
        /\ x \in {"block", "done", "else"} /\ top = open[n]
    BY DEF CInv, top, back
  <1>0. n = Len(open)
    OBVIOUS
  <1> HIDE DEF p, y, n, x
  <1>5. Extends(open, p, n - 1) /\ Len(p) = n - 1
    BY <1>0, <1>2, <1>3, <1>4, Popping
  <1>6. /\ StackOK(p, y)
        /\ Headed(open, x) = Headed(p, y) \cup
             (IF open[n].kind \in {"while", "for"} THEN {n} ELSE {})
        /\ Headed(p, y) \subseteq 1 .. n - 1
        /\ \A l : Owed(open, x, l) => Owed(p, y, l) \/ Owing(open, x, n, l)
        /\ DepthOK(p, y, Len(scope.levels) + Closed(open, x) - Opens(open[n]))
    <2>1. Popped(open, x, p, y, n, Len(scope.levels))
      BY <1>0, <1>2, <1>3, <1>4, <1>5, Pops
    <2> QED BY <2>1 DEF Popped
  <1>7. DepthOK(p, y, Len(scope'.levels))
    BY <1>4, <1>6 DEF x
  <1>8. TargetsOK(emitter', p, y)
    <2>1. TargetsOK(emitter, open, x)
      BY DEF CInv, x
    <2>2. \A j \in Headed(p, y) : j \in Headed(open, x) /\ j \in 1 .. n - 1
      BY <1>6
    <2> QED BY <1>5, <2>1, <2>2, TargetsNext
  <1>9. ASSUME stale = 0
        PROVE  PendingOK(emitter', p, y) /\ LoopsOK(p, y, loops')
    <2>1. PendingOK(emitter, open, x) /\ LoopsOK(open, x, loops) /\ IsSeq(loops)
      BY <1>9 DEF CInv, x
    <2>2. \A l : Owing(open, x, n, l) => l \in DOMAIN emitter'.labels
      <3>1. top.kind \in {"then", "else", "while", "for"}
        BY <1>2 DEF Shape
      <3>2. n \in Headed(open, x) => top.kind \in {"while", "for"}
        BY <1>4 DEF Headed
      <3> QED BY <1>4, <3>1, <3>2 DEF Owing
    <2>3. PendingOK(emitter', p, y)
      BY <1>6, <2>1, <2>2 DEF PendingOK
    <2>4. CASE top.kind \in {"while", "for"}
      <3> DEFINE m == n - 1
      <3>1. /\ Headed(open, x) = Headed(p, y) \cup {m + 1}
            /\ Headed(p, y) \subseteq 1 .. m /\ Extends(open, p, m)
        BY <1>1, <1>4, <1>5, <1>6, <2>4
      <3> HIDE DEF m
      <3>2. LoopsOK(p, y, ButBack(loops))
        BY <2>1, <3>1, LoopsPop
      <3> QED BY <2>3, <2>4, <3>2
    <2>5. CASE top.kind \notin {"while", "for"}
      <3>1. Headed(p, y) = Headed(open, x) /\ loops' = loops
        BY <1>4, <1>6, <2>5
      <3>2. LoopsOK(p, y, loops)
        BY <1>5, <1>6, <2>1, <3>1, LoopsSame
      <3> QED BY <2>3, <3>1, <3>2
    <2> QED BY <2>4, <2>5
  <1>10. IsSeq(loops')
    <2>1. IsSeq(loops) /\ IsSeq(ButBack(loops))
      BY ButBackIsSeq DEF CInv
    <2> QED BY <2>1
  <1> QED BY <1>6, <1>7, <1>8, <1>9, <1>10 DEF CInv, p, y

LEMMA ElseKeeps ==
  ASSUME CInv, parse_else
  PROVE  CInv'
PROOF
  <1>1. /\ status = "parsing" /\ expects = "else" /\ stale' = stale
        /\ emitter' = label(jump(emitter, "JMP", 0, jmp_uid), top.l1)
        /\ functions' = functions /\ loops' = loops /\ status' = status
    BY DEF parse_else, Expecting, historyVars
  <1>2. PICK braced \in BOOLEAN :
          /\ scope' = open_body(scope, braced)
          /\ open' = Replace(open, Else(top, jmp_uid, braced))
          /\ expects' = Entered(Block(braced))
    BY DEF parse_else, Else
  <1> DEFINE c  == Else(top, jmp_uid, braced)
             em == jump(emitter, "JMP", 0, jmp_uid)
  <1>3. Shape(top)
    <2>1. Len(open) \in 1 .. Len(open)
      BY <1>1, InvFacts
    <2> QED BY <2>1 DEF CInv, StackOK, top, back
  <1>4. Shape(c) /\ c.kind = "else" /\ c.l2 = jmp_uid /\ c.body.braced = braced
    <2> DEFINE d == top
    <2> HIDE DEF d
    <2>1. LET f == Else(d, jmp_uid, braced) IN
          Shape(f) /\ f.kind = "else" /\ f.l2 = jmp_uid /\ f.body.braced = braced
      BY <1>3, ElseShape DEF d
    <2> QED BY <2>1 DEF d
  <1> HIDE DEF c
  <1>5. /\ EmitterOK(em) /\ em.labels = emitter.labels
        /\ em.pending
             = emitter.pending \cup {[at |-> Here(emitter), label |-> jmp_uid]}
    <2>1. EmitterOK(emitter)
      BY DEF CInv
    <2> QED BY <2>1, Jumping
  <1>6. [at |-> Here(emitter), label |-> jmp_uid].label = jmp_uid
    OBVIOUS
  <1> HIDE DEF em
  <1>7. /\ EmitterOK(emitter') /\ emitter'.pending = em.pending
        /\ DOMAIN emitter'.labels = DOMAIN em.labels \cup {top.l1}
    BY <1>1, <1>5, Labelling DEF em
  <1>8. \A q \in emitter'.pending : q \in emitter.pending \/ q.label = c.l2
    BY <1>4, <1>5, <1>6, <1>7
  <1>9. ScopeOK(scope') /\ Len(scope'.levels) = Len(scope.levels) + Opens(c)
    BY <1>2, <1>4, OpenBody DEF CInv, Opens
  <1>10. expects' \in {"block", "statement"}
    BY <1>2 DEF Entered
  <1>11. open' = Replace(open, c) /\ back(open).l1 \in DOMAIN emitter'.labels
    BY <1>2, <1>7 DEF c, top
  <1>12. DOMAIN emitter.labels \subseteq DOMAIN emitter'.labels
    BY <1>5, <1>7
  <1> QED BY <1>1, <1>4, <1>7, <1>8, <1>9, <1>10, <1>11, <1>12, Becomes

(* What comes after a construct with a body.                               *)
LEMMA TopShape ==
  ASSUME CInv, open # <<>>
  PROVE  Shape(top) /\ top = open[Len(open)] /\ Len(open) \in 1 .. Len(open)
PROOF
  <1>1. Len(open) \in 1 .. Len(open)
    <2>1. IsSeq(open)
      BY InvFacts
    <2>2. Len(open) \in Nat /\ Len(open) # 0
      BY <2>1, SeqFacts
    <2> QED BY <2>2
  <1> QED BY <1>1 DEF CInv, StackOK, top, back

LEMMA NoElseKeeps ==
  ASSUME CInv, no_else
  PROVE  CInv'
PROOF
  <1> DEFINE st == Statement("if", <<top.at, top.body, Block(FALSE)>>)
  <1>1. /\ status = "parsing" /\ expects = "else" /\ stale' = stale
        /\ emitter' = label(emitter, top.l1) /\ scope' = scope
        /\ functions' = functions /\ loops' = loops /\ status' = status
        /\ Complete(ButBack(open), st)
    BY DEF no_else, Expecting, historyVars
  <1> HIDE DEF st
  <1>2. open # <<>>
    BY <1>1, InvFacts, NoneIsSeq
  <1>3. top.kind = "then"
    BY <1>1 DEF CInv, StackOK, top, back
  <1>4. EmitterOK(emitter)
    BY DEF CInv
  <1>5. /\ EmitterOK(emitter') /\ emitter'.pending = emitter.pending
        /\ DOMAIN emitter'.labels = DOMAIN emitter.labels \cup {top.l1}
    BY <1>1, <1>4, Labelling
  <1>6. Closed(open, expects) = Opens(top)
    BY <1>1, <1>2, <1>3, TopShape DEF Closed, Opens
  <1>7. ScopeOK(scope') /\ Len(scope.levels) \in Int /\ Opens(top) \in Int
    BY <1>1, InvFacts DEF CInv, Opens
  <1>8. Len(scope'.levels) = Len(scope.levels) + Closed(open, expects) - Opens(top)
    BY <1>1, <1>6, <1>7
  <1>9. (IF top.kind = "then" THEN top.l1 ELSE top.l2) \in DOMAIN emitter'.labels
    BY <1>3, <1>5
  <1> QED BY <1>1, <1>3, <1>5, <1>7, <1>8, <1>9, Ends

LEMMA EndElseKeeps ==
  ASSUME CInv, end_else
  PROVE  CInv'
PROOF
  <1> DEFINE st == Statement("if", <<top.at, top.first, top.body>>)
             braced == top.body.braced
  <1>1. /\ status = "parsing" /\ stale' = stale /\ open # <<>> /\ top.kind = "else"
        /\ expects = Left(top.body)
        /\ emitter' = label(emitter, top.l2) /\ scope' = close_body(scope, braced)
        /\ functions' = functions /\ loops' = loops /\ status' = status
        /\ Complete(ButBack(open), st)
    BY DEF end_else, BodyEnds, Expecting, historyVars
  <1> HIDE DEF st, braced
  <1>2. expects \in {"block", "done"}
    BY <1>1 DEF Left
  <1>3. Len(scope.levels) \in Int /\ Len(scope.levels) >= 2
    BY <1>2, InvFacts
  <1>4. EmitterOK(emitter) /\ ScopeOK(scope)
    BY DEF CInv
  <1>5. /\ EmitterOK(emitter') /\ emitter'.pending = emitter.pending
        /\ DOMAIN emitter'.labels = DOMAIN emitter.labels \cup {top.l2}
    BY <1>1, <1>4, Labelling
  <1>6. /\ ScopeOK(scope')
        /\ Len(scope'.levels) = Len(scope.levels) - (IF braced THEN 1 ELSE 0)
    BY <1>1, <1>3, <1>4, CloseBody
  <1>7. Closed(open, expects) = 0 /\ Opens(top) = (IF braced THEN 1 ELSE 0)
    BY <1>1, <1>2 DEF Closed, Opens, braced
  <1>8. Len(scope'.levels) = Len(scope.levels) + Closed(open, expects) - Opens(top)
    <2> DEFINE m == Len(scope.levels)
               d == IF braced THEN 1 ELSE 0
    <2>1. m \in Int /\ d \in Int /\ Len(scope'.levels) = m - d
      BY <1>3, <1>6
    <2>2. Closed(open, expects) = 0 /\ Opens(top) = d
      BY <1>7
    <2> HIDE DEF m, d
    <2>3. Len(scope'.levels) = m + Closed(open, expects) - Opens(top)
      BY <2>1, <2>2
    <2> QED BY <2>3 DEF m
  <1>9. (IF top.kind = "then" THEN top.l1 ELSE top.l2) \in DOMAIN emitter'.labels
    BY <1>1, <1>5
  <1>10. expects \in {"block", "done", "else"} /\ top.kind # "function"
    BY <1>1, <1>2
  <1> QED BY <1>1, <1>5, <1>6, <1>8, <1>9, <1>10, Ends

-----------------------------------------------------------------------------
(* Loops.                                                                  *)
LEMMA HeaderEmits ==
  ASSUME CInv, NEW s, NEW e, NEW l,
         emitter' = label(jump(epush(emitter, s, e), "JMPF", sp(s), l + 1), l)
  PROVE  /\ EmitterOK(emitter')
         /\ DOMAIN emitter'.labels = DOMAIN emitter.labels \cup {l}
         /\ \A q \in emitter'.pending : q \in emitter.pending \/ q.label = l + 1
PROOF
  <1> DEFINE em == epush(emitter, s, e)
             fm == jump(em, "JMPF", sp(s), l + 1)
  <1>1. EmitterOK(em) /\ em.labels = emitter.labels /\ em.pending = emitter.pending
    <2>1. EmitterOK(emitter)
      BY DEF CInv
    <2>2. Straight(emitter, em)
      BY <2>1, EvalStraight
    <2> HIDE DEF em
    <2> QED BY <2>2 DEF Straight
  <1> HIDE DEF em
  <1>2. /\ EmitterOK(fm) /\ fm.labels = em.labels
        /\ fm.pending = em.pending \cup {[at |-> Here(em), label |-> l + 1]}
    BY <1>1, Jumping
  <1>3. [at |-> Here(em), label |-> l + 1].label = l + 1
    OBVIOUS
  <1>4. emitter' = label(fm, l)
    BY DEF em
  <1> HIDE DEF fm
  <1>5. /\ EmitterOK(emitter') /\ emitter'.pending = fm.pending
        /\ DOMAIN emitter'.labels = DOMAIN fm.labels \cup {l}
    BY <1>2, <1>4, Labelling
  <1> QED BY <1>1, <1>2, <1>3, <1>5

LEMMA LoopLabels == ASSUME NEW l PROVE Labels(l).end = l + 1
BY DEF Labels

(* The header of a loop, inside of what is open or in the place of a for.  *)
LEMMA Heading ==
  ASSUME CInv, NEW under, NEW c, Shape(c), NEW s, NEW e, NEW braced,
         Header(under, c, s, e, braced), stale' = stale, status = "parsing",
         ScopeOK(s),
         \/ /\ c.kind = "while" /\ under = open /\ expects \in {"block", "statement"}
            /\ Len(s.levels) = Len(scope.levels) + 1
         \/ /\ c.kind = "for" /\ under = ButBack(open) /\ expects = "header"
            /\ Len(s.levels) = Len(scope.levels)
  PROVE  CInv'
PROOF
  <1>1. CASE ~Known(s, e)
    <2>1. IsSeq(Append(loops, Labels(jmp_uid)))
      BY AppendFacts DEF CInv
    <2>2. Rejects(Append(loops, Labels(jmp_uid)))
      BY <1>1 DEF Header
    <2> QED BY <2>1, <2>2, Rejecting
  <1>2. CASE Known(s, e)
    <2> DEFINE at == Resolved(s, e)
               d == LoopHead(c, jmp_uid, jmp_uid + 1, e, at, braced)
               l == Labels(jmp_uid)
    <2>1. /\ emitter' = label(jump(epush(emitter, s, e), "JMPF", sp(s), jmp_uid + 1),
                              jmp_uid)
          /\ scope' = s /\ loops' = Append(loops, l)
          /\ open' = Append(under, d) /\ expects' = Entered(Block(braced))
          /\ functions' = functions /\ status' = status
      BY <1>2 DEF Header, LoopHead
    <2> HIDE DEF at
    <2>2. /\ Shape(d) /\ d.kind = c.kind /\ d.l1 = jmp_uid /\ d.l2 = jmp_uid + 1
          /\ d.body.braced = braced
      BY HeadShape
    <2> HIDE DEF d, l
    <2>3. l.end = d.l2
      BY <2>2, LoopLabels DEF l
    <2>4. /\ EmitterOK(emitter')
          /\ DOMAIN emitter'.labels = DOMAIN emitter.labels \cup {d.l1}
          /\ \A q \in emitter'.pending : q \in emitter.pending \/ q.label = d.l2
      BY <2>1, <2>2, HeaderEmits
    <2>5. expects' \in {"block", "statement"}
      BY <2>1 DEF Entered
    <2>6. ScopeOK(scope')
      BY <2>1
    <2>7. \E k : k.end = d.l2 /\ loops' = Append(loops, k)
      BY <2>1, <2>3
    <2>8. CASE c.kind = "while"
      <3>1. /\ under = open /\ expects \in {"block", "statement"} /\ d.kind = "while"
            /\ Len(s.levels) = Len(scope.levels) + 1
        BY <2>2, <2>8
      <3>2. Opens(d) = 1
        BY <3>1 DEF Opens
      <3> QED BY <2>1, <2>2, <2>4, <2>5, <2>6, <2>7, <3>1, <3>2, Begins
    <2>9. CASE c.kind = "for"
      <3>1. /\ under = ButBack(open) /\ expects = "header" /\ d.kind = "for"
            /\ Len(s.levels) = Len(scope.levels) /\ Len(scope.levels) \in Int
        BY <2>2, <2>9, InvFacts
      <3>2. Len(scope'.levels) = Len(scope.levels) + 0
        BY <2>1, <3>1
      <3> QED BY <2>1, <2>2, <2>4, <2>5, <2>6, <2>7, <3>1, <3>2, Becomes
    <2> QED BY <2>8, <2>9
  <1> QED BY <1>1, <1>2

LEMMA WhileKeeps ==
  ASSUME CInv, parse_while
  PROVE  CInv'
PROOF
  <1> DEFINE c == Construct("while", "")
             s == new_scope(scope)
  <1>1. PICK e, braced : Header(open, c, s, e, braced)
    BY DEF parse_while
  <1>2. status = "parsing" /\ expects \in {"block", "statement"} /\ stale' = stale
    BY DEF parse_while, Expecting
  <1>3. Shape(c) /\ c.kind = "while"
    BY ConstructShape
  <1>4. ScopeOK(s) /\ Len(s.levels) = Len(scope.levels) + 1
    BY NewScope DEF CInv
  <1> HIDE DEF c, s
  <1> QED BY <1>1, <1>2, <1>3, <1>4, Heading

LEMMA ForKeeps ==
  ASSUME CInv, parse_for
  PROVE  CInv'
PROOF
  <1> DEFINE c == Construct("for", "")
  <1>1. /\ status = "parsing" /\ expects \in {"block", "statement"} /\ stale' = stale
        /\ scope' = new_scope(scope) /\ open' = Append(open, c) /\ expects' = "init"
        /\ emitter' = emitter /\ functions' = functions /\ loops' = loops
        /\ status' = status
    BY DEF parse_for, Expecting
  <1>2. Shape(c) /\ c.kind = "for"
    BY ConstructShape
  <1> HIDE DEF c
  <1>3. Opens(c) = 1
    BY <1>2 DEF Opens
  <1>4. ScopeOK(scope') /\ Len(scope'.levels) = Len(scope.levels) + Opens(c)
    BY <1>1, <1>3, NewScope DEF CInv
  <1>5. EmitterOK(emitter')
    BY <1>1 DEF CInv
  <1> QED BY <1>1, <1>2, <1>4, <1>5, Begins

(* The first part of a for is parsed, or there is none.                    *)
LEMMA Initialised ==
  ASSUME CInv, status = "parsing", expects = "init", expects' = "header",
         Extends(open, open', Len(open)), Len(open') = Len(open),
         ScopeOK(scope'), Len(scope'.levels) = Len(scope.levels),
         Straight(emitter, emitter'),
         functions' = functions, loops' = loops, status' = status, stale' = stale
  PROVE  CInv'
PROOF
  <1> DEFINE n == Len(open)
             p == open'
  <1>1. n \in Nat /\ n > 0 /\ IsSeq(open) /\ Len(scope.levels) \in Int
    BY InvFacts
  <1>2. /\ StackOK(open, "init") /\ DepthOK(open, "init", Len(scope.levels))
        /\ Extends(open, p, n) /\ Len(p) = n /\ n = Len(open)
    BY DEF CInv
  <1> HIDE DEF n, p
  <1>3. /\ StackOK(p, "header") /\ Headed(p, "header") = Headed(open, "init")
        /\ \A l : Owed(open, "init", l) => Owed(p, "header", l)
        /\ DepthOK(p, "header", Len(scope.levels) - Closed(p, "header"))
    <2>1. "header" \in Expectations \ {"function"}
      BY DEF Expectations
    <2> QED BY <1>1, <1>2, <2>1, Keeps
  <1>4. DepthOK(p, "header", Len(scope'.levels))
    BY <1>1, <1>3 DEF Closed
  <1>5. Headed(open, "init") \subseteq 1 .. n
    BY <1>2 DEF Headed
  <1>6. EmitterOK(emitter') /\ emitter'.pending = emitter.pending
        /\ emitter'.labels = emitter.labels
    BY DEF Straight
  <1>7. TargetsOK(emitter', p, "header")
    <2>1. TargetsOK(emitter, open, "init")
      BY DEF CInv
    <2> QED BY <1>2, <1>3, <1>5, <1>6, <2>1, TargetsNext
  <1>8. ASSUME stale = 0
        PROVE  PendingOK(emitter', p, "header") /\ LoopsOK(p, "header", loops)
    <2>1. PendingOK(emitter, open, "init") /\ LoopsOK(open, "init", loops)
      BY <1>8 DEF CInv
    <2>2. PendingOK(emitter', p, "header")
      BY <1>3, <1>6, <2>1 DEF PendingOK
    <2>3. LoopsOK(p, "header", loops)
      BY <1>2, <1>3, <1>5, <2>1, LoopsSame
    <2> QED BY <2>2, <2>3
  <1> QED BY <1>3, <1>4, <1>6, <1>7, <1>8 DEF CInv, p

LEMMA InitKeeps ==
  ASSUME CInv, for_init
  PROVE  CInv'
PROOF
  <1>1. status = "parsing" /\ expects = "init" /\ stale' = stale
    BY DEF for_init, Expecting, historyVars
  <1>2. PICK i :
          IF Assignable(scope, i)
          THEN /\ emitter' = push_assign(emitter, scope, i)
               /\ scope' = AssignScope(scope, i)
               /\ open' = Replace(open, [top EXCEPT !.first.list =
                    <<Statement("assign", ResolvedAssign(scope, i))>>])
               /\ expects' = "header"
               /\ UNCHANGED <<functions, loops, jmp_uid, status>>
          ELSE Rejects(loops)
    BY DEF for_init
  <1>3. CASE ~Assignable(scope, i)
    BY <1>1, <1>2, <1>3, Rejecting DEF CInv
  <1>4. CASE Assignable(scope, i)
    <2> DEFINE list == <<Statement("assign", ResolvedAssign(scope, i))>>
               c == Begun(top, list)
               n == Len(open)
    <2>1. /\ emitter' = push_assign(emitter, scope, i)
          /\ scope' = AssignScope(scope, i) /\ open' = Replace(open, c)
          /\ expects' = "header" /\ functions' = functions /\ loops' = loops
          /\ status' = status
      BY <1>2, <1>4 DEF Begun
    <2> HIDE DEF list
    <2>2. /\ n \in Nat /\ n > 0 /\ IsSeq(open) /\ Len(scope.levels) >= 2
          /\ open # <<>>
      BY <1>1, InvFacts, NoneIsSeq
    <2>3. Shape(top) /\ top = open[n]
      BY <2>2, TopShape
    <2>4. Like(top, c)
      BY <2>3, BegunLike
    <2> HIDE DEF c, n
    <2>5. /\ IsSeq(open') /\ Len(open') = n /\ open'[n] = c
          /\ \A j \in 1 .. n - 1 : open'[j] = open[j]
      BY <2>1, <2>2, ReplaceFacts DEF n
    <2>6. \A j : Like(open[j], open[j])
      BY DEF Like
    <2>7. ASSUME NEW j \in 1 .. n
          PROVE  Like(open[j], open'[j])
      BY <2>2, <2>3, <2>4, <2>5, <2>6
    <2>8. Extends(open, open', Len(open)) /\ Len(open') = Len(open)
      BY <2>2, <2>5, <2>7 DEF Extends, Alike, n
    <2>9. /\ ScopeOK(scope') /\ Len(scope'.levels) = Len(scope.levels)
      BY <2>1, <2>2, AssigningScope DEF CInv
    <2>10. Straight(emitter, emitter')
      <3>1. EmitterOK(emitter)
        BY DEF CInv
      <3> QED BY <2>1, <3>1, AssignStraight
    <2> QED BY <1>1, <2>1, <2>8, <2>9, <2>10, Initialised
  <1> QED BY <1>3, <1>4

LEMMA NoInitKeeps ==
  ASSUME CInv, no_init
  PROVE  CInv'
PROOF
  <1>1. /\ status = "parsing" /\ expects = "init" /\ stale' = stale
        /\ expects' = "header" /\ emitter' = emitter /\ functions' = functions
        /\ scope' = scope /\ loops' = loops /\ open' = open /\ status' = status
    BY DEF no_init, Expecting, historyVars
  <1>2. Extends(open, open, Len(open))
    BY InvFacts DEF Extends, Alike, Like
  <1>3. Straight(emitter, emitter)
    BY DEF Straight, CInv
  <1>4. ScopeOK(scope)
    BY DEF CInv
  <1> QED BY <1>1, <1>2, <1>3, <1>4, Initialised

LEMMA HeaderKeeps ==
  ASSUME CInv, for_header
  PROVE  CInv'
PROOF
  <1>1. status = "parsing" /\ expects = "header" /\ stale' = stale
    BY DEF for_header, Expecting, historyVars
  <1>2. PICK e, i, braced :
          Header(ButBack(open),
                 Increasing(top, <<i>>, <<Assignable(scope, i), Resolved(scope, i.e)>>),
                 scope, e, braced)
    BY DEF for_header, Increasing
  <1> DEFINE inc   == <<i>>
             incAt == <<Assignable(scope, i), Resolved(scope, i.e)>>
             c     == Increasing(top, inc, incAt)
  <1>3. Header(ButBack(open), c, scope, e, braced)
    BY <1>2
  <1> HIDE DEF inc, incAt
  <1>4. open # <<>>
    BY <1>1, InvFacts, NoneIsSeq
  <1>5. Shape(top) /\ top.kind = "for"
    BY <1>1, <1>4, TopShape DEF CInv, StackOK
  <1>6. Like(top, c)
    BY <1>5, IncreasingLike
  <1> HIDE DEF c
  <1>7. Shape(c) /\ c.kind = "for"
    BY <1>5, <1>6 DEF Like
  <1>8. ScopeOK(scope)
    BY DEF CInv
  <1> QED BY <1>1, <1>3, <1>7, <1>8, Heading

LEMMA LoopKeeps ==
  ASSUME CInv, end_loop
  PROVE  CInv'
PROOF
  <1> DEFINE for  == top.kind = "for"
             i    == top.inc[1]
             s    == IF for THEN AssignScope(scope, i) ELSE scope
             body == IF for THEN push_assign(emitter, scope, i) ELSE emitter
             inc  == IF for
                     THEN <<Statement("assign",
                              [x |-> i.x, op |-> i.op, e |-> top.incAt[2]])>>
                     ELSE <<>>
             st   == Statement("loop", <<top.first.list, top.at, top.body, inc>>)
             em   == epush(body, s, top.e)
             fm   == jump(em, "JMPT", sp(s), top.l1)
             ok   == (for => Assignable(scope, i)) /\ Known(s, top.e)
  <1>1. /\ status = "parsing" /\ stale' = stale /\ open # <<>>
        /\ top.kind \in {"while", "for"} /\ expects = Left(top.body)
    BY DEF end_loop, BodyEnds, Expecting
  <1>2. IF ok
        THEN /\ emitter' = label(fm, top.l2) /\ scope' = close_scope(s)
             /\ loops' = ButBack(loops) /\ Complete(ButBack(open), st)
             /\ functions' = functions /\ status' = status
        ELSE Rejects(loops)
    BY DEF end_loop
  <1> HIDE DEF st, ok
  <1>3. expects \in {"block", "done"}
    BY <1>1 DEF Left
  <1>4. Len(scope.levels) \in Int /\ Len(scope.levels) >= 2
    BY <1>3, InvFacts
  <1>5. EmitterOK(emitter) /\ ScopeOK(scope) /\ TargetsOK(emitter, open, expects)
    BY DEF CInv
  <1>6. CASE ~ok
    BY <1>1, <1>2, <1>6, Rejecting DEF CInv
  <1>7. CASE ok
    <2>1. Straight(emitter, body)
      <3>1. Straight(emitter, push_assign(emitter, scope, i))
        BY <1>5, AssignStraight
      <3>2. Straight(emitter, emitter)
        BY <1>5 DEF Straight
      <3> QED BY <3>1, <3>2
    <2>2. ScopeOK(s) /\ Len(s.levels) = Len(scope.levels)
      <3>1. /\ ScopeOK(AssignScope(scope, i))
            /\ Len(AssignScope(scope, i).levels) = Len(scope.levels)
        BY <1>4, <1>5, AssigningScope
      <3> QED BY <1>5, <3>1
    <2> HIDE DEF body, s
    <2>3. Straight(body, em)
      <3>1. EmitterOK(body)
        BY <2>1 DEF Straight
      <3> QED BY <3>1, EvalStraight
    <2>4. EmitterOK(em) /\ em.labels = emitter.labels /\ em.pending = emitter.pending
      BY <2>1, <2>3 DEF Straight
    <2> HIDE DEF em
    <2>5. /\ EmitterOK(fm) /\ fm.labels = em.labels
          /\ fm.pending = em.pending \cup {[at |-> Here(em), label |-> top.l1]}
      BY <2>4, Jumping
    <2>6. [at |-> Here(em), label |-> top.l1].label = top.l1
      OBVIOUS
    <2> HIDE DEF fm
    <2>7. emitter' = label(fm, top.l2)
      BY <1>2, <1>7
    <2>8. /\ EmitterOK(emitter') /\ emitter'.pending = fm.pending
          /\ DOMAIN emitter'.labels = DOMAIN fm.labels \cup {top.l2}
      BY <2>5, <2>7, Labelling
    <2>9. Len(open) \in Headed(open, expects) /\ top = open[Len(open)]
      BY <1>1, <1>3, TopShape DEF Headed
    <2>10. top.l1 \in DOMAIN emitter.labels
      BY <1>5, <2>9 DEF TargetsOK
    <2>11. /\ DOMAIN emitter.labels \subseteq DOMAIN emitter'.labels
           /\ \A q \in emitter'.pending :
                q \in emitter.pending \/ q.label \in DOMAIN emitter'.labels
      BY <2>4, <2>5, <2>6, <2>8, <2>10
    <2>12. ScopeOK(scope') /\ Len(scope'.levels) = Len(scope.levels) - 1
      BY <1>2, <1>4, <1>7, <2>2, CloseScope
    <2>13. Closed(open, expects) = 0 /\ Opens(top) = 1
      BY <1>1, <1>3 DEF Closed, Opens
    <2>14. Len(scope'.levels) = Len(scope.levels) + Closed(open, expects) - Opens(top)
      BY <1>4, <2>12, <2>13
    <2>15. /\ (IF top.kind = "then" THEN top.l1 ELSE top.l2) \in DOMAIN emitter'.labels
           /\ loops' = IF top.kind \in {"while", "for"} THEN ButBack(loops) ELSE loops
      BY <1>1, <1>2, <1>7, <2>8
    <2>16. /\ Complete(ButBack(open), st) /\ functions' = functions /\ status' = status
           /\ top.kind # "function" /\ expects \in {"block", "done", "else"}
      BY <1>1, <1>2, <1>3, <1>7
    <2> QED BY <1>1, <2>8, <2>11, <2>12, <2>14, <2>15, <2>16, Ends
  <1> QED BY <1>6, <1>7

-----------------------------------------------------------------------------
(* Functions and programs.                                                 *)
LEMMA FunctionBegins ==
  ASSUME NEW c, Shape(c), c.kind = "function"
  PROVE  /\ StackOK(<<c>>, "block") /\ Headed(<<c>>, "block") = {}
         /\ DepthOK(<<c>>, "block", 2)
PROOF
  <1> DEFINE p == <<c>>
  <1>1. IsSeq(p) /\ Len(p) = 1 /\ p[1] = c
    BY OneIsSeq
  <1> HIDE DEF p
  <1>2. StackOK(p, "block")
    BY <1>1 DEF StackOK, Expectations
  <1>3. Headed(p, "block") = {}
    BY <1>1 DEF Headed
  <1>4. DepthOK(p, "block", 2)
    <2> DEFINE at(k) == k + 1
               d == [k \in 0 .. 1 |-> at(k)]
    <2>1. d \in [0 .. 1 -> Nat] /\ d[0] = 1 /\ d[1] = 2
      OBVIOUS
    <2> HIDE DEF d
    <2>2. Opens(c) = 1
      BY DEF Opens
    <2>3. \A j \in 1 .. 1 : j = 1 /\ j - 1 = 0
      OBVIOUS
    <2>4. \A j \in 1 .. 1 : d[j] = d[j - 1] + Opens(p[j]) /\ d[j] >= 2
      BY <1>1, <2>1, <2>2, <2>3
    <2>5. Depths(p, d)
      BY <1>1, <2>1, <2>4 DEF Depths
    <2>6. Closed(p, "block") = 0 /\ 2 = d[Len(p)] - 0
      BY <1>1, <2>1 DEF Closed
    <2> QED BY <2>5, <2>6 DEF DepthOK
  <1> QED BY <1>2, <1>3, <1>4 DEF p

(* What the loops are when nothing is open, or a function only.            *)
LEMMA LoopsNone ==
  ASSUME NEW o, NEW x, NEW ls, IsSeq(ls), LoopsOK(o, x, ls), Headed(o, x) = {},
         NEW p, NEW y, Headed(p, y) = {}
  PROVE  LoopsOK(p, y, ls)
PROOF
  <1>1. ls = <<>>
    BY NoneLeft
  <1>2. Headed(<<>>, "function") = {} /\ 1 .. Len(ls) = {}
    BY <1>1, Outside, NoneIsSeq
  <1>3. <<>> \in [1 .. Len(ls) -> Headed(p, y)]
    BY <1>2
  <1>4. Matches(p, y, ls, <<>>)
    BY <1>2, <1>3 DEF Matches
  <1> QED BY <1>4 DEF LoopsOK

LEMMA FunctionKeeps ==
  ASSUME CInv, parse_function
  PROVE  CInv'
PROOF
  <1>1. status = "parsing" /\ expects = "function" /\ stale' = stale
    BY DEF parse_function, Expecting
  <1>2. PICK name \in FunctionNames, params \in Params :
          IF name \notin KnownFunctions /\ Distinct(params)
          THEN /\ emitter' = begin_func /\ scope' = PushParams(params)
               /\ open' = <<Taking(Construct("function", name), params)>>
               /\ expects' = "block"
               /\ UNCHANGED <<functions, loops, jmp_uid, status>>
          ELSE Rejects(loops)
    BY Zenon DEF parse_function, Taking
  <1>3. CASE ~(name \notin KnownFunctions /\ Distinct(params))
    BY <1>1, <1>2, <1>3, Rejecting DEF CInv
  <1>4. CASE name \notin KnownFunctions /\ Distinct(params)
    <2> DEFINE d == Construct("function", name)
               c == Taking(d, params)
    <2>1. Shape(d) /\ d.kind = "function"
      BY ConstructShape
    <2>2. /\ emitter' = begin_func /\ scope' = PushParams(params)
          /\ open' = <<c>> /\ expects' = "block"
          /\ functions' = functions /\ loops' = loops /\ status' = status
      BY <1>2, <1>4
    <2> HIDE DEF d
    <2>3. Like(d, c)
      BY <2>1, TakingLike
    <2> HIDE DEF c
    <2>4. Shape(c) /\ c.kind = "function"
      BY <2>1, <2>3 DEF Like
    <2>5. /\ StackOK(<<c>>, "block") /\ Headed(<<c>>, "block") = {}
          /\ DepthOK(<<c>>, "block", 2)
      BY <2>4, FunctionBegins
    <2>6. open = <<>> /\ Len(scope.levels) = 1
      BY <1>1, InvFacts
    <2>7. ScopeOK(scope') /\ Len(scope'.levels) = 2
      BY <1>4, <2>2, <2>6, Parameters DEF CInv
    <2>8. TargetsOK(begin_func, <<c>>, "block")
      BY <2>5 DEF TargetsOK
    <2>9. PendingOK(begin_func, <<c>>, "block")
      BY DEF PendingOK, begin_func
    <2>10. stale = 0 => LoopsOK(<<c>>, "block", loops)
      <3>1. ASSUME stale = 0
            PROVE  LoopsOK(<<>>, "function", loops) /\ IsSeq(loops)
        BY <1>1, <2>6, <3>1 DEF CInv
      <3> QED BY <2>5, <3>1, Outside, LoopsNone
    <2>11. /\ IsSeq(loops) /\ stale \in Nat /\ IsSeq(functions)
           /\ \A k \in DOMAIN functions : JumpsInside(functions[k].code)
      BY DEF CInv
    <2> QED BY <1>1, <2>2, <2>5, <2>7, <2>8, <2>9, <2>10, <2>11, NoCode DEF CInv
  <1> QED BY <1>3, <1>4

LEMMA EndFunctionKeeps ==
  ASSUME CInv, end_function
  PROVE  CInv'
PROOF
  <1> DEFINE em == add(emitter, "RETURNNIL", 0, 0, 0)
             f  == [name |-> top.name, params |-> top.inc, code |-> resolve(em),
                    body |-> top.body.list]
  <1>1. /\ status = "parsing" /\ open # <<>> /\ top.kind = "function"
        /\ expects = Left(top.body)
        /\ scope' = close_scope(scope) /\ emitter' = begin_func /\ open' = <<>>
        /\ expects' = "function" /\ loops' = loops /\ stale' = stale
        /\ functions' = IF Resolves(em) THEN Append(functions, f) ELSE functions
    BY DEF end_function, BodyEnds, Expecting, historyVars
  <1>2. WellFormed(em) => status' # "ill formed"
    BY <1>1 DEF end_function, Resolves
  <1>3. expects \in {"block", "done"}
    BY <1>1 DEF Left
  <1>4. Len(open) = 1
    <2>1. top = open[Len(open)] /\ Len(open) \in 1 .. Len(open)
      BY <1>1, TopShape
    <2> QED BY <1>1, <2>1 DEF CInv, StackOK
  <1>5. Headed(open, expects) = {} /\ Opens(top) = 1 /\ open[1].kind = "function"
    BY <1>1, <1>4, TopShape DEF Headed, Opens
  <1>6. Len(scope.levels) = 2
    <2>1. PICK d : Depths(open, d) /\ Len(scope.levels) = d[Len(open)] - Closed(open, expects)
      BY DEF CInv, DepthOK
    <2>2. d[1] = d[0] + Opens(open[1]) /\ d[0] = 1 /\ 1 \in 1 .. 1
      BY <1>4, <2>1 DEF Depths
    <2>3. Closed(open, expects) = 0 /\ open[1] = top
      BY <1>1, <1>3, <1>4, TopShape DEF Closed
    <2> QED BY <1>4, <1>5, <2>1, <2>2, <2>3
  <1>7. ScopeOK(scope') /\ Len(scope'.levels) = 1
    <2>0. ScopeOK(scope)
      BY DEF CInv
    <2>1. Len(scope.levels) >= 2
      BY <1>6
    <2>2. /\ ScopeOK(close_scope(scope))
          /\ Len(close_scope(scope).levels) = Len(scope.levels) - 1
      BY <2>0, <2>1, CloseScope
    <2> QED BY <1>1, <1>6, <2>2
  <1>8. EmitterOK(emitter)
    BY DEF CInv
  <1>9. WellFormed(em) => JumpsInside(resolve(em))
    BY <1>8, Resolving
  <1>10. em.pending = emitter.pending /\ em.labels = emitter.labels
    BY <1>8, AddStraight DEF Straight, JumpOps
  <1> HIDE DEF em
  <1>11. IsSeq(functions') /\ \A k \in DOMAIN functions' : JumpsInside(functions'[k].code)
    <2>1. IsSeq(functions) /\ \A k \in DOMAIN functions : JumpsInside(functions[k].code)
      BY DEF CInv
    <2>2. CASE Resolves(em)
      <3> DEFINE gs == Append(functions, f)
                 n  == Len(functions)
      <3>1. JumpsInside(f.code)
        BY <1>9, <2>2 DEF Resolves
      <3> HIDE DEF f
      <3>2. /\ IsSeq(gs) /\ Len(gs) = n + 1 /\ gs[n + 1] = f
            /\ \A k \in 1 .. n : gs[k] = functions[k]
        BY <2>1, AppendFacts
      <3> HIDE DEF gs
      <3>3. n \in Nat /\ DOMAIN functions = 1 .. n /\ DOMAIN gs = 1 .. n + 1
        BY <2>1, <3>2, SeqFacts
      <3>4. \A k \in DOMAIN gs : k \in DOMAIN functions \/ k = n + 1
        BY <3>3
      <3>5. \A k \in DOMAIN gs : JumpsInside(gs[k].code)
        BY <2>1, <3>1, <3>2, <3>3, <3>4
      <3> QED BY <1>1, <2>2, <3>2, <3>5 DEF gs
    <2>3. CASE ~Resolves(em)
      BY <1>1, <2>1, <2>3
    <2> QED BY <2>2, <2>3
  <1>12. ASSUME stale = 0
         PROVE  WellFormed(em) /\ LoopsOK(<<>>, "function", loops)
    <2>1. PendingOK(emitter, open, expects) /\ LoopsOK(open, expects, loops)
          /\ IsSeq(loops)
      BY <1>1, <1>12 DEF CInv
    <2>2. \A l : ~Owed(open, expects, l)
      BY <1>4, <1>5 DEF Owed, Owing
    <2>3. WellFormed(em)
      BY <1>10, <2>1, <2>2 DEF WellFormed, PendingOK
    <2>4. LoopsOK(<<>>, "function", loops)
      BY <1>5, <2>1, Outside, LoopsNone
    <2> QED BY <2>3, <2>4
  <1>13. IsSeq(loops) /\ stale \in Nat
    BY DEF CInv
  <1> QED BY <1>1, <1>2, <1>7, <1>11, <1>12, <1>13, Outside, NoCode DEF CInv

LEMMA EndKeeps ==
  ASSUME CInv, parse_program_ends
  PROVE  CInv'
BY DEF CInv, parse_program_ends, historyVars

LEMMA ErrorKeeps ==
  ASSUME CInv, syntax_error
  PROVE  CInv'
BY Rejecting DEF CInv, syntax_error, historyVars

(* The next parse begins with the loops that the last one left.            *)
LEMMA InitParserKeeps ==
  ASSUME CInv, init_parser
  PROVE  CInv'
PROOF
  <1>1. /\ emitter' = begin_func /\ functions' = <<>> /\ scope' = VarManager
        /\ open' = <<>> /\ expects' = "function" /\ status' = "parsing"
        /\ loops' = loops /\ stale' = Len(loops)
    BY DEF init_parser, Begin
  <1>2. IsSeq(loops) /\ Len(loops) \in Nat /\ (Len(loops) = 0 => loops = <<>>)
    BY SeqFacts DEF CInv
  <1>3. DOMAIN <<>> = {}
    OBVIOUS
  <1> QED BY <1>1, <1>2, <1>3, Outside, FreshScope, NoCode, NoneIsSeq, NoLoops DEF CInv

LEMMA Starts == Init => CInv
PROOF
  <1> SUFFICES ASSUME Init PROVE CInv
    OBVIOUS
  <1>1. DOMAIN <<>> = {}
    OBVIOUS
  <1> QED BY <1>1, Outside, FreshScope, NoCode, NoneIsSeq, NoLoops DEF CInv, Init

LEMMA Steps == CInv /\ [Next]_vars => CInv'
PROOF
  <1> SUFFICES ASSUME CInv, [Next]_vars PROVE CInv'
    OBVIOUS
  <1>1. CASE Next
    BY <1>1, AssignKeeps, CallKeeps, ReturnKeeps, BreakKeeps, IfKeeps, EndThenKeeps,
       ElseKeeps, NoElseKeeps, EndElseKeeps, WhileKeeps, ForKeeps, InitKeeps,
       NoInitKeeps, HeaderKeeps, LoopKeeps, FunctionKeeps, EndFunctionKeeps, EndKeeps,
       ErrorKeeps, InitParserKeeps DEF Next
  <1>2. CASE UNCHANGED vars
    BY <1>2 DEF vars, parserVars, historyVars, CInv
  <1> QED BY <1>1, <1>2

LEMMA Invariance == Spec => []CInv
BY Starts, Steps, PTL DEF Spec

(* Whatever is parsed, and after whatever failed, no jump of a compiled    *)
(* function leaves its code; and a label is missing only if a parse failed *)
(* inside of a loop before.                                                *)
THEOREM JumpsAlwaysLand == Spec => []JumpsLand
PROOF
  <1>1. CInv => JumpsLand
    <2> SUFFICES ASSUME CInv PROVE JumpsLand
      OBVIOUS
    <2>1. stale \in Nat /\ (stale = 0 => status # "ill formed")
          /\ \A k \in DOMAIN functions : JumpsInside(functions[k].code)
      BY DEF CInv
    <2>2. status = "ill formed" => stale > 0
      <3>1. stale = 0 \/ stale > 0
        <4>1. \A k \in Nat : k = 0 \/ k > 0
          OBVIOUS
        <4>2. stale \in Nat
          BY <2>1, Zenon
        <4> QED BY <4>1, <4>2, Zenon
      <3> QED BY <2>1, <3>1, Zenon
    <2> QED BY <2>1, <2>2 DEF JumpsLand
  <1> QED BY <1>1, Invariance, PTL

(* Variables in scope never share a register, and closing a scope forgets  *)
(* its own names only.                                                     *)
THEOREM VariablesAlwaysApart == Spec => []VariablesApart
PROOF
  <1>1. CInv => VariablesApart
    BY Apart DEF CInv
  <1> QED BY <1>1, Invariance, PTL

-----------------------------------------------------------------------------
(* loops lists the open loops from the outside in, so that its last entry  *)
(* is the innermost one.                                                   *)
LEMMA LastIsInnermost ==
  ASSUME CInv, status = "parsing", stale = 0
  PROVE  /\ (loops # <<>>) <=> (OpenLoops # {})
         /\ \A j \in OpenLoops :
              (\A k \in OpenLoops : k <= j) => break_label = open[j].l2
PROOF
  <1>1. PICK m : Matches(open, expects, loops, m)
    BY DEF CInv, LoopsOK
  <1>2. /\ DOMAIN open = 1 .. Len(open)
        /\ Len(loops) \in Nat /\ (loops = <<>> <=> Len(loops) = 0)
        /\ Len(open) \in Nat
    BY SeqFacts DEF CInv, StackOK
  <1>3. OpenLoops = Headed(open, expects)
    BY <1>2 DEF OpenLoops, Headed
  <1>4. (loops # <<>>) <=> (OpenLoops # {})
    <2>1. CASE loops = <<>>
      <3>1. 1 .. Len(loops) = {}
        BY <1>2, <2>1
      <3> QED BY <1>1, <1>3, <2>1, <3>1 DEF Matches
    <2>2. CASE loops # <<>>
      <3>1. 1 \in 1 .. Len(loops)
        BY <1>2, <2>2
      <3> QED BY <1>1, <1>3, <2>2, <3>1 DEF Matches
    <2> QED BY <2>1, <2>2
  <1>5. ASSUME NEW j \in OpenLoops, \A k \in OpenLoops : k <= j
        PROVE  break_label = open[j].l2
    <2> DEFINE n == Len(loops)
    <2>1. n \in 1 .. n /\ n \in Nat
      BY <1>2, <1>4, <1>5
    <2>2. PICK i \in 1 .. n : m[i] = j
      BY <1>1, <1>3, <1>5 DEF Matches
    <2>3. m[n] \in OpenLoops /\ loops[n].end = open[m[n]].l2
      BY <1>1, <1>3, <2>1 DEF Matches
    <2>4. i = n
      <3>1. j \in Nat /\ m[n] \in Nat /\ m[n] <= j
        <4>1. OpenLoops \subseteq 1 .. Len(open)
          BY <1>2 DEF OpenLoops
        <4>2. \A k \in 1 .. Len(open) : k \in Nat
          BY <1>2
        <4>3. j \in Nat /\ m[n] \in Nat
          BY <1>5, <2>3, <4>1, <4>2, Zenon
        <4> QED BY <1>5, <2>3, <4>3, Zenon
      <3>2. i < n => j < m[n]
        BY <1>1, <2>1, <2>2 DEF Matches
      <3> QED BY <2>1, <2>2, <3>1, <3>2
    <2> QED BY <2>2, <2>3, <2>4 DEF break_label, back
  <1> QED BY <1>4, <1>5

(* At any depth of loops, branches and functions and in every sequence of  *)
(* parses, a break leaves the innermost loop it is in, and there is one,   *)
(* unless the parse began with the labels of an earlier one.               *)
THEOREM BreaksAlwaysInnermost == Spec => []BreaksInnermost
PROOF
  <1>1. CInv => BreaksInnermost
    BY LastIsInnermost DEF BreaksInnermost
  <1> QED BY <1>1, Invariance, PTL
===============================================================================
