------------------------ MODULE PluginExecutorProofs ------------------------
(***************************************************************************)
(* What holds of the workers of a plugin for any plugin, requests and      *)
(* number of workers.                                                      *)
(*                                                                         *)
(* Each handler is a program, and a program is put together from few       *)
(* parts: what holds of the contexts that are open at each of its steps is *)
(* proved part by part, and then for each handler (Routed). The invariant  *)
(* of a worker says that what is left of its program fits the contexts     *)
(* that it has open.                                                       *)
(*                                                                         *)
(* Then what starting the plugin leaves behind: announcements that can be  *)
(* put together again (PiecesAreWhole), tables that hold the plugin's own  *)
(* classes, so that no program calls another's (CodeIsRight), and of each  *)
(* name what was declared of it last (WhatIsAnnouncedIsServed).            *)
(***************************************************************************)
EXTENDS PluginExecutor, TLAPS, WellFoundedInduction, SequenceTheorems

-----------------------------------------------------------------------------
(* Programs.                                                               *)

(***************************************************************************)
(* The kinds of contexts, and the kinds that are open, outermost first.    *)
(***************************************************************************)
Contexts == {"generator", "session", "timing", "temp", "response"}

Stacks == Seq(Contexts)

In(k, s) == \E i \in DOMAIN s : s[i] = k

(***************************************************************************)
(* A step of a program of worker w for request q, between two stacks. Code *)
(* of the plugin runs in a session if it is invoked and in none otherwise; *)
(* neither a session nor a timing is entered twice, and what is timed is   *)
(* an instance of the worker's own.                                        *)
(***************************************************************************)
StepFits(w, q, s, x, t) ==
  CASE x.do = "with" ->
         /\ x.what \in Contexts /\ t = Append(s, x.what)
         /\ x.what \in {"session", "timing"} => ~In(x.what, s)
         /\ x.what = "timing" => x.code.owner = w
    [] x.do = "end with" -> s # <<>> /\ t = SubSeq(s, 1, Len(s) - 1)
    [] x.do \in {"run", "caught", "stream"} ->
         t = s /\ (In("session", s) <=> q.action \in Invocations)
    [] OTHER -> t = s

(***************************************************************************)
(* The program p leads from the stack s to the stack t; h[i] is the stack  *)
(* at its i-th step.                                                       *)
(***************************************************************************)
Leads(w, q, s, p, t) ==
  /\ \E S : p \in Seq(S)
  /\ \E h \in [Nat -> Stacks] :
       /\ h[1] = s /\ h[Len(p) + 1] = t
       /\ \A i \in 1 .. Len(p) : StepFits(w, q, h[i], p[i], h[i + 1])

Clean(w, q, s, p) == Leads(w, q, s, p, s)

(***************************************************************************)
(* One step, ...                                                           *)
(***************************************************************************)
LEMMA OneStep ==
  ASSUME NEW w, NEW q, NEW s \in Stacks, NEW t \in Stacks, NEW x, StepFits(w, q, s, x, t)
  PROVE  Leads(w, q, s, <<x>>, t)
<1> DEFINE h == [i \in Nat |-> IF i = 1 THEN s ELSE t]
<1>1. PICK p : p = <<x>>
  OBVIOUS
<1>2. p \in Seq({x}) /\ Len(p) = 1 /\ p[1] = x
  BY <1>1
<1>3. h \in [Nat -> Stacks] /\ h[1] = s /\ h[2] = t
  OBVIOUS
<1> HIDE DEF h
<1>4. \A i \in 1 .. Len(p) : StepFits(w, q, h[i], p[i], h[i + 1])
  <2>1. \A i \in 1 .. Len(p) : i = 1 /\ i + 1 = 2
    BY <1>2
  <2> QED
    BY <1>2, <1>3, <2>1
<1>5. h[Len(p) + 1] = t
  BY <1>2, <1>3
<1>6. Leads(w, q, s, p, t)
  BY <1>2, <1>3, <1>4, <1>5 DEF Leads
<1> QED
  BY <1>1, <1>6

(***************************************************************************)
(* ... two programs, one after the other, ...                              *)
(***************************************************************************)
LEMMA InTurn ==
  ASSUME NEW w, NEW q, NEW s, NEW t, NEW u, NEW p, NEW r,
         Leads(w, q, s, p, t), Leads(w, q, t, r, u)
  PROVE  Leads(w, q, s, p \o r, u)
<1>1. PICK S1 : p \in Seq(S1)
  BY DEF Leads
<1>2. PICK S2 : r \in Seq(S2)
  BY DEF Leads
<1>3. p \in Seq(S1 \cup S2) /\ r \in Seq(S1 \cup S2)
  BY <1>1, <1>2
<1>4. PICK pr : pr = p \o r
  OBVIOUS
<1>m. PICK m \in Nat : m = Len(p)
  BY <1>3
<1>n. PICK n \in Nat : n = Len(r)
  BY <1>3
<1>5. /\ pr \in Seq(S1 \cup S2) /\ Len(pr) = m + n
      /\ \A i \in 1 .. m : pr[i] = p[i]
      /\ \A i \in m + 1 .. m + n : pr[i] = r[i - m]
  BY <1>3, <1>4, <1>m, <1>n
<1>6. PICK g \in [Nat -> Stacks] :
        /\ g[1] = s /\ g[m + 1] = t
        /\ \A i \in 1 .. m : StepFits(w, q, g[i], p[i], g[i + 1])
  BY <1>m DEF Leads
<1>7. PICK k \in [Nat -> Stacks] :
        /\ k[1] = t /\ k[n + 1] = u
        /\ \A i \in 1 .. n : StepFits(w, q, k[i], r[i], k[i + 1])
  BY <1>n DEF Leads
<1> DEFINE h == [i \in Nat |-> IF i <= m THEN g[i] ELSE k[i - m]]
<1>8. h \in [Nat -> Stacks]
  <2>1. \A i \in Nat : ~(i <= m) => i - m \in Nat
    OBVIOUS
  <2> QED
    BY <1>6, <1>7, <2>1
<1>9. /\ \A i \in Nat : i <= m => h[i] = g[i]
      /\ \A i \in Nat : ~(i <= m) => h[i] = k[i - m]
  OBVIOUS
<1> HIDE DEF h
<1>10. h[m + 1] = g[m + 1]
  BY <1>6, <1>7, <1>9
<1>11. h[1] = s /\ h[m + n + 1] = u
  <2>1. h[1] = s
    <3>1. CASE m = 0
      BY <1>6, <1>10, <3>1
    <3>2. CASE m # 0
      BY <1>6, <1>9, <3>2
    <3> QED
      BY <3>1, <3>2
  <2>2. m + n + 1 \in Nat /\ ~(m + n + 1 <= m) /\ (m + n + 1) - m = n + 1
    OBVIOUS
  <2> QED
    BY <1>7, <1>9, <2>1, <2>2
<1>12. ASSUME NEW i \in 1 .. m + n PROVE StepFits(w, q, h[i], pr[i], h[i + 1])
  <2>1. CASE i <= m
    <3>1. i \in 1 .. m /\ h[i] = g[i] /\ pr[i] = p[i]
      BY <1>5, <1>9, <2>1
    <3>2. h[i + 1] = g[i + 1]
      BY <1>9, <1>10, <2>1
    <3> QED
      BY <1>6, <3>1, <3>2
  <2>2. CASE ~(i <= m)
    <3>1. PICK j \in 1 .. n : j = i - m
      BY <2>2
    <3>2. i \in m + 1 .. m + n /\ i + 1 \in Nat /\ ~(i + 1 <= m) /\ (i + 1) - m = j + 1
      BY <2>2, <3>1
    <3>3. h[i] = k[j] /\ h[i + 1] = k[j + 1] /\ pr[i] = r[j]
      BY <1>5, <1>9, <2>2, <3>1, <3>2
    <3> QED
      BY <1>7, <3>3
  <2> QED
    BY <2>1, <2>2
<1>13. Leads(w, q, s, pr, u)
  BY <1>5, <1>8, <1>11, <1>12 DEF Leads
<1> QED
  BY <1>4, <1>13

(***************************************************************************)
(* ... and none at all.                                                    *)
(***************************************************************************)
LEMMA NoStep ==
  ASSUME NEW w, NEW q, NEW s \in Stacks PROVE Clean(w, q, s, <<>>)
<1> DEFINE h == [i \in Nat |-> s]
<1>1. PICK p : p = <<>>
  OBVIOUS
<1>2. p \in Seq({}) /\ Len(p) = 0
  BY <1>1
<1>3. h \in [Nat -> Stacks] /\ h[1] = s /\ h[Len(p) + 1] = s
  BY <1>2
<1> HIDE DEF h
<1>4. \A i \in 1 .. Len(p) : StepFits(w, q, h[i], p[i], h[i + 1])
  BY <1>2
<1>5. Leads(w, q, s, p, s)
  BY <1>2, <1>3, <1>4 DEF Leads
<1> QED
  BY <1>1, <1>5 DEF Clean

(***************************************************************************)
(* A program after another keeps the stack if both do.                     *)
(***************************************************************************)
LEMMA BothClean ==
  ASSUME NEW w, NEW q, NEW s, NEW p, NEW r, Clean(w, q, s, p), Clean(w, q, s, r)
  PROVE  Clean(w, q, s, p \o r)
BY InTurn DEF Clean

-----------------------------------------------------------------------------
(* Stacks.                                                                 *)

(***************************************************************************)
(* What is open after another context has been entered.                    *)
(***************************************************************************)
LEMMA Pushed ==
  ASSUME NEW s \in Stacks, NEW k \in Contexts
  PROVE  /\ Append(s, k) \in Stacks
         /\ Append(s, k) # <<>>
         /\ SubSeq(Append(s, k), 1, Len(Append(s, k)) - 1) = s
         /\ \A x : In(x, Append(s, k)) <=> In(x, s) \/ x = k
<1>1. PICK t : t = Append(s, k)
  OBVIOUS
<1>2. /\ t \in Stacks /\ s \in Stacks /\ Len(s) \in Nat /\ Len(t) = Len(s) + 1
      /\ DOMAIN s = 1 .. Len(s) /\ DOMAIN t = 1 .. Len(t)
      /\ \A i \in DOMAIN s : t[i] = s[i]
      /\ t[Len(t)] = k
  BY <1>1 DEF Stacks
<1>3. SubSeq(t, 1, Len(t) - 1) = s
  BY <1>1, <1>2 DEF Stacks
<1>4. \A i \in DOMAIN t : i \in DOMAIN s \/ i = Len(t)
  BY <1>2
<1>5. \A i \in DOMAIN s : i \in DOMAIN t
  BY <1>2
<1>6. Len(t) \in DOMAIN t
  BY <1>2
<1>7. ASSUME NEW x PROVE In(x, t) <=> In(x, s) \/ x = k
  BY <1>2, <1>4, <1>5, <1>6 DEF In
<1>8. t # <<>>
  BY <1>2
<1> QED
  BY <1>1, <1>2, <1>3, <1>7, <1>8

(***************************************************************************)
(* Nothing is open at first.                                               *)
(***************************************************************************)
LEMMA NoneOpen == <<>> \in Stacks /\ \A x : ~In(x, <<>>)
<1>1. \A x : ~In(x, <<>>)
  BY DEF In
<1> QED
  BY <1>1 DEF Stacks

(***************************************************************************)
(* Code of the plugin that q runs is to find the session there is, or      *)
(* none.                                                                   *)
(***************************************************************************)
Codable(q, s) == In("session", s) <=> q.action \in Invocations

-----------------------------------------------------------------------------
(* The parts of programs.                                                  *)

(***************************************************************************)
(* Steps that ask nothing of the stack, ...                                *)
(***************************************************************************)
LEMMA PlainSteps ==
  ASSUME NEW w, NEW q, NEW s \in Stacks
  PROVE  /\ Clean(w, q, s, <<Return>>)
         /\ Clean(w, q, s, Fails)
         /\ \A x : Clean(w, q, s, <<Yield(x)>>)
<1>1. StepFits(w, q, s, Return, s)
  BY DEF StepFits, Return, Step
<1>2. StepFits(w, q, s, Step("raise", None, None, None), s)
  BY DEF StepFits, Step
<1>3. \A x : StepFits(w, q, s, Yield(x), s)
  BY DEF StepFits, Yield, Step
<1>4. Clean(w, q, s, <<Return>>)
  BY <1>1, OneStep DEF Clean
<1>5. Clean(w, q, s, Fails)
  BY <1>2, OneStep DEF Clean, Fails
<1>6. \A x : Clean(w, q, s, <<Yield(x)>>)
  BY <1>3, OneStep DEF Clean
<1> QED
  BY <1>4, <1>5, <1>6

(***************************************************************************)
(* ... steps that run the plugin's code, ...                               *)
(***************************************************************************)
LEMMA CodeSteps ==
  ASSUME NEW w, NEW q, NEW s \in Stacks, Codable(q, s), NEW c, NEW hook
  PROVE  /\ Clean(w, q, s, <<Run(c, hook)>>)
         /\ Clean(w, q, s, <<Caught(c, hook)>>)
         /\ \A x : Clean(w, q, s, <<Stream(c, hook, x)>>)
         /\ Clean(w, q, s, Optional(c, hook))
         /\ Clean(w, q, s, AIModel_get_model_schema(c))
<1> USE DEF Codable
<1>1. \A h : StepFits(w, q, s, Run(c, h), s)
  BY DEF StepFits, Run, Step
<1>2. StepFits(w, q, s, Caught(c, hook), s)
  BY DEF StepFits, Caught, Step
<1>3. \A x : StepFits(w, q, s, Stream(c, hook, x), s)
  BY DEF StepFits, Stream, Step
<1>4. \A h : Clean(w, q, s, <<Run(c, h)>>)
  BY <1>1, OneStep DEF Clean
<1>5. Clean(w, q, s, <<Caught(c, hook)>>)
  BY <1>2, OneStep DEF Clean
<1>6. \A x : Clean(w, q, s, <<Stream(c, hook, x)>>)
  BY <1>3, OneStep DEF Clean
<1>7. Clean(w, q, s, Optional(c, hook))
  BY <1>4, PlainSteps DEF Optional
<1>8. Clean(w, q, s, AIModel_get_model_schema(c))
  BY <1>4, NoStep DEF AIModel_get_model_schema
<1> QED
  BY <1>4, <1>5, <1>6, <1>7, <1>8

(***************************************************************************)
(* ... the ends of a context, ...                                          *)
(***************************************************************************)
LEMMA OpensAndCloses ==
  ASSUME NEW w, NEW q, NEW s \in Stacks, NEW k \in Contexts, NEW c,
         k \in {"session", "timing"} => ~In(k, s),
         k = "timing" => c.owner = w
  PROVE  /\ Leads(w, q, s, <<With(k, c)>>, Append(s, k))
         /\ Leads(w, q, Append(s, k), <<EndWith>>, s)
<1>1. PICK t : t = Append(s, k)
  OBVIOUS
<1>2. t \in Stacks /\ t # <<>> /\ SubSeq(t, 1, Len(t) - 1) = s
  BY <1>1, Pushed
<1>3. StepFits(w, q, s, With(k, c), t)
  <2>1. With(k, c).do = "with" /\ With(k, c).what = k /\ With(k, c).code = c
    BY DEF With, Step
  <2> QED
    BY <1>1, <2>1 DEF StepFits
<1>4. StepFits(w, q, t, EndWith, s)
  <2>1. EndWith.do = "end with"
    BY DEF EndWith, Step
  <2> QED
    BY <1>2, <2>1 DEF StepFits
<1>5. Leads(w, q, s, <<With(k, c)>>, t)
  BY <1>2, <1>3, OneStep
<1>6. Leads(w, q, t, <<EndWith>>, s)
  BY <1>2, <1>4, OneStep
<1> QED
  BY <1>1, <1>5, <1>6

(***************************************************************************)
(* ... and a context around a program.                                     *)
(***************************************************************************)
LEMMA Inside ==
  ASSUME NEW w, NEW q, NEW s \in Stacks, NEW k \in Contexts, NEW c, NEW p,
         k \in {"session", "timing"} => ~In(k, s),
         k = "timing" => c.owner = w,
         Clean(w, q, Append(s, k), p)
  PROVE  Clean(w, q, s, <<With(k, c)>> \o p \o <<EndWith>>)
<1>1. PICK t : t = Append(s, k)
  OBVIOUS
<1>2. PICK a : a = <<With(k, c)>>
  OBVIOUS
<1>3. PICK b : b = <<EndWith>>
  OBVIOUS
<1>4. Leads(w, q, s, a, t) /\ Leads(w, q, t, b, s)
  BY <1>1, <1>2, <1>3, OpensAndCloses
<1>5. Leads(w, q, t, p, t)
  BY <1>1 DEF Clean
<1>6. Leads(w, q, s, a \o p, t)
  BY <1>4, <1>5, InTurn
<1>7. Leads(w, q, s, a \o p \o b, s)
  BY <1>4, <1>6, InTurn
<1> QED
  BY <1>2, <1>3, <1>7 DEF Clean

(***************************************************************************)
(* Sequences are the same if their elements are.                           *)
(***************************************************************************)
LEMMA SameElements ==
  ASSUME NEW S, NEW x \in Seq(S), NEW y \in Seq(S), Len(x) = Len(y),
         \A i \in 1 .. Len(x) : x[i] = y[i]
  PROVE  x = y
OBVIOUS

(***************************************************************************)
(* What two sequences are one after the other, ...                         *)
(***************************************************************************)
LEMMA Joint ==
  ASSUME NEW S, NEW x \in Seq(S), NEW y \in Seq(S)
  PROVE  /\ x \o y \in Seq(S) /\ Len(x \o y) = Len(x) + Len(y)
         /\ \A i \in 1 .. Len(x) : (x \o y)[i] = x[i]
         /\ \A i \in 1 .. Len(y) : (x \o y)[Len(x) + i] = y[i]
<1>1. PICK m \in Nat : m = Len(x)
  OBVIOUS
<1>2. PICK n \in Nat : n = Len(y)
  OBVIOUS
<1>3. PICK z : z = x \o y
  OBVIOUS
<1>4. /\ z \in Seq(S) /\ Len(z) = m + n
      /\ \A i \in 1 .. m : z[i] = x[i]
      /\ \A i \in m + 1 .. m + n : z[i] = y[i - m]
  BY <1>1, <1>2, <1>3
<1>5. \A i \in 1 .. n : z[m + i] = y[i]
  <2>1. \A i \in 1 .. n : m + i \in m + 1 .. m + n /\ (m + i) - m = i
    OBVIOUS
  <2> QED
    BY <1>4, <2>1
<1> QED
  BY <1>1, <1>2, <1>3, <1>4, <1>5

(***************************************************************************)
(* ... if they are short.                                                  *)
(***************************************************************************)
LEMMA TwoSteps == \A a, b : <<a>> \o <<b>> = <<a, b>>
<1> SUFFICES ASSUME NEW a, NEW b PROVE <<a>> \o <<b>> = <<a, b>>
  OBVIOUS
<1>1. PICK S : S = {a, b}
  OBVIOUS
<1>2. PICK x : x = <<a>>
  OBVIOUS
<1>3. PICK y : y = <<b>>
  OBVIOUS
<1>4. PICK v : v = <<a, b>>
  OBVIOUS
<1>5. x \in Seq(S) /\ y \in Seq(S) /\ Len(x) = 1 /\ Len(y) = 1 /\ x[1] = a /\ y[1] = b
  BY <1>1, <1>2, <1>3
<1>6. PICK z : z = x \o y
  OBVIOUS
<1>7. z \in Seq(S) /\ Len(z) = 2 /\ z[1] = a /\ z[2] = b
  <2>1. z[1] = x[1] /\ z[1 + 1] = y[1] /\ z \in Seq(S) /\ Len(z) = 1 + 1
    BY <1>5, <1>6, Joint
  <2> QED
    BY <1>5, <2>1
<1>8. v \in Seq(S) /\ Len(v) = 2 /\ v[1] = a /\ v[2] = b
  BY <1>1, <1>4
<1>9. \A i \in 1 .. Len(z) : z[i] = v[i]
  BY <1>7, <1>8
<1>10. z = v
  BY <1>7, <1>8, <1>9, SameElements
<1> QED
  BY <1>2, <1>3, <1>4, <1>6, <1>10

(***************************************************************************)
(* The same for three.                                                     *)
(***************************************************************************)
LEMMA ThreeSteps == \A a, b, c : <<a>> \o <<b>> \o <<c>> = <<a, b, c>>
<1> SUFFICES ASSUME NEW a, NEW b, NEW c PROVE <<a>> \o <<b>> \o <<c>> = <<a, b, c>>
  OBVIOUS
<1>1. PICK S : S = {a, b, c}
  OBVIOUS
<1>2. PICK x : x = <<a, b>>
  OBVIOUS
<1>3. PICK y : y = <<c>>
  OBVIOUS
<1>4. PICK v : v = <<a, b, c>>
  OBVIOUS
<1>5. /\ x \in Seq(S) /\ y \in Seq(S) /\ Len(x) = 2 /\ Len(y) = 1
      /\ x[1] = a /\ x[2] = b /\ y[1] = c
  BY <1>1, <1>2, <1>3
<1>6. PICK z : z = x \o y
  OBVIOUS
<1>7. z \in Seq(S) /\ Len(z) = 3 /\ z[1] = a /\ z[2] = b /\ z[3] = c
  <2>1. /\ z \in Seq(S) /\ Len(z) = Len(x) + Len(y)
        /\ \A i \in 1 .. Len(x) : z[i] = x[i]
        /\ \A i \in 1 .. Len(y) : z[Len(x) + i] = y[i]
    <3>1. x \in Seq(S) /\ y \in Seq(S)
      BY <1>5
    <3> QED
      BY <1>6, <3>1, Joint
  <2>2. z[1] = x[1] /\ z[2] = x[2] /\ z[2 + 1] = y[1]
    BY <1>5, <2>1
  <2> QED
    BY <1>5, <2>1, <2>2
<1>8. v \in Seq(S) /\ Len(v) = 3 /\ v[1] = a /\ v[2] = b /\ v[3] = c
  BY <1>1, <1>4
<1>9. \A i \in 1 .. Len(z) : z[i] = v[i]
  BY <1>7, <1>8
<1>10. z = v
  BY <1>7, <1>8, <1>9, SameElements
<1>11. <<a>> \o <<b>> = x
  BY <1>2, TwoSteps
<1> QED
  BY <1>3, <1>4, <1>6, <1>10, <1>11

(***************************************************************************)
(* A generator, a session and a timing.                                    *)
(***************************************************************************)
LEMMA Enclosed ==
  ASSUME NEW w, NEW q, NEW s \in Stacks, NEW p
  PROVE  /\ Clean(w, q, Append(s, "generator"), p) => Clean(w, q, s, Generating(p))
         /\ ~In("session", s) /\ Clean(w, q, Append(s, "session"), p)
              => Clean(w, q, s, use_current_session(p))
         /\ \A m : ~In("timing", s) /\ m.owner = w /\ Clean(w, q, Append(s, "timing"), p)
              => Clean(w, q, s, timing_context(m, p))
<1>1. {"generator", "session", "timing"} \subseteq Contexts
  BY DEF Contexts
<1>2. Clean(w, q, Append(s, "generator"), p) => Clean(w, q, s, Generating(p))
  BY <1>1, Inside DEF Generating
<1>3. ~In("session", s) /\ Clean(w, q, Append(s, "session"), p)
        => Clean(w, q, s, use_current_session(p))
  BY <1>1, Inside DEF use_current_session
<1>4. \A m : ~In("timing", s) /\ m.owner = w /\ Clean(w, q, Append(s, "timing"), p)
        => Clean(w, q, s, timing_context(m, p))
  BY <1>1, Inside DEF timing_context
<1> QED
  BY <1>2, <1>3, <1>4

(***************************************************************************)
(* What is open, and what may run, inside of another context.              *)
(***************************************************************************)
LEMMA Entered ==
  ASSUME NEW q, NEW s \in Stacks, NEW k \in Contexts
  PROVE  /\ Append(s, k) \in Stacks
         /\ \A x : x # k /\ ~In(x, s) => ~In(x, Append(s, k))
         /\ k # "session" /\ Codable(q, s) => Codable(q, Append(s, k))
         /\ k = "session" /\ q.action \in Invocations => Codable(q, Append(s, k))
<1>1. Append(s, k) \in Stacks /\ \A x : In(x, Append(s, k)) <=> In(x, s) \/ x = k
  BY Pushed
<1>2. \A x : x # k /\ ~In(x, s) => ~In(x, Append(s, k))
  BY <1>1
<1>3. In("session", Append(s, k)) <=> In("session", s) \/ "session" = k
  BY <1>1
<1>4. k # "session" /\ Codable(q, s) => Codable(q, Append(s, k))
  BY <1>3 DEF Codable
<1>5. k = "session" /\ q.action \in Invocations => Codable(q, Append(s, k))
  BY <1>3 DEF Codable
<1> QED
  BY <1>1, <1>2, <1>4, <1>5

-----------------------------------------------------------------------------
(* The methods of the interfaces.                                          *)

(***************************************************************************)
(* The code of a model, timed.                                             *)
(***************************************************************************)
LEMMA TimedSteps ==
  ASSUME NEW w, NEW q, NEW s \in Stacks, Codable(q, s), ~In("timing", s),
         NEW m, m.owner = w, NEW hook
  PROVE  /\ Clean(w, q, s, timing_context(m, <<Run(m, hook)>>))
         /\ Clean(w, q, s, timing_context(m, Optional(m, hook)))
         /\ \A x : Clean(w, q, s, timing_context(m, <<Stream(m, hook, x)>>))
<1>1. PICK t : t = Append(s, "timing")
  OBVIOUS
<1>2. "timing" \in Contexts /\ "timing" # "session"
  BY DEF Contexts
<1>3. t \in Stacks /\ Codable(q, t)
  BY <1>1, <1>2, Entered
<1>4. Clean(w, q, t, <<Run(m, hook)>>)
  BY <1>3, CodeSteps
<1>5. Clean(w, q, t, Optional(m, hook))
  BY <1>3, CodeSteps
<1>6. \A x : Clean(w, q, t, <<Stream(m, hook, x)>>)
  BY <1>3, CodeSteps
<1>7. \A p : Clean(w, q, t, p) => Clean(w, q, s, timing_context(m, p))
  BY <1>1, Enclosed
<1> QED
  BY <1>4, <1>5, <1>6, <1>7

(***************************************************************************)
(* What a model is asked for.                                              *)
(***************************************************************************)
LEMMA ModelMethods ==
  ASSUME NEW w, NEW q, NEW s \in Stacks, Codable(q, s), ~In("timing", s),
         NEW m, m.owner = w, NEW result
  PROVE  /\ Clean(w, q, s, AIModel_validate_credentials(m))
         /\ Clean(w, q, s, LargeLanguageModel_invoke(m))
         /\ Clean(w, q, s, LargeLanguageModel_start_polling(m))
         /\ Clean(w, q, s, LargeLanguageModel_check_polling(m))
         /\ Clean(w, q, s, LargeLanguageModel_get_num_tokens(m))
         /\ Clean(w, q, s, TextEmbeddingModel_invoke(m))
         /\ Clean(w, q, s, TextEmbeddingModel_invoke_multimodal(m))
         /\ Clean(w, q, s, TextEmbeddingModel_get_num_tokens(m))
         /\ Clean(w, q, s, RerankModel_invoke(m))
         /\ Clean(w, q, s, RerankModel_invoke_multimodal(m))
         /\ Clean(w, q, s, TTSModel_invoke(m, result))
         /\ Clean(w, q, s, TTSModel_get_tts_model_mime_type(m))
         /\ Clean(w, q, s, TTSModel_get_tts_model_voices(m))
         /\ Clean(w, q, s, Speech2TextModel_invoke(m))
         /\ Clean(w, q, s, ModerationModel_invoke(m))
<1>1. /\ Clean(w, q, s, Fails)
      /\ \A x : Clean(w, q, s, <<Yield(x)>>)
  BY PlainSteps
<1>2. /\ \A h : Clean(w, q, s, <<Run(m, h)>>)
      /\ Clean(w, q, s, AIModel_get_model_schema(m))
  BY CodeSteps
<1>3. /\ \A h : Clean(w, q, s, timing_context(m, <<Run(m, h)>>))
      /\ \A h : Clean(w, q, s, timing_context(m, Optional(m, h)))
      /\ \A h, x : Clean(w, q, s, timing_context(m, <<Stream(m, h, x)>>))
  BY TimedSteps
<1>4. \A p, r : Clean(w, q, s, p) /\ Clean(w, q, s, r) => Clean(w, q, s, p \o r)
  BY BothClean
<1>5. Clean(w, q, s, LargeLanguageModel_invoke(m))
  BY <1>2, <1>3, <1>4 DEF LargeLanguageModel_invoke
<1>6. Clean(w, q, s, LargeLanguageModel_start_polling(m))
  BY <1>1, <1>2, <1>3, <1>4 DEF LargeLanguageModel_start_polling
<1>7. Clean(w, q, s, LargeLanguageModel_check_polling(m))
  BY <1>1, <1>2, <1>3, <1>4 DEF LargeLanguageModel_check_polling
<1>8. Clean(w, q, s, TTSModel_invoke(m, result))
  <2>1. CASE result = "generator"
    <3>1. TTSModel_invoke(m, result) = timing_context(m, <<Run(m, "_invoke")>>)
            \o timing_context(m, <<Stream(m, "_invoke", "message")>>)
      BY <2>1 DEF TTSModel_invoke
    <3> QED
      BY <1>3, <1>4, <3>1
  <2>2. CASE result # "generator"
    <3>1. TTSModel_invoke(m, result) =
            timing_context(m, <<Run(m, "_invoke")>>) \o <<Yield("message")>>
      BY <2>2 DEF TTSModel_invoke
    <3> QED
      BY <1>1, <1>3, <1>4, <3>1
  <2> QED
    BY <2>1, <2>2
<1>9. /\ Clean(w, q, s, TextEmbeddingModel_invoke(m))
      /\ Clean(w, q, s, TextEmbeddingModel_invoke_multimodal(m))
  BY <1>3 DEF TextEmbeddingModel_invoke, TextEmbeddingModel_invoke_multimodal
<1>10. /\ Clean(w, q, s, RerankModel_invoke(m))
       /\ Clean(w, q, s, RerankModel_invoke_multimodal(m))
  BY <1>3 DEF RerankModel_invoke, RerankModel_invoke_multimodal
<1>11. /\ Clean(w, q, s, Speech2TextModel_invoke(m))
       /\ Clean(w, q, s, ModerationModel_invoke(m))
  BY <1>3 DEF Speech2TextModel_invoke, ModerationModel_invoke
<1>12. /\ Clean(w, q, s, TTSModel_get_tts_model_mime_type(m))
       /\ Clean(w, q, s, TTSModel_get_tts_model_voices(m))
  BY <1>2 DEF TTSModel_get_tts_model_mime_type, TTSModel_get_tts_model_voices
<1>13. /\ Clean(w, q, s, AIModel_validate_credentials(m))
       /\ Clean(w, q, s, LargeLanguageModel_get_num_tokens(m))
       /\ Clean(w, q, s, TextEmbeddingModel_get_num_tokens(m))
  BY <1>2 DEF AIModel_validate_credentials, LargeLanguageModel_get_num_tokens,
              TextEmbeddingModel_get_num_tokens
<1> QED
  BY <1>5, <1>6, <1>7, <1>8, <1>9, <1>10, <1>11, <1>12, <1>13

(***************************************************************************)
(* An instance of a model is the worker's that asked for it.               *)
(***************************************************************************)
LEMMA OwnInstance ==
  ASSUME NEW w, NEW q
  PROVE  /\ \A p, t : get_model_instance(p, t, w) # None
                        => get_model_instance(p, t, w).owner = w
         /\ \A base : instance_of(base, q, w) # None
                        => instance_of(base, q, w).owner = w
<1>1. \A cls : InstanceOf(cls, w).owner = w
  BY DEF InstanceOf
<1>2. \A p, t : get_model_instance(p, t, w) # None => get_model_instance(p, t, w).owner = w
  BY <1>1 DEF get_model_instance, get_instance
<1>3. \A base : instance_of(base, q, w) # None => instance_of(base, q, w).owner = w
  BY <1>2 DEF instance_of
<1> QED
  BY <1>2, <1>3

-----------------------------------------------------------------------------
(* The handlers.                                                           *)

(***************************************************************************)
(* What the handlers have in common where nothing is open, first those     *)
(* that are no invocation.                                                 *)
(***************************************************************************)
LEMMA PlainHandler ==
  ASSUME NEW w, NEW q, q.action \notin Invocations
  PROVE  /\ Clean(w, q, <<>>, Fails)
         /\ \A c, hook : Clean(w, q, <<>>, <<Run(c, hook)>>)
         /\ \A c, hook : Clean(w, q, <<>>, Optional(c, hook))
         /\ \A p : Clean(w, q, <<>>, p) => Clean(w, q, <<>>, p \o <<Return>>)
         /\ \A c, hook, x : Clean(w, q, <<>>, Generating(<<Stream(c, hook, x)>>))
         /\ \A c, hook, x : Clean(w, q, <<>>, Generating(<<Run(c, hook)>> \o <<Yield(x)>>))
         /\ Clean(w, q, <<>>, Generating(Fails))
<1>1. <<>> \in Stacks /\ Codable(q, <<>>)
  BY NoneOpen DEF Codable
<1>2. PICK t : t = Append(<<>>, "generator")
  OBVIOUS
<1>3. t \in Stacks /\ Codable(q, t)
  <2>1. "generator" \in Contexts /\ "generator" # "session"
    BY DEF Contexts
  <2> QED
    BY <1>1, <1>2, <2>1, Entered
<1>4. Clean(w, q, <<>>, <<Return>>) /\ Clean(w, q, <<>>, Fails)
  BY <1>1, PlainSteps
<1>5. /\ \A c, hook : Clean(w, q, <<>>, <<Run(c, hook)>>)
      /\ \A c, hook : Clean(w, q, <<>>, Optional(c, hook))
  BY <1>1, CodeSteps
<1>6. \A p : Clean(w, q, t, p) => Clean(w, q, <<>>, Generating(p))
  BY <1>1, <1>2, Enclosed
<1>7. \A c, hook, x : Clean(w, q, t, <<Stream(c, hook, x)>>)
  BY <1>3, CodeSteps
<1>8. Clean(w, q, t, Fails)
  BY <1>3, PlainSteps
<1>10. \A c, hook, x : Clean(w, q, t, <<Run(c, hook)>> \o <<Yield(x)>>)
  <2>1. \A x : Clean(w, q, t, <<Yield(x)>>)
    BY <1>3, PlainSteps
  <2>2. \A c, hook : Clean(w, q, t, <<Run(c, hook)>>)
    BY <1>3, CodeSteps
  <2> QED
    BY <2>1, <2>2, BothClean
<1>9. \A p : Clean(w, q, <<>>, p) => Clean(w, q, <<>>, p \o <<Return>>)
  BY <1>4, BothClean
<1> QED
  BY <1>4, <1>5, <1>6, <1>7, <1>8, <1>9, <1>10

(***************************************************************************)
(* Tools and agents.                                                       *)
(***************************************************************************)
LEMMA ToolHandlers ==
  ASSUME NEW w, NEW q, q.action \notin Invocations
  PROVE  Clean(w, q, <<>>, ToolRoutes(w, q))
<1>1. /\ Clean(w, q, <<>>, Fails)
      /\ \A c, hook : Clean(w, q, <<>>, <<Run(c, hook)>>)
      /\ \A c, hook : Clean(w, q, <<>>, Optional(c, hook))
      /\ \A p : Clean(w, q, <<>>, p) => Clean(w, q, <<>>, p \o <<Return>>)
      /\ \A c, hook, x : Clean(w, q, <<>>, Generating(<<Stream(c, hook, x)>>))
      /\ Clean(w, q, <<>>, Generating(Fails))
  BY PlainHandler
<1>2. Clean(w, q, <<>>, <<>>)
  BY NoneOpen, NoStep
<1>3. Clean(w, q, <<>>, invoke_tool(q))
  BY <1>1 DEF invoke_tool, Found, Tool_invoke
<1>4. Clean(w, q, <<>>, validate_tool_provider_credentials(q))
  BY <1>1 DEF validate_tool_provider_credentials, Answer, Found,
              ToolProvider_validate_credentials
<1>5. Clean(w, q, <<>>, get_tool_runtime_parameters(q))
  BY <1>1 DEF get_tool_runtime_parameters, Found, Tool_get_runtime_parameters
<1>6. Clean(w, q, <<>>, invoke_agent_strategy(q))
  BY <1>1 DEF invoke_agent_strategy, Found, AgentStrategy_invoke
<1> QED
  BY <1>2, <1>3, <1>4, <1>5, <1>6 DEF ToolRoutes

(***************************************************************************)
(* Datasources.                                                            *)
(***************************************************************************)
LEMMA DatasourceHandlers ==
  ASSUME NEW w, NEW q, q.action \notin Invocations
  PROVE  Clean(w, q, <<>>, DatasourceRoutes(w, q))
<1>1. /\ Clean(w, q, <<>>, Fails)
      /\ \A c, hook : Clean(w, q, <<>>, <<Run(c, hook)>>)
      /\ \A c, hook : Clean(w, q, <<>>, Optional(c, hook))
      /\ \A p : Clean(w, q, <<>>, p) => Clean(w, q, <<>>, p \o <<Return>>)
      /\ \A c, hook, x : Clean(w, q, <<>>, Generating(<<Stream(c, hook, x)>>))
      /\ \A c, hook, x : Clean(w, q, <<>>, Generating(<<Run(c, hook)>> \o <<Yield(x)>>))
      /\ Clean(w, q, <<>>, Generating(Fails))
  BY PlainHandler
<1>2. Clean(w, q, <<>>, <<>>)
  BY NoneOpen, NoStep
<1>3. Clean(w, q, <<>>, validate_datasource_credentials(q))
  BY <1>1 DEF validate_datasource_credentials, Answer, Found,
              DatasourceProvider_validate_credentials
<1>4. Clean(w, q, <<>>, datasource_crawl_website(q))
  BY <1>1 DEF datasource_crawl_website, Found, WebsiteCrawl_website_crawl
<1>5. Clean(w, q, <<>>, datasource_get_pages(q))
  BY <1>1 DEF datasource_get_pages, Found, OnlineDocument_get_pages
<1>6. Clean(w, q, <<>>, datasource_get_page_content(q))
  BY <1>1 DEF datasource_get_page_content, Found, OnlineDocument_get_content
<1>7. Clean(w, q, <<>>, datasource_online_drive_browse_files(q))
  BY <1>1 DEF datasource_online_drive_browse_files, Found, OnlineDrive_browse_files
<1>8. Clean(w, q, <<>>, datasource_online_drive_download_file(q))
  BY <1>1 DEF datasource_online_drive_download_file, Found, OnlineDrive_download_file
<1> QED
  BY <1>2, <1>3, <1>4, <1>5, <1>6, <1>7, <1>8 DEF DatasourceRoutes

(***************************************************************************)
(* The OAuth of a provider, and the options of its parameters.             *)
(***************************************************************************)
LEMMA ProviderHandlers ==
  ASSUME NEW w, NEW q, q.action \notin Invocations
  PROVE  /\ Clean(w, q, <<>>, OAuthRoutes(q))
         /\ Clean(w, q, <<>>, fetch_parameter_options(q))
<1>1. /\ Clean(w, q, <<>>, Fails)
      /\ \A c, hook : Clean(w, q, <<>>, Optional(c, hook))
      /\ \A p : Clean(w, q, <<>>, p) => Clean(w, q, <<>>, p \o <<Return>>)
  BY PlainHandler
<1>2. Clean(w, q, <<>>, <<>>)
  BY NoneOpen, NoStep
<1>3. \A c, hook : Clean(w, q, <<>>, oauth(c, hook))
  BY <1>1 DEF oauth, Constructor_oauth, ToolProvider_oauth, DatasourceProvider_oauth
<1>4. \A hook : Clean(w, q, <<>>, _get_oauth_provider_instance(q, hook))
  BY <1>1, <1>3 DEF _get_oauth_provider_instance, Answer, Found
<1>5. Clean(w, q, <<>>, OAuthRoutes(q))
  BY <1>2, <1>4 DEF OAuthRoutes, get_oauth_authorization_url, get_oauth_credentials,
                    refresh_oauth_credentials, revoke_oauth_credentials
<1>6. \A c : Clean(w, q, <<>>,
               CASE "TriggerSubscriptionConstructor" \in c.bases ->
                      Constructor_fetch_parameter_options(c)
                 [] "Event" \in c.bases -> Event_fetch_parameter_options(c)
                 [] OTHER               -> Tool_fetch_parameter_options(c))
  BY <1>1 DEF Constructor_fetch_parameter_options, Event_fetch_parameter_options,
              Tool_fetch_parameter_options
<1>7. Clean(w, q, <<>>, fetch_parameter_options(q))
  BY <1>1, <1>6 DEF fetch_parameter_options, Answer, Found
<1> QED
  BY <1>5, <1>7

(***************************************************************************)
(* Triggers. The response of one is closed whatever it holds.              *)
(***************************************************************************)
LEMMA TriggerHandlers ==
  ASSUME NEW w, NEW q, q.action \notin Invocations
  PROVE  Clean(w, q, <<>>, TriggerRoutes(q))
<1>1. /\ Clean(w, q, <<>>, Fails)
      /\ \A c, hook : Clean(w, q, <<>>, <<Run(c, hook)>>)
      /\ \A c, hook : Clean(w, q, <<>>, Optional(c, hook))
      /\ \A p : Clean(w, q, <<>>, p) => Clean(w, q, <<>>, p \o <<Return>>)
  BY PlainHandler
<1>2. <<>> \in Stacks /\ Codable(q, <<>>)
  BY NoneOpen DEF Codable
<1>3. Clean(w, q, <<>>, <<>>)
  BY <1>2, NoStep
<1>4. Clean(w, q, <<>>, invoke_trigger_event(q))
  BY <1>1 DEF invoke_trigger_event, Answer, Found, Event_on_event
<1>5. Clean(w, q, <<>>, validate_trigger_provider_credentials(q))
  BY <1>1 DEF validate_trigger_provider_credentials, Answer, Found,
              Constructor_validate_api_key
<1>6. Clean(w, q, <<>>, subscribe_trigger(q))
  BY <1>1 DEF subscribe_trigger, Answer, Found, Constructor_create_subscription
<1>7. Clean(w, q, <<>>, unsubscribe_trigger(q))
  BY <1>1 DEF unsubscribe_trigger, Answer, Found, Constructor_delete_subscription
<1>8. Clean(w, q, <<>>, refresh_trigger(q))
  BY <1>1 DEF refresh_trigger, Answer, Found, Constructor_refresh_subscription
<1>9. \A c : Clean(w, q, <<>>, <<With("response", None), Run(c, "response"), EndWith>>)
  <2>1. "response" \in Contexts /\ "response" \notin {"session", "timing"}
    BY DEF Contexts
  <2>2. PICK t : t = Append(<<>>, "response")
    OBVIOUS
  <2>3. t \in Stacks /\ Codable(q, t)
    BY <1>2, <2>1, <2>2, Entered
  <2>4. \A c : Clean(w, q, t, <<Run(c, "response")>>)
    BY <2>3, CodeSteps
  <2>5. \A p : Clean(w, q, t, p)
                 => Clean(w, q, <<>>, <<With("response", None)>> \o p \o <<EndWith>>)
    BY <1>2, <2>1, <2>2, Inside
  <2>6. \A a, b, c : <<a>> \o <<b>> \o <<c>> = <<a, b, c>>
    BY ThreeSteps
  <2> QED
    BY <2>4, <2>5, <2>6
<1>10. Clean(w, q, <<>>, dispatch_trigger_event(q))
  <2>1. \A c : Clean(w, q, <<>>, Trigger_dispatch_event(c)
                 \o <<With("response", None), Run(c, "response"), EndWith>>)
    BY <1>1, <1>9, BothClean DEF Trigger_dispatch_event
  <2> QED
    BY <1>1, <2>1 DEF dispatch_trigger_event, Answer, Found
<1> QED
  BY <1>3, <1>4, <1>5, <1>6, <1>7, <1>8, <1>10 DEF TriggerRoutes

(***************************************************************************)
(* Endpoints.                                                              *)
(***************************************************************************)
LEMMA EndpointHandler ==
  ASSUME NEW w, NEW q, NEW result, q.action \notin Invocations
  PROVE  Clean(w, q, <<>>, invoke_endpoint(q, result))
<1>1. <<>> \in Stacks /\ Codable(q, <<>>)
  BY NoneOpen DEF Codable
<1>2. {"generator", "response"} \subseteq Contexts
  BY DEF Contexts
<1>3. PICK g : g = Append(<<>>, "generator")
  OBVIOUS
<1>4. g \in Stacks /\ Codable(q, g)
  BY <1>1, <1>2, <1>3, Entered
<1>5. PICK r : r = Append(g, "response")
  OBVIOUS
<1>6. r \in Stacks /\ Codable(q, r)
  BY <1>2, <1>4, <1>5, Entered
<1>7. PICK c : c = dispatch_endpoint_request(q.item)
  OBVIOUS
<1>8. PICK called :
        called = IF c = None THEN <<>>
                 ELSE IF result = "error" THEN <<Caught(c, "_invoke")>> ELSE Endpoint_invoke(c)
  OBVIOUS
<1>9. Clean(w, q, g, called)
  <2>1. Clean(w, q, g, <<>>)
    BY <1>4, NoStep
  <2>2. Clean(w, q, g, <<Caught(c, "_invoke")>>) /\ Clean(w, q, g, Endpoint_invoke(c))
    BY <1>4, CodeSteps DEF Endpoint_invoke
  <2> QED
    BY <1>8, <2>1, <2>2
<1>10. PICK body :
         body = IF c = None \/ result = "error" THEN <<Yield("response")>>
                ELSE IF result = "generator"
                THEN <<Yield("headers"), Stream(c, "response", "chunk")>>
                ELSE <<Run(c, "response"), Yield("response")>>
  OBVIOUS
<1>11. Clean(w, q, r, body)
  <2>1. \A x : Clean(w, q, r, <<Yield(x)>>)
    BY <1>6, PlainSteps
  <2>2. /\ Clean(w, q, r, <<Stream(c, "response", "chunk")>>)
        /\ Clean(w, q, r, <<Run(c, "response")>>)
    BY <1>6, CodeSteps
  <2>3. \A a, b : <<a>> \o <<b>> = <<a, b>>
    BY TwoSteps
  <2>4. /\ Clean(w, q, r, <<Yield("headers"), Stream(c, "response", "chunk")>>)
        /\ Clean(w, q, r, <<Run(c, "response"), Yield("response")>>)
    BY <2>1, <2>2, <2>3, BothClean
  <2> QED
    BY <1>10, <2>1, <2>4
<1>12. PICK a : a = <<With("response", None)>>
  OBVIOUS
<1>13. PICK b : b = <<EndWith>>
  OBVIOUS
<1>14. Leads(w, q, g, a, r) /\ Leads(w, q, r, b, g)
  BY <1>2, <1>4, <1>5, <1>12, <1>13, OpensAndCloses
<1>15. Leads(w, q, g, called \o a, r)
  BY <1>9, <1>14, InTurn DEF Clean
<1>16. Clean(w, q, g, called \o a \o body \o b)
  <2>1. Leads(w, q, g, called \o a \o body, r)
    BY <1>11, <1>15, InTurn DEF Clean
  <2> QED
    BY <1>14, <2>1, InTurn DEF Clean
<1>17. Clean(w, q, <<>>, Generating(called \o a \o body \o b))
  BY <1>1, <1>3, <1>16, Enclosed
<1> QED
  BY <1>7, <1>8, <1>10, <1>12, <1>13, <1>17 DEF invoke_endpoint

(***************************************************************************)
(* Models: what is asked of one without invoking it, ...                   *)
(***************************************************************************)
LEMMA PlainModelHandlers ==
  ASSUME NEW w, NEW q, q.action \notin Invocations
  PROVE  /\ Clean(w, q, <<>>, start_llm_polling(w, q))
         /\ Clean(w, q, <<>>, check_llm_polling(w, q))
         /\ Clean(w, q, <<>>, get_llm_num_tokens(w, q))
         /\ Clean(w, q, <<>>, get_text_embedding_num_tokens(w, q))
         /\ Clean(w, q, <<>>, get_tts_model_voices(w, q))
         /\ Clean(w, q, <<>>, validate_model_provider_credentials(q))
         /\ Clean(w, q, <<>>, validate_model_credentials(w, q))
         /\ Clean(w, q, <<>>, get_ai_model_schemas(w, q))
<1>1. <<>> \in Stacks /\ Codable(q, <<>>) /\ ~In("timing", <<>>)
  BY NoneOpen DEF Codable
<1>2. /\ Clean(w, q, <<>>, Fails)
      /\ \A c, hook : Clean(w, q, <<>>, <<Run(c, hook)>>)
      /\ \A p : Clean(w, q, <<>>, p) => Clean(w, q, <<>>, p \o <<Return>>)
  BY PlainHandler
<1>3. \A c : Clean(w, q, <<>>, AIModel_get_model_schema(c))
  BY <1>1, CodeSteps
<1>4. \A m : m.owner = w =>
        /\ Clean(w, q, <<>>, AIModel_validate_credentials(m))
        /\ Clean(w, q, <<>>, LargeLanguageModel_start_polling(m))
        /\ Clean(w, q, <<>>, LargeLanguageModel_check_polling(m))
        /\ Clean(w, q, <<>>, LargeLanguageModel_get_num_tokens(m))
        /\ Clean(w, q, <<>>, TextEmbeddingModel_get_num_tokens(m))
        /\ Clean(w, q, <<>>, TTSModel_get_tts_model_voices(m))
  BY <1>1, ModelMethods
<1>5. /\ \A p, t : get_model_instance(p, t, w) # None
                      => get_model_instance(p, t, w).owner = w
      /\ \A base : instance_of(base, q, w) # None
                      => instance_of(base, q, w).owner = w
  BY OwnInstance
<1>6. \A p, r : Clean(w, q, <<>>, p) /\ Clean(w, q, <<>>, r) => Clean(w, q, <<>>, p \o r)
  BY BothClean
<1>7. \A m : m.owner = w =>
        /\ Clean(w, q, <<>>, AIModel_get_model_schema(m)
             \o IF LargeLanguageModel_supports_polling(m)
                THEN LargeLanguageModel_start_polling(m) ELSE Fails)
        /\ Clean(w, q, <<>>, AIModel_get_model_schema(m)
             \o IF LargeLanguageModel_supports_polling(m)
                THEN LargeLanguageModel_check_polling(m) ELSE Fails)
  BY <1>2, <1>3, <1>4, <1>6
<1>8. Clean(w, q, <<>>, start_llm_polling(w, q))
  BY <1>2, <1>5, <1>7 DEF start_llm_polling, Answer, Found
<1>9. Clean(w, q, <<>>, check_llm_polling(w, q))
  BY <1>2, <1>5, <1>7 DEF check_llm_polling, Answer, Found
<1>10. Clean(w, q, <<>>, get_llm_num_tokens(w, q))
  BY <1>2, <1>4, <1>5 DEF get_llm_num_tokens, Answer, Found
<1>11. Clean(w, q, <<>>, get_text_embedding_num_tokens(w, q))
  BY <1>2, <1>4, <1>5 DEF get_text_embedding_num_tokens, Answer, Found
<1>12. Clean(w, q, <<>>, get_tts_model_voices(w, q))
  BY <1>2, <1>4, <1>5 DEF get_tts_model_voices, Answer, Found
<1>13. Clean(w, q, <<>>, validate_model_provider_credentials(q))
  BY <1>2 DEF validate_model_provider_credentials, Answer, Found,
              ModelProvider_validate_provider_credentials
<1>14. Clean(w, q, <<>>, validate_model_credentials(w, q))
  BY <1>2, <1>4, <1>5 DEF validate_model_credentials, Answer, Found
<1>15. Clean(w, q, <<>>, get_ai_model_schemas(w, q))
  BY <1>2, <1>3 DEF get_ai_model_schemas, Answer, Found
<1> QED
  BY <1>8, <1>9, <1>10, <1>11, <1>12, <1>13, <1>14, <1>15

(***************************************************************************)
(* ... and the invocations, in the session of the request.                 *)
(***************************************************************************)
LEMMA InvocationHandlers ==
  ASSUME NEW w, NEW q, NEW result, q.action \in Invocations
  PROVE  /\ Clean(w, q, <<>>, invoke_llm(w, q))
         /\ Clean(w, q, <<>>, invoke_text_embedding(w, q))
         /\ Clean(w, q, <<>>, invoke_multimodal_embedding(w, q))
         /\ Clean(w, q, <<>>, invoke_rerank(w, q))
         /\ Clean(w, q, <<>>, invoke_multimodal_rerank(w, q))
         /\ Clean(w, q, <<>>, invoke_tts(w, q, result))
         /\ Clean(w, q, <<>>, invoke_speech_to_text(w, q))
         /\ Clean(w, q, <<>>, invoke_moderation(w, q))
<1>1. <<>> \in Stacks /\ ~In("timing", <<>>) /\ ~In("session", <<>>)
  BY NoneOpen
<1>2. \A k \in {"generator", "temp"} :
        /\ k \in Contexts /\ Append(<<>>, k) \in Stacks
        /\ ~In("timing", Append(<<>>, k)) /\ ~In("session", Append(<<>>, k))
  <2>1. \A k \in {"generator", "temp"} : k \in Contexts /\ "timing" # k /\ "session" # k
    BY DEF Contexts
  <2> QED
    BY <1>1, <2>1, Entered
<1>3. \A base : instance_of(base, q, w) # None => instance_of(base, q, w).owner = w
  BY OwnInstance
<1>4. ASSUME NEW s \in Stacks, ~In("timing", s), ~In("session", s)
      PROVE  /\ \A p : (\A t \in Stacks : Codable(q, t) /\ ~In("timing", t)
                             => Clean(w, q, t, p))
                        => Clean(w, q, s, use_current_session(p))
             /\ Clean(w, q, s, Fails)
             /\ Clean(w, q, s, <<Return>>)
             /\ \A p, r : Clean(w, q, s, p) /\ Clean(w, q, s, r) => Clean(w, q, s, p \o r)
  <2>1. PICK t : t = Append(s, "session")
    OBVIOUS
  <2>2. t \in Stacks /\ Codable(q, t) /\ ~In("timing", t)
    <3>1. "session" \in Contexts /\ "timing" # "session"
      BY DEF Contexts
    <3> QED
      BY <1>4, <2>1, <3>1, Entered
  <2>3. \A p : Clean(w, q, t, p) => Clean(w, q, s, use_current_session(p))
    BY <1>4, <2>1, Enclosed
  <2>4. Clean(w, q, s, Fails) /\ Clean(w, q, s, <<Return>>)
    BY PlainSteps
  <2>5. \A p, r : Clean(w, q, s, p) /\ Clean(w, q, s, r) => Clean(w, q, s, p \o r)
    BY BothClean
  <2> QED
    BY <2>2, <2>3, <2>4, <2>5
<1>5. ASSUME NEW m, m.owner = w, NEW s \in Stacks, ~In("timing", s), ~In("session", s)
      PROVE  /\ Clean(w, q, s, use_current_session(<<>>))
             /\ Clean(w, q, s, use_current_session(LargeLanguageModel_invoke(m)))
             /\ Clean(w, q, s, use_current_session(TextEmbeddingModel_invoke(m)))
             /\ Clean(w, q, s, use_current_session(TextEmbeddingModel_invoke_multimodal(m)))
             /\ Clean(w, q, s, use_current_session(RerankModel_invoke(m)))
             /\ Clean(w, q, s, use_current_session(RerankModel_invoke_multimodal(m)))
             /\ Clean(w, q, s, use_current_session(
                      TTSModel_get_tts_model_mime_type(m) \o TTSModel_invoke(m, result)))
             /\ Clean(w, q, s, use_current_session(Speech2TextModel_invoke(m)))
             /\ Clean(w, q, s, use_current_session(ModerationModel_invoke(m)))
  <2>1. \A p : (\A t \in Stacks : Codable(q, t) /\ ~In("timing", t) => Clean(w, q, t, p))
                 => Clean(w, q, s, use_current_session(p))
    BY <1>4, <1>5
  <2>2. \A t \in Stacks : Codable(q, t) /\ ~In("timing", t) =>
          /\ Clean(w, q, t, LargeLanguageModel_invoke(m))
          /\ Clean(w, q, t, TextEmbeddingModel_invoke(m))
          /\ Clean(w, q, t, TextEmbeddingModel_invoke_multimodal(m))
          /\ Clean(w, q, t, RerankModel_invoke(m))
          /\ Clean(w, q, t, RerankModel_invoke_multimodal(m))
          /\ Clean(w, q, t, TTSModel_get_tts_model_mime_type(m))
          /\ Clean(w, q, t, TTSModel_invoke(m, result))
          /\ Clean(w, q, t, Speech2TextModel_invoke(m))
          /\ Clean(w, q, t, ModerationModel_invoke(m))
    BY <1>5, ModelMethods
  <2>3. \A t \in Stacks : Codable(q, t) /\ ~In("timing", t) =>
          Clean(w, q, t, TTSModel_get_tts_model_mime_type(m) \o TTSModel_invoke(m, result))
    BY <2>2, BothClean
  <2>4. \A t \in Stacks : Clean(w, q, t, <<>>)
    BY NoStep
  <2> QED
    BY <2>1, <2>2, <2>3, <2>4
<1>6. \A p : Clean(w, q, Append(<<>>, "generator"), p) => Clean(w, q, <<>>, Generating(p))
  BY <1>1, Enclosed
<1>7. Clean(w, q, <<>>, Fails)
      /\ \A p : Clean(w, q, <<>>, p) => Clean(w, q, <<>>, p \o <<Return>>)
  BY <1>1, <1>4
<1>8. Clean(w, q, <<>>, invoke_llm(w, q))
  <2>1. \A m : m.owner = w =>
          Clean(w, q, <<>>, Generating(use_current_session(LargeLanguageModel_invoke(m))))
    BY <1>2, <1>5, <1>6
  <2>2. \A m : m.owner = w =>
          Clean(w, q, <<>>, use_current_session(<<>>)
            \o Generating(use_current_session(LargeLanguageModel_invoke(m))))
    BY <1>1, <1>4, <1>5, <2>1
  <2> QED
    BY <1>3, <1>7, <2>2 DEF invoke_llm, Found
<1>9. Clean(w, q, <<>>, invoke_tts(w, q, result))
  <2>1. PICK g : g = Append(<<>>, "generator")
    OBVIOUS
  <2>2. g \in Stacks /\ ~In("timing", g) /\ ~In("session", g)
    BY <1>2, <2>1
  <2>3. \A m : m.owner = w => Clean(w, q, g, use_current_session(
                      TTSModel_get_tts_model_mime_type(m) \o TTSModel_invoke(m, result)))
    BY <1>5, <2>2
  <2>4. Clean(w, q, g, Fails)
    BY <1>4, <2>2
  <2>5. \A p : Clean(w, q, g, p) => Clean(w, q, <<>>, Generating(p))
    BY <1>6, <2>1
  <2> QED
    BY <1>3, <2>3, <2>4, <2>5 DEF invoke_tts, Found
<1>10. Clean(w, q, <<>>, invoke_speech_to_text(w, q))
  <2>1. PICK t : t = Append(<<>>, "temp")
    OBVIOUS
  <2>2. t \in Stacks /\ ~In("timing", t) /\ ~In("session", t)
    BY <1>2, <2>1
  <2>3. PICK p : p = Found(instance_of("Speech2TextModel", q, w), LAMBDA m :
                       use_current_session(Speech2TextModel_invoke(m)))
    OBVIOUS
  <2>4. Clean(w, q, t, p)
    BY <1>3, <1>4, <1>5, <2>2, <2>3 DEF Found
  <2>5. PICK a : a = <<With("temp", None)>>
    OBVIOUS
  <2>6. PICK b : b = <<EndWith>>
    OBVIOUS
  <2>7. PICK r : r = <<Return>>
    OBVIOUS
  <2>8. Leads(w, q, <<>>, a, t) /\ Leads(w, q, t, b, <<>>)
    <3>1. "temp" \in Contexts /\ "temp" \notin {"session", "timing"}
      BY DEF Contexts
    <3> QED
      BY <1>1, <2>1, <2>5, <2>6, <3>1, OpensAndCloses
  <2>9. Leads(w, q, <<>>, r, <<>>)
    BY <1>1, <2>7, PlainSteps DEF Clean
  <2>10. Leads(w, q, t, b \o r, <<>>)
    BY <2>8, <2>9, InTurn
  <2>11. Leads(w, q, <<>>, a \o p, t)
    BY <2>4, <2>8, InTurn DEF Clean
  <2>12. Clean(w, q, <<>>, a \o p \o (b \o r))
    BY <2>10, <2>11, InTurn DEF Clean
  <2>13. b \o r = <<EndWith, Return>>
    BY <2>6, <2>7, TwoSteps
  <2> QED
    BY <1>7, <2>3, <2>5, <2>12, <2>13 DEF invoke_speech_to_text
<1>11. \A m : m.owner = w =>
         /\ Clean(w, q, <<>>, use_current_session(TextEmbeddingModel_invoke(m)))
         /\ Clean(w, q, <<>>, use_current_session(TextEmbeddingModel_invoke_multimodal(m)))
         /\ Clean(w, q, <<>>, use_current_session(RerankModel_invoke(m)))
         /\ Clean(w, q, <<>>, use_current_session(RerankModel_invoke_multimodal(m)))
         /\ Clean(w, q, <<>>, use_current_session(ModerationModel_invoke(m)))
  BY <1>1, <1>5
<1>12. /\ Clean(w, q, <<>>, invoke_text_embedding(w, q))
       /\ Clean(w, q, <<>>, invoke_multimodal_embedding(w, q))
  BY <1>3, <1>7, <1>11
     DEF invoke_text_embedding, invoke_multimodal_embedding, Answer, Found
<1>13. /\ Clean(w, q, <<>>, invoke_rerank(w, q))
       /\ Clean(w, q, <<>>, invoke_multimodal_rerank(w, q))
  BY <1>3, <1>7, <1>11 DEF invoke_rerank, invoke_multimodal_rerank, Answer, Found
<1>14. Clean(w, q, <<>>, invoke_moderation(w, q))
  BY <1>3, <1>7, <1>11 DEF invoke_moderation, Answer, Found
<1> QED
  BY <1>8, <1>9, <1>10, <1>12, <1>13, <1>14

(***************************************************************************)
(* The routes of models.                                                   *)
(***************************************************************************)
LEMMA ModelHandlers ==
  ASSUME NEW w, NEW q, NEW result
  PROVE  Clean(w, q, <<>>, ModelRoutes(w, q, result))
<1>1. Clean(w, q, <<>>, <<>>)
  BY NoneOpen, NoStep
<1>2. CASE q.action \in Invocations
  <2>1. /\ Clean(w, q, <<>>, invoke_llm(w, q))
        /\ Clean(w, q, <<>>, invoke_text_embedding(w, q))
        /\ Clean(w, q, <<>>, invoke_multimodal_embedding(w, q))
        /\ Clean(w, q, <<>>, invoke_rerank(w, q))
        /\ Clean(w, q, <<>>, invoke_multimodal_rerank(w, q))
        /\ Clean(w, q, <<>>, invoke_tts(w, q, result))
        /\ Clean(w, q, <<>>, invoke_speech_to_text(w, q))
        /\ Clean(w, q, <<>>, invoke_moderation(w, q))
    BY <1>2, InvocationHandlers
  <2> QED
    BY <1>1, <1>2, <2>1 DEF ModelRoutes, Invocations
<1>3. CASE q.action \notin Invocations
  BY <1>1, <1>3, PlainModelHandlers DEF ModelRoutes, Invocations
<1> QED
  BY <1>2, <1>3

(***************************************************************************)
(* What a request is: an action of its type's, which fits or is refused    *)
(* one way or the other.                                                   *)
(***************************************************************************)
LEMMA Requested ==
  ASSUME NEW q \in Requests
  PROVE  /\ q.fit \in Fits \cup {"type error"}
         /\ q.action \in Invocations =>
              q.type \notin {"tool", "agent_strategy", "endpoint", "datasource", "oauth",
                            "dynamic_parameter", "trigger"}
<1>1. CASE q.action = "unknown" /\ q.fit \in Fits
  BY <1>1 DEF Invocations
<1>2. CASE q \in ModelRequests
  <2>1. q.type = "model" /\ q.fit \in Fits \cup {"type error"}
    BY <1>2 DEF ModelRequests, Request
  <2> QED
    BY <2>1
<1>3. CASE q \in ToolRequests
  BY <1>3 DEF ToolRequests, Request, Invocations
<1>4. CASE q \in EndpointRequests \cup OAuthRequests
  BY <1>4 DEF EndpointRequests, OAuthRequests, Request, Invocations
<1>5. CASE q \in DynamicParameterRequests \cup DatasourceRequests
  BY <1>5 DEF DynamicParameterRequests, DatasourceRequests, Request, Invocations
<1>6. CASE q \in TriggerRequests
  BY <1>6 DEF TriggerRequests, Request, Invocations
<1> QED
  BY <1>1, <1>2, <1>3, <1>4, <1>5, <1>6, RequestsAssumption DEF PluginAccessRequests

(***************************************************************************)
(* Whatever the tables hold, the program of a request's handler runs the   *)
(* plugin's code in a session if the request is an invocation and in none  *)
(* otherwise, times only the worker's own instances, none of them within   *)
(* another's timing, and leaves open nothing that it opened.               *)
(***************************************************************************)
LEMMA Routed ==
  ASSUME NEW w, NEW q \in Requests, NEW result, NEW writer
  PROVE  Clean(w, q, <<>>, register_route(w, q, result, writer))
<1>1. /\ q.fit \in Fits \cup {"type error"}
      /\ q.action \in Invocations =>
           q.type \notin {"tool", "agent_strategy", "endpoint", "datasource", "oauth",
                         "dynamic_parameter", "trigger"}
  BY Requested
<1>2. <<>> \in Stacks
  BY NoneOpen
<1>3. Clean(w, q, <<>>, dispatch(w, q, result))
  <2>1. Clean(w, q, <<>>, <<>>) /\ Clean(w, q, <<>>, ModelRoutes(w, q, result))
    BY <1>2, NoStep, ModelHandlers
  <2>2. CASE q.action \in Invocations
    BY <1>1, <2>1, <2>2 DEF dispatch
  <2>3. CASE q.action \notin Invocations
    <3>1. /\ Clean(w, q, <<>>, ToolRoutes(w, q))
          /\ Clean(w, q, <<>>, EndpointRoute(q, result))
          /\ Clean(w, q, <<>>, DatasourceRoutes(w, q))
          /\ Clean(w, q, <<>>, OAuthRoutes(q))
          /\ Clean(w, q, <<>>, DynamicParameterRoute(q))
          /\ Clean(w, q, <<>>, TriggerRoutes(q))
      BY <2>1, <2>3, ToolHandlers, EndpointHandler, DatasourceHandlers, ProviderHandlers,
         TriggerHandlers DEF EndpointRoute, DynamicParameterRoute
    <3> QED
      BY <2>1, <3>1 DEF dispatch
  <2> QED
    BY <2>2, <2>3
<1>4. Clean(w, q, <<>>, Fails) /\ Clean(w, q, <<>>, <<Yield("error")>> \o Fails)
  BY <1>2, PlainSteps, BothClean
<1> QED
  BY <1>1, <1>3, <1>4 DEF register_route, Fits

-----------------------------------------------------------------------------
(* The workers.                                                            *)

(***************************************************************************)
(* What is left of a program after its first step, and of none.            *)
(***************************************************************************)
LEMMA FirstStep ==
  ASSUME NEW w, NEW q, NEW s, NEW t, NEW p, Leads(w, q, s, p, t)
  PROVE  /\ s \in Stacks /\ t \in Stacks
         /\ p = <<>> => s = t
         /\ p # <<>> => \E u \in Stacks :
                          StepFits(w, q, s, p[1], u) /\ Leads(w, q, u, Tail(p), t)
<1>1. PICK S : p \in Seq(S)
  BY DEF Leads
<1>2. PICK n \in Nat : n = Len(p)
  BY <1>1
<1>3. PICK h \in [Nat -> Stacks] :
        /\ h[1] = s /\ h[n + 1] = t
        /\ \A i \in 1 .. n : StepFits(w, q, h[i], p[i], h[i + 1])
  BY <1>2 DEF Leads
<1>4. s \in Stacks /\ t \in Stacks
  BY <1>3
<1>5. CASE p = <<>>
  BY <1>2, <1>3, <1>4, <1>5
<1>6. CASE p # <<>>
  <2>1. n \in Nat \ {0}
    BY <1>1, <1>2, <1>6
  <2>2. PICK r : r = Tail(p)
    OBVIOUS
  <2>3. /\ r \in Seq(S) /\ Len(r) = n - 1
        /\ \A i \in 1 .. n - 1 : r[i] = p[i + 1]
    BY <1>1, <1>2, <1>6, <2>2
  <2> DEFINE g == [i \in Nat |-> h[i + 1]]
  <2>4. g \in [Nat -> Stacks] /\ \A i \in Nat : g[i] = h[i + 1]
    BY <1>3
  <2> HIDE DEF g
  <2>5. g[1] = h[2] /\ g[(n - 1) + 1] = t
    BY <1>3, <2>1, <2>4
  <2>6. ASSUME NEW i \in 1 .. n - 1 PROVE StepFits(w, q, g[i], r[i], g[i + 1])
    <3>1. i + 1 \in 1 .. n /\ i \in Nat /\ i + 1 \in Nat
      BY <2>1
    <3>2. g[i] = h[i + 1] /\ g[i + 1] = h[(i + 1) + 1] /\ r[i] = p[i + 1]
      BY <2>3, <2>4, <3>1
    <3> QED
      BY <1>3, <3>1, <3>2
  <2>7. Leads(w, q, h[2], r, t)
    BY <2>3, <2>4, <2>5, <2>6 DEF Leads
  <2>8. StepFits(w, q, s, p[1], h[2])
    <3>1. 1 \in 1 .. n /\ 1 + 1 = 2
      BY <2>1
    <3> QED
      BY <1>3, <3>1
  <2>9. h[2] \in Stacks
    BY <1>3
  <2> QED
    BY <1>4, <1>6, <2>2, <2>7, <2>8, <2>9
<1> QED
  BY <1>5, <1>6

(***************************************************************************)
(* The contexts h that worker w holds are of the kinds s. No session was   *)
(* current before one was entered, and what is timed is the worker's.      *)
(***************************************************************************)
Opened(w, h, s) ==
  /\ \E S : h \in Seq(S)
  /\ Len(h) = Len(s)
  /\ \A i \in 1 .. Len(s) :
       /\ h[i].what = s[i]
       /\ s[i] = "session" => h[i].saved = None
       /\ s[i] = "timing" => h[i].code.owner = w

Once(s) == \A i, j \in DOMAIN s : s[i] = "session" /\ s[j] = "session" => i = j

(***************************************************************************)
(* A worker at rest has put back everything; what is left for one at work  *)
(* leads from the contexts that it holds to none, and the session is       *)
(* current as long as it is open.                                          *)
(***************************************************************************)
Idle(w) ==
  rest[w] = <<>> /\ held[w] = <<>> /\ out[w] = <<>> /\ current[w] = None /\ ~failing[w]

Busy(w, s) ==
  /\ s \in Stacks
  /\ Opened(w, held[w], s) /\ Once(s)
  /\ current[w] = IF In("session", s) THEN work[w].session ELSE None
  /\ failing[w] => rest[w] = <<>>
  /\ ~failing[w] => Leads(w, work[w].request, s, rest[w], <<>>)

WorkerInv(w) ==
  /\ work[w] = None => Idle(w)
  /\ work[w] # None => \E s \in Stacks : Busy(w, s)

Functions ==
  /\ DOMAIN work = Workers /\ DOMAIN rest = Workers /\ DOMAIN held = Workers
  /\ DOMAIN current = Workers /\ DOMAIN out = Workers /\ DOMAIN failing = Workers

Inv == Functions /\ \A w \in Workers : WorkerInv(w)

(***************************************************************************)
(* Another context is entered.                                             *)
(***************************************************************************)
LEMMA Entering ==
  ASSUME NEW w, NEW h, NEW s \in Stacks, Opened(w, h, s), Once(s), NEW k \in Contexts,
         NEW x, x.what = k, k = "session" => x.saved = None, k = "timing" => x.code.owner = w,
         k = "session" => ~In(k, s)
  PROVE  Opened(w, Append(h, x), Append(s, k)) /\ Once(Append(s, k))
<1>1. PICK S : h \in Seq(S)
  BY DEF Opened
<1>2. PICK n \in Nat : n = Len(s)
  BY DEF Stacks
<1>3. n = Len(h)
  BY <1>2 DEF Opened
<1>4. PICK g : g = Append(h, x)
  OBVIOUS
<1>5. PICK t : t = Append(s, k)
  OBVIOUS
<1>6. h \in Seq(S \cup {x})
  BY <1>1
<1>7. /\ g \in Seq(S \cup {x}) /\ Len(g) = n + 1 /\ g[n + 1] = x
      /\ \A i \in 1 .. n : g[i] = h[i]
  BY <1>3, <1>4, <1>6
<1>8. /\ t \in Stacks /\ Len(t) = n + 1 /\ t[n + 1] = k
      /\ \A i \in 1 .. n : t[i] = s[i]
      /\ DOMAIN t = 1 .. n + 1 /\ DOMAIN s = 1 .. n
  BY <1>2, <1>5 DEF Stacks
<1>9. \A i \in 1 .. n + 1 : i \in 1 .. n \/ i = n + 1
  OBVIOUS
<1>10. \A i \in 1 .. n : /\ h[i].what = s[i]
                         /\ s[i] = "session" => h[i].saved = None
                         /\ s[i] = "timing" => h[i].code.owner = w
  BY <1>2 DEF Opened
<1>11. \A i \in 1 .. n + 1 : /\ g[i].what = t[i]
                             /\ t[i] = "session" => g[i].saved = None
                             /\ t[i] = "timing" => g[i].code.owner = w
  BY <1>7, <1>8, <1>9, <1>10
<1>12. Opened(w, g, t)
  BY <1>7, <1>8, <1>11 DEF Opened
<1>13. Once(t)
  <2>1. \A i, j \in 1 .. n : s[i] = "session" /\ s[j] = "session" => i = j
    BY <1>8 DEF Once
  <2>2. k = "session" => \A i \in 1 .. n : s[i] # "session"
    BY <1>8 DEF In
  <2>3. \A i, j \in 1 .. n + 1 : t[i] = "session" /\ t[j] = "session" => i = j
    BY <1>8, <1>9, <2>1, <2>2
  <2> QED
    BY <1>8, <2>3 DEF Once
<1> QED
  BY <1>4, <1>5, <1>12, <1>13

(***************************************************************************)
(* The innermost context is left.                                          *)
(***************************************************************************)
LEMMA Leaving ==
  ASSUME NEW w, NEW h, NEW s \in Stacks, Opened(w, h, s), Once(s), s # <<>>,
         NEW t, t = SubSeq(s, 1, Len(s) - 1)
  PROVE  /\ t \in Stacks /\ Once(t)
         /\ Opened(w, SubSeq(h, 1, Len(h) - 1), t)
         /\ h[Len(h)].what = "session" =>
              h[Len(h)].saved = None /\ In("session", s) /\ ~In("session", t)
         /\ h[Len(h)].what # "session" => (In("session", s) <=> In("session", t))
<1>1. PICK S : h \in Seq(S)
  BY DEF Opened
<1>2. PICK n \in Nat \ {0} : n = Len(s)
  BY DEF Stacks
<1>3. n = Len(h)
  BY <1>2 DEF Opened
<1>4. PICK g : g = SubSeq(h, 1, Len(h) - 1)
  OBVIOUS
<1>5. /\ g \in Seq(S) /\ Len(g) = n - 1 /\ \A i \in 1 .. n - 1 : g[i] = h[i]
  BY <1>1, <1>3, <1>4
<1>6. /\ t \in Stacks /\ Len(t) = n - 1 /\ \A i \in 1 .. n - 1 : t[i] = s[i]
      /\ DOMAIN t = 1 .. n - 1 /\ DOMAIN s = 1 .. n
  BY <1>2 DEF Stacks
<1>7. \A i \in 1 .. n : /\ h[i].what = s[i]
                        /\ s[i] = "session" => h[i].saved = None
                        /\ s[i] = "timing" => h[i].code.owner = w
  BY <1>2 DEF Opened
<1>8. \A i \in 1 .. n - 1 : i \in 1 .. n /\ i # n
  OBVIOUS
<1>9. Opened(w, g, t)
  <2>1. \A i \in 1 .. n - 1 : /\ g[i].what = t[i]
                              /\ t[i] = "session" => g[i].saved = None
                              /\ t[i] = "timing" => g[i].code.owner = w
    BY <1>5, <1>6, <1>7, <1>8
  <2> QED
    BY <1>5, <1>6, <2>1 DEF Opened
<1>10. \A i, j \in 1 .. n : s[i] = "session" /\ s[j] = "session" => i = j
  BY <1>6 DEF Once
<1>11. Once(t)
  BY <1>6, <1>8, <1>10 DEF Once
<1>12. n \in 1 .. n /\ \A i \in 1 .. n : i \in 1 .. n - 1 \/ i = n
  OBVIOUS
<1>13. h[n].what = "session" =>
         h[n].saved = None /\ In("session", s) /\ ~In("session", t)
  BY <1>6, <1>7, <1>8, <1>10, <1>12 DEF In
<1>14. h[n].what # "session" => (In("session", s) <=> In("session", t))
  BY <1>6, <1>7, <1>8, <1>12 DEF In
<1> QED
  BY <1>3, <1>4, <1>6, <1>9, <1>11, <1>13, <1>14

(***************************************************************************)
(* Nothing is held if nothing is open.                                     *)
(***************************************************************************)
LEMMA HoldingNone ==
  ASSUME NEW w
  PROVE  /\ Opened(w, <<>>, <<>>) /\ Once(<<>>) /\ ~In("session", <<>>)
         /\ \A h, s : s \in Stacks /\ Opened(w, h, s) => (h = <<>> <=> s = <<>>)
<1>1. PICK e : e = <<>>
  OBVIOUS
<1>2. e \in Seq({}) /\ Len(e) = 0 /\ DOMAIN e = {}
  BY <1>1
<1>3. Opened(w, e, e) /\ Once(e)
  BY <1>2 DEF Opened, Once
<1>4. ASSUME NEW h, NEW s \in Stacks, Opened(w, h, s) PROVE h = <<>> <=> s = <<>>
  <2>1. PICK S : h \in Seq(S)
    BY <1>4 DEF Opened
  <2>2. s \in Seq(Contexts) /\ Len(h) = Len(s)
    BY <1>4 DEF Opened, Stacks
  <2> QED
    BY <2>1, <2>2
<1> QED
  BY <1>1, <1>3, <1>4, NoneOpen

(***************************************************************************)
(* A step of one worker is not another's.                                  *)
(***************************************************************************)
Alone(w) ==
  \A v \in Workers : v # w =>
    /\ work'[v] = work[v] /\ rest'[v] = rest[v] /\ held'[v] = held[v]
    /\ current'[v] = current[v] /\ out'[v] = out[v] /\ failing'[v] = failing[v]

(***************************************************************************)
(* A step of the program of one worker is such a step.                     *)
(***************************************************************************)
LEMMA OnItsOwn ==
  ASSUME Functions, NEW w \in Workers, Working(w)
  PROVE  Functions' /\ Alone(w)
<1> USE DEF Functions, Alone, workerVars
<1>1. CASE Take(w)
  BY <1>1 DEF Take
<1>2. CASE EnterContext(w)
  <2>1. CASE rest[w][1].what = "timing" /\ rest[w][1].code \in Timed
    BY <1>2, <2>1 DEF EnterContext, Raise
  <2>2. CASE ~(rest[w][1].what = "timing" /\ rest[w][1].code \in Timed)
    <3>1. /\ DOMAIN held' = DOMAIN held
          /\ \A v \in Workers : v # w => held'[v] = held[v]
      BY <1>2, <2>2 DEF EnterContext
    <3>2. /\ DOMAIN current' = DOMAIN current
          /\ \A v \in Workers : v # w => current'[v] = current[v]
      BY <1>2, <2>2 DEF EnterContext
    <3> QED
      BY <1>2, <2>2, <3>1, <3>2 DEF EnterContext, Advance
  <2> QED
    BY <2>1, <2>2
<1>3. CASE ExitContext(w)
  BY <1>3 DEF ExitContext, Release, Advance
<1>4. CASE RunCode(w)
  BY <1>4 DEF RunCode, Advance, Raise
<1>5. CASE StreamYields(w)
  BY <1>5 DEF StreamYields
<1>6. CASE StreamEnds(w)
  BY <1>6 DEF StreamEnds, Advance, Raise
<1>7. CASE Answers(w)
  BY <1>7 DEF Answers, Advance
<1>8. CASE RaiseError(w)
  BY <1>8 DEF RaiseError, Raise
<1>9. CASE WriteMessage(w)
  BY <1>9 DEF WriteMessage, Raise
<1>10. CASE Unwind(w)
  BY <1>10 DEF Unwind, Release
<1>11. CASE Finish(w)
  BY <1>11 DEF Finish
<1> QED
  BY <1>1, <1>2, <1>3, <1>4, <1>5, <1>6, <1>7, <1>8, <1>9, <1>10, <1>11 DEF Working

(***************************************************************************)
(* A request is taken: its program leads from nothing to nothing.          *)
(***************************************************************************)
LEMMA TakeKeeps ==
  ASSUME Functions, NEW w \in Workers, WorkerInv(w), Take(w)
  PROVE  WorkerInv(w)'
<1>1. PICK q \in Requests, s \in Sessions, result \in {"whole", "generator", "error"},
           writer \in BOOLEAN :
        /\ work'[w] = [session |-> s, request |-> q]
        /\ rest'[w] = register_route(w, q, result, writer)
  BY DEF Take, Functions
<1>2. work[w] = None /\ UNCHANGED <<held, current, out, failing>>
  BY DEF Take
<1>3. work'[w] # None /\ work'[w].request = q
  BY <1>1, NoneAssumption
<1>4. Clean(w, q, <<>>, rest'[w])
  BY <1>1, Routed
<1>5. Idle(w)
  BY <1>2 DEF WorkerInv
<1>6. Busy(w, <<>>)'
  BY <1>2, <1>3, <1>4, <1>5, NoneOpen, HoldingNone DEF Busy, Idle, Clean
<1> QED
  BY <1>3, <1>6, NoneOpen DEF WorkerInv

(***************************************************************************)
(* At a step of the program, what it does fits what is open.               *)
(***************************************************************************)
LEMMA AtStep ==
  ASSUME NEW w \in Workers, WorkerInv(w), NEW do, At(w, do)
  PROVE  /\ work[w] # None /\ ~failing[w] /\ rest[w] # <<>> /\ rest[w][1].do = do
         /\ \E s, t \in Stacks :
              /\ Busy(w, s)
              /\ StepFits(w, work[w].request, s, rest[w][1], t)
              /\ Leads(w, work[w].request, t, Tail(rest[w]), <<>>)
<1>1. work[w] # None /\ ~failing[w] /\ rest[w] # <<>> /\ rest[w][1].do = do
  BY DEF At
<1>2. PICK s \in Stacks : Busy(w, s)
  BY <1>1 DEF WorkerInv
<1>3. Leads(w, work[w].request, s, rest[w], <<>>)
  BY <1>1, <1>2 DEF Busy
<1>4. PICK t \in Stacks : /\ StepFits(w, work[w].request, s, rest[w][1], t)
                         /\ Leads(w, work[w].request, t, Tail(rest[w]), <<>>)
  BY <1>1, <1>3, FirstStep
<1> QED
  BY <1>1, <1>2, <1>4

(***************************************************************************)
(* A worker whose program has failed unwinds what it holds.                *)
(***************************************************************************)
LEMMA RaiseKeeps ==
  ASSUME Functions, NEW w \in Workers, NEW s \in Stacks, Busy(w, s), work[w] # None,
         Raise(w), UNCHANGED <<work, held, current>>
  PROVE  WorkerInv(w)'
<1>1. failing'[w] /\ rest'[w] = <<>>
  BY DEF Raise, Functions
<1>2. Busy(w, s)'
  BY <1>1 DEF Busy
<1> QED
  BY <1>2 DEF WorkerInv

(***************************************************************************)
(* A step that leaves the stack as it is.                                  *)
(***************************************************************************)
LEMMA AdvanceKeeps ==
  ASSUME Functions, NEW w \in Workers, NEW s \in Stacks, Busy(w, s), work[w] # None,
         Leads(w, work[w].request, s, Tail(rest[w]), <<>>), ~failing[w],
         Advance(w), UNCHANGED <<work, held, current, failing>>
  PROVE  WorkerInv(w)'
<1>1. rest'[w] = Tail(rest[w])
  BY DEF Advance, Functions
<1>2. Busy(w, s)'
  BY <1>1 DEF Busy
<1> QED
  BY <1>2 DEF WorkerInv

(***************************************************************************)
(* A context is entered, or refuses to be.                                 *)
(***************************************************************************)
LEMMA EnterKeeps ==
  ASSUME Functions, NEW w \in Workers, WorkerInv(w), EnterContext(w)
  PROVE  WorkerInv(w)'
<1>1. At(w, "with") /\ UNCHANGED <<work, out>>
  BY DEF EnterContext
<1>2. PICK s, t \in Stacks :
        /\ Busy(w, s)
        /\ StepFits(w, work[w].request, s, rest[w][1], t)
        /\ Leads(w, work[w].request, t, Tail(rest[w]), <<>>)
  BY <1>1, AtStep
<1>3. work[w] # None /\ ~failing[w] /\ rest[w][1].do = "with"
  BY <1>1, AtStep
<1>4. CASE rest[w][1].what = "timing" /\ rest[w][1].code \in Timed
  <2>1. Raise(w) /\ UNCHANGED <<held, current>>
    BY <1>4 DEF EnterContext
  <2> QED
    BY <1>1, <1>2, <1>3, <2>1, RaiseKeeps
<1>5. CASE ~(rest[w][1].what = "timing" /\ rest[w][1].code \in Timed)
  <2>1. PICK k : k = rest[w][1].what
    OBVIOUS
  <2>2. PICK c : c = rest[w][1].code
    OBVIOUS
  <2>3. /\ k \in Contexts /\ t = Append(s, k)
        /\ k \in {"session", "timing"} => ~In(k, s)
        /\ k = "timing" => c.owner = w
    BY <1>2, <1>3, <2>1, <2>2 DEF StepFits
  <2>4. PICK x : x = [what |-> k, code |-> c, saved |-> current[w]]
    OBVIOUS
  <2>5. x.what = k /\ x.code = c /\ x.saved = current[w]
    BY <2>4
  <2>6. /\ held'[w] = Append(held[w], x)
        /\ UNCHANGED failing
        /\ rest'[w] = Tail(rest[w])
    BY <1>5, <2>1, <2>2, <2>4 DEF EnterContext, Advance, Functions
  <2>7. current'[w] = IF k = "session" THEN work[w].session ELSE current[w]
    BY <1>5, <2>1 DEF EnterContext, Functions
  <2>8. /\ Opened(w, held[w], s) /\ Once(s)
        /\ current[w] = IF In("session", s) THEN work[w].session ELSE None
    BY <1>2 DEF Busy
  <2>9. k = "session" => x.saved = None
    BY <2>3, <2>5, <2>8
  <2>10. Opened(w, Append(held[w], x), t) /\ Once(t)
    BY <2>3, <2>5, <2>8, <2>9, Entering
  <2>11. In("session", t) <=> In("session", s) \/ "session" = k
    BY <2>3, Pushed
  <2>12. current'[w] = IF In("session", t) THEN work[w].session ELSE None
    BY <2>7, <2>8, <2>11
  <2>13. Busy(w, t)'
    BY <1>1, <1>2, <1>3, <2>6, <2>10, <2>12 DEF Busy
  <2> QED
    BY <1>1, <1>3, <2>13 DEF WorkerInv
<1> QED
  BY <1>4, <1>5

(***************************************************************************)
(* What is held, and current, when the innermost context has ended.        *)
(***************************************************************************)
LEMMA ReleaseKeeps ==
  ASSUME Functions, NEW w \in Workers, NEW s \in Stacks, Busy(w, s), s # <<>>, Release(w),
         UNCHANGED work, NEW t, t = SubSeq(s, 1, Len(s) - 1)
  PROVE  /\ t \in Stacks /\ Opened(w, held'[w], t) /\ Once(t)
         /\ current'[w] = IF In("session", t) THEN work[w].session ELSE None
<1>1. PICK h : h = held[w]
  OBVIOUS
<1>2. /\ Opened(w, h, s) /\ Once(s)
      /\ current[w] = IF In("session", s) THEN work[w].session ELSE None
  BY <1>1 DEF Busy
<1>3. /\ t \in Stacks /\ Once(t)
      /\ Opened(w, SubSeq(h, 1, Len(h) - 1), t)
      /\ h[Len(h)].what = "session" =>
           h[Len(h)].saved = None /\ In("session", s) /\ ~In("session", t)
      /\ h[Len(h)].what # "session" => (In("session", s) <=> In("session", t))
  BY <1>2, Leaving, ZenonT(60)
<1>4. held'[w] = SubSeq(h, 1, Len(h) - 1)
  BY <1>1 DEF Release, Functions
<1>5. current'[w] = IF h[Len(h)].what = "session" THEN h[Len(h)].saved ELSE current[w]
  BY <1>1 DEF Release, Functions
<1>6. current'[w] = IF In("session", t) THEN work[w].session ELSE None
  BY <1>2, <1>3, <1>5
<1> QED
  BY <1>3, <1>4, <1>6

(***************************************************************************)
(* An abandoned handler has its last two contexts the other way round, or  *)
(* as they were.                                                           *)
(***************************************************************************)
LEMMA AbandonedOpens ==
  ASSUME NEW w, NEW h, NEW s \in Stacks, Opened(w, h, s), Once(s), NEW action
  PROVE  \E t \in Stacks : /\ Opened(w, Abandoned(action, h), t) /\ Once(t)
                           /\ In("session", t) <=> In("session", s)
<1>1. PICK S : h \in Seq(S)
  BY DEF Opened
<1>2. PICK n \in Nat : n = Len(s)
  BY DEF Stacks
<1>3. /\ n = Len(h) /\ DOMAIN s = 1 .. n /\ DOMAIN h = 1 .. n
      /\ s \in [1 .. n -> Contexts] /\ h \in [1 .. n -> S]
  BY <1>1, <1>2 DEF Opened, Stacks
<1>4. \A i \in 1 .. n : /\ h[i].what = s[i]
                        /\ s[i] = "session" => h[i].saved = None
                        /\ s[i] = "timing" => h[i].code.owner = w
  BY <1>2 DEF Opened
<1>5. CASE n > 1 /\ Abandoned(action, h) = [h EXCEPT ![n - 1] = h[n], ![n] = h[n - 1]]
  <2>1. n - 1 \in 1 .. n /\ n \in 1 .. n /\ n - 1 # n
    BY <1>5
  <2>2. PICK g : g = [h EXCEPT ![n - 1] = h[n], ![n] = h[n - 1]]
    OBVIOUS
  <2>3. PICK t : t = [s EXCEPT ![n - 1] = s[n], ![n] = s[n - 1]]
    OBVIOUS
  <2>4. /\ DOMAIN g = 1 .. n /\ g[n] = h[n - 1] /\ g[n - 1] = h[n]
        /\ \A i \in 1 .. n : i # n /\ i # n - 1 => g[i] = h[i]
        /\ g \in [1 .. n -> S]
    BY <1>3, <2>1, <2>2
  <2>5. /\ DOMAIN t = 1 .. n /\ t[n] = s[n - 1] /\ t[n - 1] = s[n]
        /\ \A i \in 1 .. n : i # n /\ i # n - 1 => t[i] = s[i]
        /\ t \in [1 .. n -> Contexts]
    BY <1>3, <2>1, <2>3
  <2>6. g \in Seq(S) /\ Len(g) = n /\ t \in Seq(Contexts) /\ Len(t) = n
    BY <2>4, <2>5
  <2>7. \A i \in 1 .. n : /\ g[i].what = t[i]
                          /\ t[i] = "session" => g[i].saved = None
                          /\ t[i] = "timing" => g[i].code.owner = w
    BY <1>4, <2>1, <2>4, <2>5
  <2>8. Opened(w, g, t)
    BY <2>6, <2>7 DEF Opened
  <2>9. Once(t)
    BY <1>3, <2>1, <2>5 DEF Once
  <2>10. In("session", t) <=> In("session", s)
    BY <1>3, <2>1, <2>5 DEF In
  <2> QED
    BY <1>5, <2>2, <2>6, <2>8, <2>9, <2>10 DEF Stacks
<1>6. CASE Abandoned(action, h) = h
  BY <1>6
<1> QED
  BY <1>3, <1>5, <1>6 DEF Abandoned

(***************************************************************************)
(* The program leaves its innermost context.                               *)
(***************************************************************************)
LEMMA ExitKeeps ==
  ASSUME Functions, NEW w \in Workers, WorkerInv(w), ExitContext(w)
  PROVE  WorkerInv(w)'
<1>1. /\ At(w, "end with") /\ Release(w) /\ rest'[w] = Tail(rest[w])
      /\ UNCHANGED <<work, failing>>
  BY DEF ExitContext, Advance, Functions
<1>2. PICK s, t \in Stacks :
        /\ Busy(w, s)
        /\ StepFits(w, work[w].request, s, rest[w][1], t)
        /\ Leads(w, work[w].request, t, Tail(rest[w]), <<>>)
  BY <1>1, AtStep
<1>3. work[w] # None /\ ~failing[w] /\ rest[w][1].do = "end with"
  BY <1>1, AtStep
<1>4. s # <<>> /\ t = SubSeq(s, 1, Len(s) - 1)
  BY <1>2, <1>3 DEF StepFits
<1>5. /\ Opened(w, held'[w], t) /\ Once(t)
      /\ current'[w] = IF In("session", t) THEN work[w].session ELSE None
  BY <1>1, <1>2, <1>4, ReleaseKeeps
<1>6. Busy(w, t)'
  BY <1>1, <1>2, <1>3, <1>5 DEF Busy
<1> QED
  BY <1>1, <1>3, <1>6 DEF WorkerInv

(***************************************************************************)
(* An error leaves it.                                                     *)
(***************************************************************************)
LEMMA UnwindKeeps ==
  ASSUME Functions, NEW w \in Workers, WorkerInv(w), Unwind(w)
  PROVE  WorkerInv(w)'
<1>1. failing[w] /\ held[w] # <<>> /\ Release(w) /\ UNCHANGED <<work, rest, failing>>
  BY DEF Unwind
<1>2. work[w] # None
  BY <1>1 DEF WorkerInv, Idle
<1>3. PICK s \in Stacks : Busy(w, s)
  BY <1>2 DEF WorkerInv
<1>4. Opened(w, held[w], s) /\ rest[w] = <<>>
  BY <1>1, <1>3 DEF Busy
<1>5. s # <<>>
  <2>1. \A h, r : r \in Stacks /\ Opened(w, h, r) => (h = <<>> <=> r = <<>>)
    BY HoldingNone
  <2> QED
    BY <1>1, <1>4, <2>1
<1>6. PICK t : t = SubSeq(s, 1, Len(s) - 1)
  OBVIOUS
<1>7. /\ t \in Stacks /\ Opened(w, held'[w], t) /\ Once(t)
      /\ current'[w] = IF In("session", t) THEN work[w].session ELSE None
  BY <1>1, <1>3, <1>5, <1>6, ReleaseKeeps
<1>8. Busy(w, t)'
  BY <1>1, <1>4, <1>7 DEF Busy
<1> QED
  BY <1>1, <1>2, <1>7, <1>8 DEF WorkerInv

(***************************************************************************)
(* The other steps open and close nothing.                                 *)
(***************************************************************************)
LEMMA OtherStepsKeep ==
  ASSUME Functions, NEW w \in Workers, WorkerInv(w),
         \/ RunCode(w) \/ StreamYields(w) \/ StreamEnds(w) \/ Answers(w)
         \/ RaiseError(w) \/ WriteMessage(w)
  PROVE  WorkerInv(w)'
<1>1. CASE \/ /\ At(w, "run") \/ At(w, "caught") \/ At(w, "stream") \/ At(w, "yield")
                 \/ At(w, "return")
              /\ Advance(w) /\ UNCHANGED <<work, held, current, failing>>
  <2>1. PICK do \in {"run", "caught", "stream", "yield", "return"} : At(w, do)
    BY <1>1
  <2>2. PICK s, t \in Stacks :
          /\ Busy(w, s)
          /\ StepFits(w, work[w].request, s, rest[w][1], t)
          /\ Leads(w, work[w].request, t, Tail(rest[w]), <<>>)
    BY <2>1, AtStep
  <2>3. work[w] # None /\ ~failing[w] /\ rest[w][1].do = do
    BY <2>1, AtStep
  <2>4. s = t
    BY <2>2, <2>3 DEF StepFits
  <2> QED
    BY <1>1, <2>2, <2>3, <2>4, AdvanceKeeps
<1>2. CASE work[w] # None /\ Raise(w) /\ UNCHANGED <<work, held, current>>
  <2>1. PICK s \in Stacks : Busy(w, s)
    BY <1>2 DEF WorkerInv
  <2> QED
    BY <1>2, <2>1, RaiseKeeps
<1>3. CASE work[w] # None /\ UNCHANGED <<work, rest, held, current, failing>>
  <2>1. PICK s \in Stacks : Busy(w, s)
    BY <1>3 DEF WorkerInv
  <2>2. Busy(w, s)'
    BY <1>3, <2>1 DEF Busy
  <2> QED
    BY <1>3, <2>2 DEF WorkerInv
<1>4. CASE RunCode(w)
  <2>1. UNCHANGED <<work, held, current>>
    BY <1>4 DEF RunCode
  <2>2. CASE At(w, "run") /\ Raise(w)
    BY <1>2, <2>1, <2>2 DEF At
  <2>3. CASE (At(w, "run") \/ At(w, "caught")) /\ Advance(w) /\ UNCHANGED failing
    BY <1>1, <2>1, <2>3
  <2> QED
    BY <1>4, <2>2, <2>3 DEF RunCode
<1>5. CASE StreamYields(w)
  BY <1>3, <1>5 DEF StreamYields, At
<1>6. CASE StreamEnds(w)
  <2>1. At(w, "stream") /\ UNCHANGED <<work, held, current>>
    BY <1>6 DEF StreamEnds
  <2>2. CASE Raise(w)
    BY <1>2, <2>1, <2>2 DEF At
  <2>3. CASE Advance(w) /\ UNCHANGED failing
    BY <1>1, <2>1, <2>3
  <2> QED
    BY <1>6, <2>2, <2>3 DEF StreamEnds
<1>7. CASE Answers(w)
  BY <1>1, <1>7 DEF Answers
<1>8. CASE RaiseError(w)
  BY <1>2, <1>8 DEF RaiseError, At
<1>9. CASE WriteMessage(w)
  <2>1. work[w] # None /\ UNCHANGED <<work, current>>
    BY <1>9 DEF WriteMessage, WorkerInv, Idle
  <2>2. CASE Raise(w) /\ held' = [held EXCEPT ![w] = Abandoned(work[w].request.action, @)]
    <3>1. PICK s \in Stacks : Busy(w, s)
      BY <2>1 DEF WorkerInv
    <3>2. PICK a : a = work[w].request.action
      OBVIOUS
    <3>3. Opened(w, held[w], s) /\ Once(s)
      BY <3>1 DEF Busy
    <3>4. PICK t \in Stacks : /\ Opened(w, Abandoned(a, held[w]), t) /\ Once(t)
                              /\ In("session", t) <=> In("session", s)
      BY <3>3, AbandonedOpens
    <3>5. failing'[w] /\ rest'[w] = <<>> /\ work'[w] = work[w] /\ current'[w] = current[w]
      BY <2>1, <2>2 DEF Raise, Functions
    <3>6. held'[w] = Abandoned(a, held[w])
      <4>1. PICK g : g = Abandoned(work[w].request.action, held[w])
        OBVIOUS
      <4>2. held' = [held EXCEPT ![w] = g]
        BY <2>2, <4>1, Zenon
      <4>3. held'[w] = g
        BY <4>2 DEF Functions
      <4> QED
        BY <3>2, <4>1, <4>3
    <3>7. Opened(w, held'[w], t) /\ Once(t)
      BY <3>4, <3>6
    <3>8. current'[w] = IF In("session", t) THEN work'[w].session ELSE None
      BY <3>1, <3>4, <3>5 DEF Busy
    <3>9. Busy(w, t)'
      BY <3>5, <3>7, <3>8 DEF Busy
    <3> QED
      BY <2>1, <3>9 DEF WorkerInv
  <2>3. CASE UNCHANGED <<rest, held, failing>>
    BY <1>3, <2>1, <2>3
  <2> QED
    BY <1>9, <2>2, <2>3 DEF WriteMessage
<1> QED
  BY <1>4, <1>5, <1>6, <1>7, <1>8, <1>9

(***************************************************************************)
(* A worker that has finished is at rest, whatever way it has.             *)
(***************************************************************************)
LEMMA FinishKeeps ==
  ASSUME Functions, NEW w \in Workers, WorkerInv(w), Finish(w)
  PROVE  WorkerInv(w)'
<1>1. /\ work[w] # None /\ rest[w] = <<>> /\ out[w] = <<>>
      /\ failing[w] => held[w] = <<>>
      /\ work'[w] = None /\ ~failing'[w]
      /\ UNCHANGED <<rest, held, current, out>>
  BY DEF Finish, Functions
<1>2. PICK s \in Stacks : Busy(w, s)
  BY <1>1 DEF WorkerInv
<1>3. Opened(w, held[w], s)
  BY <1>2 DEF Busy
<1>4. held[w] = <<>> <=> s = <<>>
  <2>1. \A h, r : r \in Stacks /\ Opened(w, h, r) => (h = <<>> <=> r = <<>>)
    BY HoldingNone
  <2> QED
    BY <1>3, <2>1
<1>5. s = <<>>
  <2>1. CASE failing[w]
    BY <1>1, <1>4, <2>1
  <2>2. CASE ~failing[w]
    <3>1. Leads(w, work[w].request, s, rest[w], <<>>)
      BY <1>2, <2>2 DEF Busy
    <3> QED
      BY <1>1, <3>1, FirstStep
  <2> QED
    BY <2>1, <2>2
<1>6. held[w] = <<>> /\ current[w] = None
  BY <1>2, <1>4, <1>5, NoneOpen DEF Busy
<1> QED
  BY <1>1, <1>6 DEF WorkerInv, Idle

(***************************************************************************)
(* The invariant of the workers holds at first, and each step keeps it.    *)
(***************************************************************************)
LEMMA Inductive == Spec => []Inv
<1>1. Init => Inv
  BY DEF Init, Inv, Functions, WorkerInv, Idle
<1>2. ASSUME Inv, [Next]_vars PROVE Inv'
  <2>1. CASE UNCHANGED workerVars
    BY <1>2, <2>1 DEF Inv, Functions, WorkerInv, Idle, Busy, workerVars
  <2>2. ASSUME NEW w \in Workers, Working(w) PROVE Inv'
    <3>1. Functions /\ WorkerInv(w)
      BY <1>2 DEF Inv
    <3>2. Functions' /\ Alone(w)
      BY <2>2, <3>1, OnItsOwn
    <3>3. WorkerInv(w)'
      <4>1. CASE Take(w)
        BY <3>1, <4>1, TakeKeeps
      <4>2. CASE EnterContext(w)
        BY <3>1, <4>2, EnterKeeps
      <4>3. CASE ExitContext(w)
        BY <3>1, <4>3, ExitKeeps
      <4>4. CASE Unwind(w)
        BY <3>1, <4>4, UnwindKeeps
      <4>5. CASE Finish(w)
        BY <3>1, <4>5, FinishKeeps
      <4>6. CASE \/ RunCode(w) \/ StreamYields(w) \/ StreamEnds(w) \/ Answers(w)
                 \/ RaiseError(w) \/ WriteMessage(w)
        BY <3>1, <4>6, OtherStepsKeep
      <4> QED
        BY <2>2, <4>1, <4>2, <4>3, <4>4, <4>5, <4>6 DEF Working
    <3>4. ASSUME NEW v \in Workers, v # w PROVE WorkerInv(v)'
      <4>1. /\ work'[v] = work[v] /\ rest'[v] = rest[v] /\ held'[v] = held[v]
            /\ current'[v] = current[v] /\ out'[v] = out[v] /\ failing'[v] = failing[v]
        BY <3>2, <3>4 DEF Alone
      <4>2. WorkerInv(v)
        BY <1>2 DEF Inv
      <4> QED
        BY <4>1, <4>2 DEF WorkerInv, Idle, Busy
    <3> QED
      BY <3>2, <3>3, <3>4 DEF Inv
  <2>3. CASE UNCHANGED vars
    BY <2>1, <2>3 DEF vars
  <2> QED
    BY <1>2, <2>1, <2>2, <2>3 DEF Next
<1> QED
  BY <1>1, <1>2, PTL DEF Spec

-----------------------------------------------------------------------------
(* What the workers promise.                                               *)

(***************************************************************************)
(* Whatever the plugin, the requests and the number of workers: the code   *)
(* of a model that is invoked finds its own request's session, other code  *)
(* none, and a worker that is done, whatever way, has put back everything. *)
(***************************************************************************)
THEOREM SessionsAreOwn == Spec => []OwnSession
<1>1. ASSUME Inv PROVE OwnSession
  <2>1. ASSUME NEW w \in Workers, work[w] = None PROVE current[w] = None /\ held[w] = <<>>
    BY <1>1, <2>1 DEF Inv, WorkerInv, Idle
  <2>2. ASSUME NEW w \in Workers, Calling(w)
        PROVE  current[w] = IF work[w].request.action \in Invocations
                            THEN work[w].session ELSE None
    <3>1. PICK do \in {"run", "caught", "stream"} : At(w, do)
      BY <2>2 DEF Calling
    <3>2. PICK s, t \in Stacks :
            /\ Busy(w, s)
            /\ StepFits(w, work[w].request, s, rest[w][1], t)
      BY <1>1, <3>1, AtStep DEF Inv
    <3>3. rest[w][1].do = do
      BY <3>1 DEF At
    <3>4. In("session", s) <=> work[w].request.action \in Invocations
      BY <3>2, <3>3 DEF StepFits
    <3> QED
      BY <3>2, <3>4 DEF Busy
  <2> QED
    BY <2>1, <2>2 DEF OwnSession
<1> QED
  BY <1>1, Inductive, PTL

(***************************************************************************)
(* No model refuses to run because it is being timed: an instance belongs  *)
(* to the worker that made it, and no program times within a timing.       *)
(***************************************************************************)
THEOREM TimingsAreApart == Spec => []NoTimingRace
<1>1. ASSUME Inv PROVE NoTimingRace
  <2>1. SUFFICES ASSUME NEW w \in Workers, At(w, "with"), rest[w][1].what = "timing",
                        rest[w][1].code \in Timed
                 PROVE  FALSE
    BY DEF NoTimingRace
  <2>2. PICK s, t \in Stacks :
          /\ Busy(w, s)
          /\ StepFits(w, work[w].request, s, rest[w][1], t)
    BY <1>1, <2>1, AtStep DEF Inv
  <2>3. ~In("timing", s) /\ rest[w][1].code.owner = w
    <3>1. rest[w][1].do = "with"
      BY <2>1 DEF At
    <3> QED
      BY <2>1, <2>2, <3>1 DEF StepFits
  <2>4. PICK v \in Workers : \E i \in DOMAIN held[v] :
           held[v][i].what = "timing" /\ held[v][i].code = rest[w][1].code
    BY <2>1 DEF Timed
  <2>5. PICK i \in DOMAIN held[v] :
          held[v][i].what = "timing" /\ held[v][i].code = rest[w][1].code
    BY <2>4
  <2>6. WorkerInv(v)
    BY <1>1 DEF Inv
  <2>7. PICK r \in Stacks : Busy(v, r)
    <3>1. CASE work[v] = None
      <4>1. held[v] = <<>>
        BY <2>6, <3>1 DEF WorkerInv, Idle
      <4> QED
        BY <2>5, <4>1
    <3>2. CASE work[v] # None
      BY <2>6, <3>2 DEF WorkerInv
    <3> QED
      BY <3>1, <3>2
  <2>8. Opened(v, held[v], r)
    BY <2>7 DEF Busy
  <2>9. PICK h : h = held[v]
    OBVIOUS
  <2>10. i \in 1 .. Len(r) /\ i \in DOMAIN r
    <3>1. PICK S : h \in Seq(S)
      BY <2>8, <2>9 DEF Opened
    <3>2. Len(h) = Len(r)
      BY <2>8, <2>9 DEF Opened
    <3> QED
      BY <2>5, <2>9, <3>1, <3>2 DEF Stacks
  <2>11. r[i] = "timing" /\ h[i].code.owner = v
    BY <2>5, <2>8, <2>9, <2>10 DEF Opened
  <2>12. v = w
    BY <2>3, <2>5, <2>9, <2>11
  <2>13. Opened(w, h, s) /\ Len(s) = Len(r)
    BY <2>2, <2>8, <2>9, <2>12 DEF Busy, Opened
  <2>14. s[i] = "timing" /\ i \in DOMAIN s
    BY <2>5, <2>9, <2>10, <2>13 DEF Opened, Stacks
  <2> QED
    BY <2>3, <2>14 DEF In
<1> QED
  BY <1>1, Inductive, PTL

-----------------------------------------------------------------------------
(* Numbers, sets of them, and sequences.                                   *)

(***************************************************************************)
(* Less than, on the naturals, is well-founded, ...                        *)
(***************************************************************************)
LEMMA Less == \E R : /\ IsWellFoundedOn(R, Nat)
                     /\ \A m, n \in Nat : m < n => <<m, n>> \in R
<1>1. IsWellFoundedOn(OpToRel(<, Nat), Nat)
  BY NatLessThanWellFounded
<1>2. \A m, n \in Nat : m < n => <<m, n>> \in OpToRel(<, Nat)
  BY DEF OpToRel
<1> QED BY <1>1, <1>2

(***************************************************************************)
(* ... so that any of them have a least one, ...                           *)
(***************************************************************************)
LEMMA Least ==
  ASSUME NEW S \in SUBSET Nat, S # {}
  PROVE  \E x \in S : \A y \in S : x <= y
<1>1. PICK R : IsWellFoundedOn(R, Nat) /\ \A m, n \in Nat : m < n => <<m, n>> \in R
  BY Less
<1>2. PICK x \in S : \A y \in S : ~ (<<y, x>> \in R)
  <2>1. IsWellFoundedOn(R, Nat) /\ S \subseteq Nat
    BY <1>1
  <2>2. \E x \in S : \A y \in S : ~ (<<y, x>> \in R)
    BY <2>1, WFMin, Zenon
  <2> QED
    BY <2>2
<1>3. ASSUME NEW y \in S PROVE x <= y
  <2>1. x \in Nat /\ y \in Nat /\ ~(y < x)
    BY <1>1, <1>2
  <2> QED
    BY <2>1
<1> QED
  BY <1>3

(***************************************************************************)
(* ... and induction follows, for a set of naturals rather than for a      *)
(* predicate.                                                              *)
(***************************************************************************)
LEMMA SetInduction ==
  ASSUME NEW T \in SUBSET Nat, 0 \in T, \A n \in T : n + 1 \in T
  PROVE  T = Nat
<1>1. SUFFICES ASSUME Nat \ T # {} PROVE FALSE
  OBVIOUS
<1>2. PICK U \in SUBSET Nat : U = Nat \ T
  OBVIOUS
<1>3. PICK x \in U : \A y \in U : x <= y
  BY <1>1, <1>2, Least
<1>4. x \in Nat /\ x # 0
  BY <1>2, <1>3
<1>5. x - 1 \in Nat /\ x - 1 < x /\ (x - 1) + 1 = x
  BY <1>4
<1>6. x - 1 \in T
  BY <1>2, <1>3, <1>5
<1> QED
  BY <1>2, <1>3, <1>5, <1>6

(***************************************************************************)
(* The greatest of bounded ones, ...                                       *)
(***************************************************************************)
LEMMA Greatest ==
  ASSUME NEW n \in Nat, NEW S \in SUBSET (0 .. n), S # {}
  PROVE  \E x \in S : \A y \in S : y <= x
<1>1. PICK U : U = {n - x : x \in S}
  OBVIOUS
<1>5. U \in SUBSET Nat /\ U # {}
  <2>1. \A x \in S : n - x \in Nat
    OBVIOUS
  <2> QED
    BY <1>1, <2>1
<1>2. PICK u \in U : \A y \in U : u <= y
  BY <1>5, Least
<1>3. PICK x \in S : u = n - x
  BY <1>1, <1>2
<1>4. ASSUME NEW y \in S PROVE y <= x
  <2>1. n - y \in U
    BY <1>1
  <2> QED
  BY <1>2, <1>3, <2>1
<1> QED
  BY <1>4

(***************************************************************************)
(* ... which is Max, ...                                                   *)
(***************************************************************************)
LEMMA MaxIs ==
  ASSUME NEW n \in Nat, NEW S \in SUBSET (0 .. n), S # {}
  PROVE  Max(S) \in S /\ \A y \in S : y <= Max(S)
<1>1. \E x \in S : \A y \in S : x >= y
  BY Greatest
<1> QED
  BY <1>1 DEF Max

(***************************************************************************)
(* ... and the least, which is Min.                                        *)
(***************************************************************************)
LEMMA MinIs ==
  ASSUME NEW S \in SUBSET Nat, S # {}
  PROVE  Min(S) \in S /\ \A y \in S : Min(S) <= y
BY Least DEF Min

(***************************************************************************)
(* f[i] is the first i of the sequences of s, put together.                *)
(***************************************************************************)
Partial(s, n, f) == \A i \in 1 .. n : f[i] = IF i = 1 THEN s[i] ELSE f[i - 1] \o s[i]

(***************************************************************************)
(* There is such an f, ...                                                 *)
(***************************************************************************)
LEMMA PartialExists ==
  ASSUME NEW X, NEW s \in Seq(Seq(X)), NEW n \in Nat, n <= Len(s)
  PROVE  \E f \in [1 .. n -> Seq(X)] : Partial(s, n, f)
<1> DEFINE T == {m \in Nat : m <= Len(s) => \E f \in [1 .. m -> Seq(X)] : Partial(s, m, f)}
<1>1. 0 \in T
  <2>1. [i \in 1 .. 0 |-> <<>>] \in [1 .. 0 -> Seq(X)]
    OBVIOUS
  <2>2. Partial(s, 0, [i \in 1 .. 0 |-> <<>>])
    BY DEF Partial
  <2> QED
    BY <2>1, <2>2
<1>2. ASSUME NEW m \in T PROVE m + 1 \in T
  <2>1. SUFFICES ASSUME m + 1 <= Len(s)
                 PROVE  \E f \in [1 .. m + 1 -> Seq(X)] : Partial(s, m + 1, f)
    OBVIOUS
  <2>2. PICK f \in [1 .. m -> Seq(X)] : Partial(s, m, f)
    BY <2>1
  <2>3. PICK y \in Seq(X) : y = IF m = 0 THEN s[1] ELSE f[m] \o s[m + 1]
    <3>1. m + 1 \in 1 .. Len(s) /\ s[m + 1] \in Seq(X)
      BY <2>1
    <3>2. CASE m = 0
      BY <3>1, <3>2
    <3>3. CASE m # 0
      <4>1. m \in 1 .. m /\ f[m] \in Seq(X)
        BY <2>2, <3>3
      <4>2. f[m] \o s[m + 1] \in Seq(X)
        BY <3>1, <4>1
      <4> QED
        BY <3>3, <4>2
    <3> QED
      BY <3>2, <3>3
  <2>4. PICK g : g = [i \in 1 .. m + 1 |-> IF i = m + 1 THEN y ELSE f[i]]
    OBVIOUS
  <2>5. g \in [1 .. m + 1 -> Seq(X)]
    BY <2>4
  <2>6. ASSUME NEW i \in 1 .. m + 1
        PROVE  g[i] = IF i = 1 THEN s[i] ELSE g[i - 1] \o s[i]
    <3>1. CASE i = m + 1
      BY <2>3, <2>4, <3>1
    <3>2. CASE i # m + 1
      <4>1. i \in 1 .. m /\ g[i] = f[i] /\ (i # 1 => g[i - 1] = f[i - 1])
        BY <2>4, <3>2
      <4> QED
        BY <2>2, <4>1 DEF Partial
    <3> QED
      BY <3>1, <3>2
  <2> QED
    BY <2>5, <2>6 DEF Partial
<1>3. T = Nat
  <2> HIDE DEF T
  <2>1. T \in SUBSET Nat
    BY DEF T
  <2> QED
    BY <1>1, <1>2, <2>1, SetInduction
<1> QED
  BY <1>3

(***************************************************************************)
(* ... which is what the fold of FlattenSeq computes, ...                  *)
(***************************************************************************)
LEMMA FlattenIs ==
  ASSUME NEW X, NEW s \in Seq(Seq(X)), Len(s) # 0,
         NEW f \in [1 .. Len(s) -> Seq(X)], Partial(s, Len(s), f)
  PROVE  FlattenSeq(s) = f[Len(s)]
<1>1. PICK n \in Nat \ {0} : n = Len(s)
  OBVIOUS
<1> DEFINE G(g) == [i \in 1 .. Len(s) |-> IF i = 1 THEN s[i] ELSE g[i - 1] \o s[i]]
<1>2. f = G(f)
  BY DEF Partial
<1>3. PICK g : g = G(g) /\ FlattenSeq(s) = g[Len(s)]
  <2>1. PICK g : g = CHOOSE h : h = G(h)
    OBVIOUS
  <2>2. g = G(g)
    BY <1>2, <2>1
  <2>3. FlattenSeq(s) = g[Len(s)]
    BY <2>1 DEF FlattenSeq
  <2> QED
    BY <2>2, <2>3
<1> DEFINE T == {m \in Nat : m + 1 \in 1 .. n => f[m + 1] = g[m + 1]}
<1>4. 0 \in T
  BY <1>1, <1>2, <1>3
<1>5. ASSUME NEW m \in T PROVE m + 1 \in T
  <2>1. SUFFICES ASSUME m + 2 \in 1 .. n PROVE f[m + 2] = g[m + 2]
    OBVIOUS
  <2>2. m + 1 \in 1 .. n /\ f[m + 1] = g[m + 1] /\ m + 2 # 1 /\ (m + 2) - 1 = m + 1
    BY <2>1
  <2>3. f[m + 2] = f[m + 1] \o s[m + 2]
    BY <1>1, <2>1, <2>2 DEF Partial
  <2>4. g[m + 2] = g[m + 1] \o s[m + 2]
    BY <1>1, <1>3, <2>1, <2>2
  <2> QED
    BY <2>2, <2>3, <2>4
<1>6. T = Nat
  <2> HIDE DEF T
  <2>1. T \in SUBSET Nat
    BY DEF T
  <2> QED
    BY <1>4, <1>5, <2>1, SetInduction
<1>7. n - 1 \in Nat /\ (n - 1) + 1 = n /\ n \in 1 .. n
  BY <1>1
<1>8. f[n] = g[n]
  BY <1>6, <1>7
<1> QED
  BY <1>1, <1>3, <1>8

(***************************************************************************)
(* ... of no sequences ...                                                 *)
(***************************************************************************)
LEMMA FlattenEmpty == FlattenSeq(<<>>) = <<>>
BY DEF FlattenSeq

(***************************************************************************)
(* ... and of one more.                                                    *)
(***************************************************************************)
LEMMA FlattenAppend ==
  ASSUME NEW X, NEW s \in Seq(Seq(X)), NEW x \in Seq(X)
  PROVE  /\ FlattenSeq(s) \in Seq(X)
         /\ FlattenSeq(Append(s, x)) = FlattenSeq(s) \o x
<1>1. PICK n \in Nat : n = Len(s)
  OBVIOUS
<1>2. PICK f \in [1 .. n -> Seq(X)] : Partial(s, n, f)
  BY <1>1, PartialExists
<1>3. PICK y \in Seq(X) : y = FlattenSeq(s) /\ (n # 0 => y = f[n])
  <2>1. CASE n = 0
    <3>1. s = <<>>
      BY <1>1, <2>1, EmptySeq
    <3>2. FlattenSeq(s) = <<>>
      BY <3>1, FlattenEmpty
    <3>3. <<>> \in Seq(X)
      BY EmptySeq
    <3> QED
      BY <2>1, <3>2, <3>3
  <2>2. CASE n # 0
    <3>1. FlattenSeq(s) = f[n]
      BY <1>1, <1>2, <2>2, FlattenIs
    <3>2. f[n] \in Seq(X)
      BY <1>2, <2>2
    <3> QED
      BY <3>1, <3>2
  <2> QED
    BY <2>1, <2>2
<1>4. PICK t \in Seq(Seq(X)) : t = Append(s, x)
  BY AppendProperties
<1>5. PICK g : g = [i \in 1 .. n + 1 |-> IF i = n + 1 THEN y \o x ELSE f[i]]
  OBVIOUS
<1>6. Len(t) = n + 1 /\ t[n + 1] = x /\ \A i \in 1 .. n : t[i] = s[i]
  BY <1>1, <1>4
<1>7. g \in [1 .. Len(t) -> Seq(X)]
  BY <1>5, <1>6
<1>8. ASSUME NEW i \in 1 .. n + 1
      PROVE  g[i] = IF i = 1 THEN t[i] ELSE g[i - 1] \o t[i]
  <2>1. CASE i = n + 1 /\ n # 0
    <3>1. i - 1 = n /\ i # 1 /\ n \in 1 .. n + 1 /\ n # n + 1
      BY <2>1
    <3>2. g[i] = y \o x /\ g[n] = y /\ t[i] = x
      BY <1>3, <1>5, <1>6, <2>1, <3>1
    <3> QED
      BY <3>1, <3>2
  <2>2. CASE i = n + 1 /\ n = 0
    <3>1. y = <<>>
      <4>1. s = <<>>
        BY <1>1, <2>2, EmptySeq
      <4> QED
        BY <1>3, <4>1, FlattenEmpty
    <3>2. y \o x = x
      BY <3>1
    <3> QED
      BY <1>5, <1>6, <2>2, <3>2
  <2>3. CASE i # n + 1
    <3>1. i \in 1 .. n /\ g[i] = f[i] /\ (i # 1 => g[i - 1] = f[i - 1]) /\ t[i] = s[i]
      BY <1>5, <1>6, <2>3
    <3> QED
      BY <1>2, <3>1 DEF Partial
  <2> QED
    BY <2>1, <2>2, <2>3
<1>9. Partial(t, Len(t), g)
  BY <1>6, <1>8 DEF Partial
<1>10. FlattenSeq(t) = g[n + 1]
  BY <1>6, <1>7, <1>9, FlattenIs
<1>11. g[n + 1] = y \o x
  BY <1>5
<1> QED
  BY <1>3, <1>4, <1>10, <1>11

(***************************************************************************)
(* Induction on sequences, for a set of them.                              *)
(***************************************************************************)
LEMMA SequenceInduction ==
  ASSUME NEW S, NEW T \in SUBSET Seq(S), <<>> \in T,
         \A s \in T, x \in S : Append(s, x) \in T
  PROVE  T = Seq(S)
<1> DEFINE U == {n \in Nat : \A s \in Seq(S) : Len(s) = n => s \in T}
<1>1. 0 \in U
  BY EmptySeq
<1>2. ASSUME NEW n \in U PROVE n + 1 \in U
  <2>1. SUFFICES ASSUME NEW s \in Seq(S), Len(s) = n + 1 PROVE s \in T
    OBVIOUS
  <2>2. s # <<>>
    BY <2>1, EmptySeq
  <2>3. PICK t \in Seq(S), x \in S : s = Append(t, x)
    BY <2>2, SequenceEmptyOrAppend
  <2>4. Len(t) = n
    BY <2>1, <2>3, AppendProperties
  <2> QED
    BY <2>3, <2>4
<1>3. U = Nat
  <2> HIDE DEF U
  <2>1. U \in SUBSET Nat
    BY DEF U
  <2> QED
    BY <1>1, <1>2, <2>1, SetInduction
<1> QED
  BY <1>3, LenProperties

-----------------------------------------------------------------------------
(* Pieces.                                                                 *)

(***************************************************************************)
(* The remainder is less than the divisor, ...                             *)
(***************************************************************************)
LEMMA Divided ==
  ASSUME NEW a \in Nat, NEW c \in Nat \ {0}
  PROVE  a \div c \in Nat /\ (a \div c) * c <= a /\ a < ((a \div c) + 1) * c
OBVIOUS

(***************************************************************************)
(* ... so that there are as many pieces as it takes, and each but the last *)
(* is whole.                                                               *)
(***************************************************************************)
LEMMA NumberOfPieces ==
  ASSUME NEW l \in Nat, NEW c \in Nat \ {0}, NEW m, m = (l + c - 1) \div c
  PROVE  /\ m \in Nat /\ l <= m * c
         /\ \A n \in 0 .. m - 1 : n * c < l /\ (n + 1) * c = n * c + c
<1>1. /\ l + c - 1 \in Nat
  OBVIOUS
<1>2. /\ m \in Nat /\ m * c <= l + c - 1 /\ l + c - 1 < (m + 1) * c
  BY <1>1, Divided
<1>3. (m + 1) * c = m * c + c /\ m * c \in Nat
  BY <1>2
<1>4. l <= m * c
  BY <1>2, <1>3
<1>5. ASSUME NEW n \in 0 .. m - 1 PROVE n * c < l /\ (n + 1) * c = n * c + c
  <2>1. (n + 1) * c = n * c + c /\ n * c \in Nat
    BY <1>2
  <2>2. PICK k \in Nat : m = (n + 1) + k
    <3>1. m - (n + 1) \in Nat /\ m = (n + 1) + (m - (n + 1))
      BY <1>2
    <3> QED
      BY <3>1
  <2>3. m * c = (n + 1) * c + k * c /\ k * c \in Nat
    BY <2>2
  <2>4. (n + 1) * c <= m * c
    BY <2>1, <2>3
  <2> QED
    BY <1>2, <1>3, <2>1, <2>4
<1> QED
  BY <1>2, <1>4, <1>5

(***************************************************************************)
(* The pieces of data are not empty, and are the data; only the last one   *)
(* reaches its end.                                                        *)
(***************************************************************************)
LEMMA Piecewise ==
  ASSUME NEW X, NEW data \in Seq(X)
  PROVE  /\ Pieces(data) \in Seq(Seq(X)) /\ FlattenSeq(Pieces(data)) = data
         /\ \A i \in 1 .. Len(Pieces(data)) :
              /\ Pieces(data)[i] # <<>>
              /\ i * ChunkSize >= Len(data) <=> i = Len(Pieces(data))
<1>1. PICK c \in Nat \ {0} : c = ChunkSize
  BY ChunkSizeAssumption
<1>2. PICK l \in Nat : l = Len(data)
  OBVIOUS
<1>3. PICK m : m = (l + c - 1) \div c
  OBVIOUS
<1>4. /\ m \in Nat /\ l <= m * c /\ m * c \in Nat
      /\ \A n \in 0 .. m - 1 : n * c < l /\ (n + 1) * c = n * c + c
  <2>1. /\ m \in Nat /\ l <= m * c
        /\ \A n \in 0 .. m - 1 : n * c < l /\ (n + 1) * c = n * c + c
    BY <1>3, NumberOfPieces
  <2> QED
    BY <2>1
<1>5. PICK P : P = Pieces(data)
  OBVIOUS
<1>6. P = [i \in 1 .. m |-> SubSeq(data, (i - 1) * c + 1, IF i * c < l THEN i * c ELSE l)]
  BY <1>1, <1>2, <1>3, <1>5 DEF Pieces
<1>7. ASSUME NEW n \in 0 .. m - 1
      PROVE  /\ n * c \in 0 .. l - 1
             /\ \E e \in n * c + 1 .. l :
                  /\ e = IF (n + 1) * c < l THEN (n + 1) * c ELSE l
                  /\ P[n + 1] = SubSeq(data, n * c + 1, e)
                  /\ P[n + 1] \in Seq(X) /\ P[n + 1] # <<>>
  <2>1. n \in Nat /\ n * c \in Nat /\ n * c < l /\ (n + 1) * c = n * c + c /\ (n + 1) - 1 = n
    BY <1>4
  <2>2. PICK a \in Nat : a = n * c
    BY <2>1
  <2>3. PICK e : e = IF a + c < l THEN a + c ELSE l
    OBVIOUS
  <2>4. a < l /\ e \in a + 1 .. l
    BY <2>1, <2>2, <2>3
  <2>5. P[n + 1] = SubSeq(data, a + 1, e)
    BY <1>4, <1>6, <2>1, <2>2, <2>3
  <2>6. \A i \in a + 1 .. e : data[i] \in X
    BY <1>2, <2>4
  <2>7. SubSeq(data, a + 1, e) \in Seq(X) /\ Len(SubSeq(data, a + 1, e)) = e - (a + 1) + 1
    BY <2>4, <2>6, SubSeqProperties
  <2>8. SubSeq(data, a + 1, e) # <<>>
    <3>1. Len(SubSeq(data, a + 1, e)) # 0
      BY <2>4, <2>7
    <3> QED
      BY <3>1, EmptySeq
  <2> QED
    BY <2>1, <2>2, <2>3, <2>4, <2>5, <2>7, <2>8
<1>8. P \in Seq(Seq(X)) /\ Len(P) = m
  <2>1. ASSUME NEW i \in 1 .. m PROVE P[i] \in Seq(X)
    <3>1. i - 1 \in 0 .. m - 1 /\ (i - 1) + 1 = i
      BY <1>4
    <3> QED
      BY <1>7, <3>1
  <2>2. DOMAIN P = 1 .. m /\ P \in [1 .. m -> Seq(X)]
    BY <1>6, <2>1
  <2> QED
    BY <1>4, <2>2
<1> DEFINE T == {n \in Nat : n <= m => /\ n = m \/ n * c < l
                                      /\ FlattenSeq(SubSeq(P, 1, n))
                                         = SubSeq(data, 1, IF n * c < l THEN n * c ELSE l)}
<1>9. 0 \in T
  <2>1. SubSeq(P, 1, 0) = <<>> /\ SubSeq(data, 1, 0) = <<>>
    BY SubSeqEmpty
  <2>2. 0 * c = 0 /\ (IF 0 * c < l THEN 0 * c ELSE l) = 0
    BY <1>4
  <2>3. 0 = m \/ 0 * c < l
    BY <1>4
  <2> QED
    BY <2>1, <2>2, <2>3, FlattenEmpty
<1>10. ASSUME NEW n \in T PROVE n + 1 \in T
  <2>1. SUFFICES ASSUME n + 1 <= m
                 PROVE  /\ n + 1 = m \/ (n + 1) * c < l
                        /\ FlattenSeq(SubSeq(P, 1, n + 1))
                           = SubSeq(data, 1, IF (n + 1) * c < l THEN (n + 1) * c ELSE l)
    OBVIOUS
  <2>2. n \in 0 .. m - 1 /\ n <= m /\ (n + 1 # m => n + 1 \in 0 .. m - 1)
    BY <1>4, <2>1
  <2>3. PICK a \in 0 .. l - 1 : a = n * c
    BY <1>7, <2>2
  <2>4. PICK e \in a + 1 .. l : /\ e = IF (n + 1) * c < l THEN (n + 1) * c ELSE l
                               /\ P[n + 1] = SubSeq(data, a + 1, e)
                               /\ P[n + 1] \in Seq(X)
    BY <1>7, <2>2, <2>3
  <2>5. n + 1 = m \/ (n + 1) * c < l
    BY <1>4, <2>2
  <2>6. FlattenSeq(SubSeq(P, 1, n)) = SubSeq(data, 1, a)
    BY <2>2, <2>3
  <2>7. SubSeq(P, 1, n + 1) = Append(SubSeq(P, 1, n), P[n + 1]) /\ SubSeq(P, 1, n) \in Seq(Seq(X))
    <3>1. n + 1 \in 1 .. Len(P) /\ 1 \in 1 .. Len(P) /\ n + 1 \in 1 .. Len(P) /\ (n + 1) - 1 = n
      BY <1>8, <2>1, <2>2
    <3>2. SubSeq(P, 1, n + 1) = SubSeq(P, 1, n) \o <<P[n + 1]>>
      BY <1>8, <3>1, SubSeqRecursiveSecond
    <3>3. \A i \in 1 .. n : P[i] \in Seq(X)
      BY <1>8, <3>1
    <3>4. SubSeq(P, 1, n) \in Seq(Seq(X))
      BY <2>2, <3>3, SubSeqProperties
    <3> QED
      BY <2>4, <3>2, <3>4, AppendIsConcat
  <2>8. FlattenSeq(SubSeq(P, 1, n + 1)) = SubSeq(data, 1, a) \o SubSeq(data, a + 1, e)
    BY <2>4, <2>6, <2>7, FlattenAppend
  <2>9. SubSeq(data, 1, a) \o SubSeq(data, a + 1, e) = SubSeq(data, 1, e)
    <3>1. 1 \in 1 .. Len(data) + 1 /\ a \in 1 - 1 .. Len(data) /\ e \in a .. Len(data)
      BY <1>2, <2>3, <2>4
    <3> QED
      BY <3>1, ConcatAdjacentSubSeq
  <2> QED
    BY <2>4, <2>5, <2>8, <2>9
<1>11. T = Nat
  <2> HIDE DEF T
  <2>1. T \in SUBSET Nat
    BY DEF T
  <2> QED
    BY <1>9, <1>10, <2>1, SetInduction
<1>12. FlattenSeq(P) = data
  <2>1. FlattenSeq(SubSeq(P, 1, m)) = SubSeq(data, 1, IF m * c < l THEN m * c ELSE l)
    BY <1>4, <1>11
  <2>2. (IF m * c < l THEN m * c ELSE l) = l
    BY <1>4
  <2>3. SubSeq(P, 1, m) = P /\ SubSeq(data, 1, l) = data
    BY <1>2, <1>8, SubSeqFull
  <2> QED
    BY <2>1, <2>2, <2>3
<1>13. ASSUME NEW i \in 1 .. m PROVE P[i] # <<>> /\ (i * c >= l <=> i = m)
  <2>1. i - 1 \in 0 .. m - 1 /\ (i - 1) + 1 = i /\ (i # m => i \in 0 .. m - 1)
    BY <1>4
  <2>2. P[i] # <<>>
    BY <1>7, <2>1
  <2>3. i # m => i * c < l
    BY <1>4, <2>1
  <2>4. i * c \in Nat
    BY <2>1
  <2> QED
    BY <1>4, <2>2, <2>3, <2>4
<1> QED
  BY <1>1, <1>2, <1>5, <1>8, <1>12, <1>13

(***************************************************************************)
(* What is left of the chunks of a blob, after the first k.                *)
(***************************************************************************)
LEMMA BlobWhole ==
  ASSUME NEW data \in Seq(Nat), NEW k \in 0 .. Len(Pieces(data)),
         NEW o, o = SubSeq(BlobChunks(data), k + 1, Len(Pieces(data)) + 1)
  PROVE  /\ BlobReassembles(o, data)
         /\ Len(o) = Len(Pieces(data)) + 1 - k
<1>1. PICK P \in Seq(Seq(Nat)) : P = Pieces(data)
  BY Piecewise
<1>2. FlattenSeq(P) = data /\ \A i \in 1 .. Len(P) : P[i] # <<>>
  BY <1>1, Piecewise
<1>3. PICK m \in Nat : m = Len(P)
  OBVIOUS
<1>4. PICK c : c = BlobChunks(data)
  OBVIOUS
<1>5. c = [i \in 1 .. m + 1 |->
             [type |-> "blob chunk", sequence |-> i - 1, total |-> Len(data),
              data |-> IF i <= m THEN P[i] ELSE <<>>, end |-> i > m]]
  BY <1>1, <1>3, <1>4 DEF BlobChunks
<1>6. PICK S : S = {c[i] : i \in 1 .. m + 1}
  OBVIOUS
<1>7. k \in 0 .. m
  BY <1>1, <1>3
<1>8. \A i \in k + 1 .. m + 1 : c[i] \in S
  BY <1>6, <1>7
<1>9. o = SubSeq(c, k + 1, m + 1)
  BY <1>1, <1>3, <1>4
<1>10. /\ o \in Seq(S) /\ Len(o) = (m + 1) - (k + 1) + 1
       /\ \A i \in 1 .. (m + 1) - (k + 1) + 1 : o[i] = c[k + 1 + i - 1]
  <2>1. k + 1 \in Int /\ m + 1 \in Int /\ k + 1 <= m + 1
    BY <1>7
  <2>2. PICK a \in Int : a = k + 1
    BY <2>1
  <2>3. PICK b \in Int : b = m + 1
    BY <2>1
  <2>4. \A i \in a .. b : c[i] \in S
    BY <1>8, <2>2, <2>3
  <2>5. /\ SubSeq(c, a, b) \in Seq(S)
        /\ Len(SubSeq(c, a, b)) = IF a <= b THEN b - a + 1 ELSE 0
        /\ \A i \in 1 .. b - a + 1 : SubSeq(c, a, b)[i] = c[a + i - 1]
    BY <2>4, SubSeqProperties
  <2> QED
    BY <1>9, <2>1, <2>2, <2>3, <2>5
<1>11. Len(o) = m + 1 - k /\ Len(o) \in Nat \ {0} /\ DOMAIN o = 1 .. m + 1 - k
  BY <1>7, <1>10
<1>12. ASSUME NEW i \in 1 .. m + 1 - k
       PROVE  /\ k + i \in 1 .. m + 1 /\ o[i] = c[k + i]
              /\ o[i].sequence = k + i - 1 /\ o[i].total = Len(data)
              /\ o[i].end <=> k + i = m + 1
              /\ o[i].data = IF k + i <= m THEN P[k + i] ELSE <<>>
  <2>1. i \in 1 .. (m + 1) - (k + 1) + 1 /\ k + 1 + i - 1 = k + i /\ k + i \in 1 .. m + 1
    BY <1>7
  <2>2. o[i] = c[k + i]
    BY <1>10, <2>1
  <2>3. k + i > m <=> k + i = m + 1
    BY <2>1
  <2>4. PICK j \in 1 .. m + 1 : j = k + i
    BY <2>1
  <2>5. c[j] = [type |-> "blob chunk", sequence |-> j - 1, total |-> Len(data),
                data |-> IF j <= m THEN P[j] ELSE <<>>, end |-> j > m]
    BY <1>5
  <2>6. /\ c[j].sequence = j - 1 /\ c[j].total = Len(data)
        /\ c[j].data = (IF j <= m THEN P[j] ELSE <<>>)
        /\ c[j].end = (j > m)
    <3>1. PICK e : e = (j > m)
      BY Zenon
    <3>2. e \in BOOLEAN
      BY <3>1
    <3>3. PICK q, l, d : q = j - 1 /\ l = Len(data) /\ d = (IF j <= m THEN P[j] ELSE <<>>)
      OBVIOUS
    <3>4. PICK x : x = c[j]
      OBVIOUS
    <3>5. x = [type |-> "blob chunk", sequence |-> q, total |-> l, data |-> d, end |-> e]
      BY <2>5, <3>1, <3>3, <3>4, Zenon
    <3>6. x.sequence = q /\ x.total = l /\ x.data = d /\ x.end = e
      BY <3>5, Zenon
    <3> QED
      BY <3>1, <3>3, <3>4, <3>6, Zenon
  <2>7. c[j].end <=> j > m
    BY <2>6, Zenon
  <2>8. j = m + 1 <=> j > m
    OBVIOUS
  <2>9. c[j].end <=> j = m + 1
    BY <2>7, <2>8, Zenon
  <2>10. /\ o[i].sequence = k + i - 1 /\ o[i].total = Len(data)
         /\ o[i].data = IF k + i <= m THEN P[k + i] ELSE <<>>
    <3>1. /\ c[j].sequence = j - 1 /\ c[j].total = Len(data)
          /\ c[j].data = (IF j <= m THEN P[j] ELSE <<>>)
      BY <2>6
    <3>2. o[i] = c[j]
      BY <2>2, <2>4
    <3>3. /\ o[i].sequence = j - 1 /\ o[i].total = Len(data)
          /\ o[i].data = (IF j <= m THEN P[j] ELSE <<>>)
      BY <3>1, <3>2, Zenon
    <3>4. j - 1 = k + i - 1
      BY <2>4
    <3>5. (IF j <= m THEN P[j] ELSE <<>>) = (IF k + i <= m THEN P[k + i] ELSE <<>>)
      BY <2>4
    <3> QED
      BY <3>3, <3>4, <3>5, Zenon
  <2>11. o[i].end <=> k + i = m + 1
    BY <2>2, <2>4, <2>9, Zenon
  <2> QED
    BY <2>1, <2>2, <2>10, <2>11, Zenon
<1>13. EndsOnce(o)
  <2>1. o # <<>>
    BY <1>11, EmptySeq
  <2>2. ASSUME NEW i \in DOMAIN o PROVE o[i].end <=> i = Len(o)
    <3>1. i \in 1 .. m + 1 - k /\ (k + i = m + 1 <=> i = m + 1 - k)
      BY <1>7, <1>11
    <3> QED
      BY <1>11, <1>12, <3>1
  <2> QED
    BY <2>1, <2>2 DEF EndsOnce
<1>14. ASSUME NEW i \in DOMAIN o
       PROVE  /\ o[i].sequence = o[1].sequence + i - 1
              /\ o[i].total = Len(data)
              /\ o[i].end <=> o[i].data = <<>>
  <2>1. i \in 1 .. m + 1 - k /\ 1 \in 1 .. m + 1 - k
    BY <1>7, <1>11
  <2>2. o[i].sequence = k + i - 1 /\ o[1].sequence = k + 1 - 1
    BY <1>12, <2>1
  <2>3. o[i].sequence = o[1].sequence + i - 1
    BY <1>7, <2>1, <2>2
  <2>4. CASE k + i = m + 1
    <3>1. ~(k + i <= m)
      BY <1>7, <2>1, <2>4
    <3> QED
      BY <1>12, <2>1, <2>3, <2>4, <3>1
  <2>5. CASE k + i # m + 1
    <3>1. k + i <= m /\ k + i \in 1 .. Len(P)
      BY <1>3, <1>7, <2>1, <2>5
    <3> QED
      BY <1>2, <1>12, <2>1, <2>3, <2>5, <3>1
  <2> QED
    BY <2>4, <2>5
<1>15. ASSUME o[1].sequence = 0
       PROVE  FlattenSeq([i \in DOMAIN o |-> o[i].data]) = data
  <2>1. k = 0
    <3>1. 1 \in 1 .. m + 1 - k
      BY <1>7
    <3>2. o[1].sequence = k + 1 - 1
      BY <1>12, <3>1
    <3> QED
      BY <1>7, <1>15, <3>2
  <2>2. PICK d : d = [i \in DOMAIN o |-> o[i].data]
    OBVIOUS
  <2>3. PICK e : e = Append(P, <<>>)
    OBVIOUS
  <2>4. /\ e \in Seq(Seq(Nat)) /\ Len(e) = m + 1 /\ e[m + 1] = <<>>
        /\ \A i \in 1 .. m : e[i] = P[i]
    <3>1. <<>> \in Seq(Nat)
      BY EmptySeq
    <3> QED
      BY <1>3, <2>3, <3>1, AppendProperties
  <2>5. DOMAIN d = 1 .. m + 1 /\ DOMAIN e = 1 .. m + 1
    BY <1>11, <2>1, <2>2, <2>4
  <2>6. ASSUME NEW i \in 1 .. m + 1 PROVE d[i] = e[i]
    <3>1. i \in DOMAIN o /\ i \in 1 .. m + 1 - k /\ k + i = i
      BY <1>11, <2>1
    <3>2. d[i] = IF i <= m THEN P[i] ELSE <<>>
      BY <1>12, <2>2, <3>1
    <3>3. i <= m => i \in 1 .. m
      OBVIOUS
    <3>4. ~(i <= m) => i = m + 1
      OBVIOUS
    <3> QED
      BY <2>4, <3>2, <3>3, <3>4
  <2>7. d = e
    <3>1. d = [i \in 1 .. m + 1 |-> d[i]]
      BY <2>2, <2>5
    <3>2. e = [i \in 1 .. m + 1 |-> e[i]]
      BY <2>4
    <3> QED
      BY <2>6, <3>1, <3>2
  <2>8. FlattenSeq(e) = FlattenSeq(P) \o <<>>
    <3>1. <<>> \in Seq(Nat)
      BY EmptySeq
    <3> QED
      BY <2>3, <3>1, FlattenAppend
  <2>9. data \o <<>> = data
    BY ConcatEmptySeq
  <2> QED
    BY <1>2, <2>2, <2>7, <2>8, <2>9
<1> QED
  BY <1>1, <1>3, <1>11, <1>13, <1>14, <1>15 DEF BlobReassembles

(***************************************************************************)
(* What is put together from two lists of sequences.                       *)
(***************************************************************************)
LEMMA FlattenConcat ==
  ASSUME NEW X, NEW s \in Seq(Seq(X)), NEW t \in Seq(Seq(X))
  PROVE  FlattenSeq(s \o t) = FlattenSeq(s) \o FlattenSeq(t)
<1> DEFINE T == {u \in Seq(Seq(X)) : FlattenSeq(s \o u) = FlattenSeq(s) \o FlattenSeq(u)}
<1>1. FlattenSeq(s) \in Seq(X)
  <2>1. <<>> \in Seq(X)
    BY EmptySeq
  <2> QED
    BY <2>1, FlattenAppend
<1>2. <<>> \in T
  <2>1. <<>> \in Seq(Seq(X)) /\ s \o <<>> = s
    BY EmptySeq, ConcatEmptySeq
  <2>2. FlattenSeq(s) \o <<>> = FlattenSeq(s)
    BY <1>1, ConcatEmptySeq
  <2> QED
    BY <2>1, <2>2, FlattenEmpty
<1>3. ASSUME NEW u \in T, NEW x \in Seq(X) PROVE Append(u, x) \in T
  <2>1. PICK v : v = s \o u
    OBVIOUS
  <2>2. v \in Seq(Seq(X)) /\ Append(u, x) \in Seq(Seq(X))
    BY <2>1, AppendProperties
  <2>3. s \o Append(u, x) = Append(v, x)
    <3>1. Append(u, x) = u \o <<x>> /\ Append(v, x) = v \o <<x>>
      BY <2>2, AppendIsConcat
    <3>2. <<x>> \in Seq(Seq(X))
      OBVIOUS
    <3>3. s \o (u \o <<x>>) = (s \o u) \o <<x>>
      BY <3>2, ConcatAssociative
    <3> QED
      BY <2>1, <3>1, <3>3
  <2>4. /\ FlattenSeq(Append(v, x)) = FlattenSeq(v) \o x
        /\ FlattenSeq(Append(u, x)) = FlattenSeq(u) \o x /\ FlattenSeq(u) \in Seq(X)
    BY <2>2, FlattenAppend
  <2>5. FlattenSeq(v) = FlattenSeq(s) \o FlattenSeq(u)
    BY <2>1
  <2>6. (FlattenSeq(s) \o FlattenSeq(u)) \o x = FlattenSeq(s) \o (FlattenSeq(u) \o x)
    <3>1. PICK a \in Seq(X) : a = FlattenSeq(s)
      BY <1>1
    <3>2. PICK b \in Seq(X) : b = FlattenSeq(u)
      BY <2>4
    <3>3. (a \o b) \o x = a \o (b \o x)
      BY ConcatAssociative
    <3> QED
      BY <3>1, <3>2, <3>3
  <2>7. FlattenSeq(s \o Append(u, x)) = FlattenSeq(s) \o FlattenSeq(Append(u, x))
    BY <2>3, <2>4, <2>5, <2>6
  <2> QED
    BY <2>2, <2>7
<1>4. T = Seq(Seq(X))
  <2> HIDE DEF T
  <2>1. T \in SUBSET Seq(Seq(X))
    BY DEF T
  <2> QED
    BY <1>2, <1>3, <2>1, SequenceInduction
<1> QED
  BY <1>4

(***************************************************************************)
(* The elements of two sequences, ...                                      *)
(***************************************************************************)
LEMMA ConcatElements ==
  ASSUME NEW X, NEW f \in Seq(X), NEW h \in Seq(X), NEW g, g = f \o h, NEW x
  PROVE  x \in Elements(g) <=> x \in Elements(f) \/ x \in Elements(h)
<1>1. /\ g \in Seq(X) /\ Len(g) = Len(f) + Len(h)
      /\ \A i \in 1 .. Len(f) : g[i] = f[i]
      /\ \A i \in 1 .. Len(h) : g[Len(f) + i] = h[i]
  BY Joint
<1>2. ASSUME NEW i \in 1 .. Len(g) PROVE i \in 1 .. Len(f) \/ \E j \in 1 .. Len(h) : i = Len(f) + j
  <2>1. CASE i > Len(f)
    <3>1. i - Len(f) \in 1 .. Len(h) /\ i = Len(f) + (i - Len(f))
      BY <1>1, <2>1
    <3> QED
      BY <3>1
  <2> QED
    BY <2>1
<1>3. \A i \in 1 .. Len(f) : i \in 1 .. Len(g)
  BY <1>1
<1>4. \A i \in 1 .. Len(h) : Len(f) + i \in 1 .. Len(g)
  BY <1>1
<1>5. DOMAIN g = 1 .. Len(g) /\ DOMAIN f = 1 .. Len(f) /\ DOMAIN h = 1 .. Len(h)
  BY <1>1
<1>6. ASSUME x \in Elements(g) PROVE x \in Elements(f) \/ x \in Elements(h)
  <2>1. PICK i \in 1 .. Len(g) : g[i] = x
    BY <1>5, <1>6 DEF Elements
  <2>2. CASE i \in 1 .. Len(f)
    BY <1>1, <1>5, <2>1, <2>2 DEF Elements
  <2>3. CASE \E j \in 1 .. Len(h) : i = Len(f) + j
    BY <1>1, <1>5, <2>1, <2>3 DEF Elements
  <2> QED
    BY <1>2, <2>2, <2>3
<1>7. ASSUME x \in Elements(f) PROVE x \in Elements(g)
  <2>1. PICK i \in 1 .. Len(f) : f[i] = x
    BY <1>5, <1>7 DEF Elements
  <2> QED
    BY <1>1, <1>3, <1>5, <2>1 DEF Elements
<1>8. ASSUME x \in Elements(h) PROVE x \in Elements(g)
  <2>1. PICK i \in 1 .. Len(h) : h[i] = x
    BY <1>5, <1>8 DEF Elements
  <2>2. Len(f) + i \in DOMAIN g /\ g[Len(f) + i] = x
    BY <1>1, <1>4, <1>5, <2>1
  <2> QED
    BY <2>2 DEF Elements
<1> QED
  BY <1>6, <1>7, <1>8

(***************************************************************************)
(* ... and of a list of them.                                              *)
(***************************************************************************)
LEMMA FlattenElements ==
  ASSUME NEW X, NEW s \in Seq(Seq(X)), NEW x
  PROVE  x \in Elements(FlattenSeq(s)) <=> \E i \in DOMAIN s : x \in Elements(s[i])
<1> DEFINE T == {u \in Seq(Seq(X)) :
                   x \in Elements(FlattenSeq(u)) <=> \E i \in DOMAIN u : x \in Elements(u[i])}
<1>1. <<>> \in T
  BY EmptySeq, FlattenEmpty DEF Elements
<1>2. ASSUME NEW u \in T, NEW y \in Seq(X) PROVE Append(u, y) \in T
  <2>1. PICK v : v = Append(u, y)
    OBVIOUS
  <2>2. /\ v \in Seq(Seq(X)) /\ DOMAIN v = 1 .. Len(u) + 1 /\ DOMAIN u = 1 .. Len(u)
        /\ v[Len(u) + 1] = y /\ \A i \in 1 .. Len(u) : v[i] = u[i]
    BY <2>1, AppendProperties
  <2>3. PICK f \in Seq(X) : f = FlattenSeq(u) /\ FlattenSeq(v) = f \o y
    BY <2>1, FlattenAppend
  <2>4. PICK g : g = f \o y
    OBVIOUS
  <2>5. x \in Elements(g) <=> x \in Elements(f) \/ x \in Elements(y)
    BY <2>4, ConcatElements
  <2>6. x \in Elements(f) <=> \E i \in DOMAIN u : x \in Elements(u[i])
    BY <2>3
  <2>7. (\E i \in DOMAIN v : x \in Elements(v[i]))
        <=> (\E i \in DOMAIN u : x \in Elements(u[i])) \/ x \in Elements(y)
    <3>1. \A i \in DOMAIN v : i \in DOMAIN u \/ i = Len(u) + 1
      BY <2>2
    <3>2. Len(u) + 1 \in DOMAIN v /\ \A i \in DOMAIN u : i \in DOMAIN v
      BY <2>2
    <3> QED
      BY <2>2, <3>1, <3>2
  <2> QED
    BY <2>1, <2>2, <2>3, <2>4, <2>5, <2>6, <2>7
<1>3. T = Seq(Seq(X))
  <2> HIDE DEF T
  <2>1. T \in SUBSET Seq(Seq(X))
    BY DEF T
  <2> QED
    BY <1>1, <1>2, <2>1, SequenceInduction
<1> QED
  BY <1>3

-----------------------------------------------------------------------------
(* Announcements.                                                          *)

(***************************************************************************)
(* Announcements, those of pieces of files with what they are.             *)
(***************************************************************************)
Announced(A) == \A a \in A : a.type = "asset_chunk" => a.data.data \in Seq(Nat)

(***************************************************************************)
(* What two sequences of announcements have of a file.                     *)
(***************************************************************************)
LEMMA DataOfConcat ==
  ASSUME NEW A, Announced(A), NEW s \in Seq(A), NEW t \in Seq(A), NEW n
  PROVE  /\ DataOf(s, n) \in Seq(Seq(Nat)) /\ Len(DataOf(s, n)) = Len(s)
         /\ DataOf(s \o t, n) = DataOf(s, n) \o DataOf(t, n)
         /\ \A i \in 1 .. Len(s) : i \in ChunksOf(s \o t, n) <=> i \in ChunksOf(s, n)
         /\ \A i \in 1 .. Len(t) : Len(s) + i \in ChunksOf(s \o t, n) <=> i \in ChunksOf(t, n)
<1>1. ASSUME NEW u \in Seq(A)
      PROVE  DataOf(u, n) \in Seq(Seq(Nat)) /\ Len(DataOf(u, n)) = Len(u)
  <2>1. PICK d : d = DataOf(u, n)
    OBVIOUS
  <2>2. /\ DOMAIN u = 1 .. Len(u)
        /\ d = [i \in 1 .. Len(u) |-> IF i \in ChunksOf(u, n) THEN u[i].data.data ELSE <<>>]
    BY <2>1 DEF DataOf
  <2>3. ASSUME NEW i \in 1 .. Len(u) PROVE d[i] \in Seq(Nat)
    <3>1. CASE i \in ChunksOf(u, n)
      <4>1. u[i] \in A /\ u[i].type = "asset_chunk"
        BY <3>1 DEF ChunksOf
      <4> QED
        BY <2>2, <3>1, <4>1 DEF Announced
    <3>2. CASE i \notin ChunksOf(u, n)
      BY <2>2, <3>2, EmptySeq
    <3> QED
      BY <3>1, <3>2
  <2>4. d \in [1 .. Len(u) -> Seq(Nat)]
    BY <2>2, <2>3
  <2> QED
    BY <2>1, <2>4
<1>2. PICK u : u = s \o t
  OBVIOUS
<1>3. PICK l \in Nat : l = Len(s)
  OBVIOUS
<1>4. PICK m \in Nat : m = Len(t)
  OBVIOUS
<1>5. /\ u \in Seq(A) /\ Len(u) = l + m
      /\ \A i \in 1 .. l : u[i] = s[i]
      /\ \A i \in 1 .. m : u[l + i] = t[i]
  BY <1>2, <1>3, <1>4, Joint
<1>6. DOMAIN u = 1 .. l + m /\ DOMAIN s = 1 .. l /\ DOMAIN t = 1 .. m
  BY <1>3, <1>4, <1>5
<1>7. ASSUME NEW i \in 1 .. l PROVE i \in ChunksOf(u, n) <=> i \in ChunksOf(s, n)
  <2>1. i \in DOMAIN u /\ i \in DOMAIN s /\ u[i] = s[i]
    BY <1>5, <1>6
  <2> QED
    BY <2>1 DEF ChunksOf
<1>8. ASSUME NEW i \in 1 .. m PROVE l + i \in ChunksOf(u, n) <=> i \in ChunksOf(t, n)
  <2>1. l + i \in DOMAIN u /\ i \in DOMAIN t /\ u[l + i] = t[i]
    BY <1>5, <1>6
  <2> QED
    BY <2>1 DEF ChunksOf
<1>9. PICK d \in Seq(Seq(Nat)) : d = DataOf(u, n) /\ Len(d) = l + m
  BY <1>1, <1>5
<1>10. PICK x \in Seq(Seq(Nat)) : x = DataOf(s, n) /\ Len(x) = l
  BY <1>1, <1>3
<1>11. PICK y \in Seq(Seq(Nat)) : y = DataOf(t, n) /\ Len(y) = m
  BY <1>1, <1>4
<1>12. d = x \o y
  <2>1. PICK z : z = x \o y
    OBVIOUS
  <2>2. /\ z \in Seq(Seq(Nat)) /\ Len(z) = l + m
        /\ \A i \in 1 .. l : z[i] = x[i]
        /\ \A i \in 1 .. m : z[l + i] = y[i]
    <3>1. /\ z \in Seq(Seq(Nat)) /\ Len(z) = Len(x) + Len(y)
          /\ \A i \in 1 .. Len(x) : z[i] = x[i]
          /\ \A i \in 1 .. Len(y) : z[Len(x) + i] = y[i]
      BY <2>1, Joint
    <3> QED
      BY <1>10, <1>11, <3>1
  <2>3. ASSUME NEW i \in 1 .. l PROVE d[i] = z[i]
    <3>1. d[i] = IF i \in ChunksOf(u, n) THEN u[i].data.data ELSE <<>>
      BY <1>6, <1>9 DEF DataOf
    <3>2. x[i] = IF i \in ChunksOf(s, n) THEN s[i].data.data ELSE <<>>
      BY <1>6, <1>10 DEF DataOf
    <3> QED
      BY <1>5, <1>7, <2>2, <3>1, <3>2
  <2>4. ASSUME NEW i \in 1 .. m PROVE d[l + i] = z[l + i]
    <3>1. d[l + i] = IF l + i \in ChunksOf(u, n) THEN u[l + i].data.data ELSE <<>>
      <4>1. l + i \in DOMAIN u
        BY <1>6
      <4> QED
        BY <1>9, <4>1 DEF DataOf
    <3>2. y[i] = IF i \in ChunksOf(t, n) THEN t[i].data.data ELSE <<>>
      BY <1>6, <1>11 DEF DataOf
    <3> QED
      BY <1>5, <1>8, <2>2, <3>1, <3>2
  <2>5. ASSUME NEW i \in 1 .. l + m PROVE d[i] = z[i]
    <3>1. CASE i > l
      <4>1. i - l \in 1 .. m /\ i = l + (i - l)
        BY <3>1
      <4>2. PICK j \in 1 .. m : i = l + j
        BY <4>1
      <4> QED
        BY <2>4, <4>2
    <3> QED
      BY <2>3, <3>1
  <2>6. d = z
    BY <1>9, <2>2, <2>5, SameElements
  <2> QED
    BY <2>1, <2>6
<1> QED
  BY <1>1, <1>2, <1>3, <1>4, <1>7, <1>8, <1>9, <1>10, <1>11, <1>12

(***************************************************************************)
(* Nothing, put together from nothing.                                     *)
(***************************************************************************)
LEMMA NothingOf ==
  ASSUME NEW s \in Seq(Seq(Nat)), \A i \in 1 .. Len(s) : s[i] = <<>>
  PROVE  FlattenSeq(s) = <<>>
<1> DEFINE T == {u \in Seq(Seq(Nat)) : (\A i \in 1 .. Len(u) : u[i] = <<>>) => FlattenSeq(u) = <<>>}
<1>1. <<>> \in T
  BY EmptySeq, FlattenEmpty
<1>2. ASSUME NEW u \in T, NEW x \in Seq(Nat) PROVE Append(u, x) \in T
  <2>1. PICK v : v = Append(u, x)
    OBVIOUS
  <2>2. /\ v \in Seq(Seq(Nat)) /\ Len(v) = Len(u) + 1 /\ v[Len(u) + 1] = x
        /\ \A i \in 1 .. Len(u) : v[i] = u[i]
    BY <2>1, AppendProperties
  <2>3. SUFFICES ASSUME \A i \in 1 .. Len(v) : v[i] = <<>> PROVE FlattenSeq(v) = <<>>
    BY <2>1, <2>2
  <2>4. Len(u) + 1 \in 1 .. Len(v) /\ \A i \in 1 .. Len(u) : i \in 1 .. Len(v)
    BY <2>2
  <2>5. x = <<>> /\ FlattenSeq(u) = <<>>
    BY <2>2, <2>3, <2>4
  <2>6. FlattenSeq(v) = <<>> \o <<>>
    BY <2>1, <2>5, FlattenAppend
  <2>7. <<>> \in Seq(Nat)
    BY EmptySeq
  <2> QED
    BY <2>6, <2>7, ConcatEmptySeq
<1>3. T = Seq(Seq(Nat))
  <2> HIDE DEF T
  <2>1. T \in SUBSET Seq(Seq(Nat))
    BY DEF T
  <2> QED
    BY <1>1, <1>2, <2>1, SequenceInduction
<1> QED
  BY <1>3

(***************************************************************************)
(* No chunk of the file is among the announcements, ...                    *)
(***************************************************************************)
Absent(s, file) == ChunksOf(s, file.name) = {}

(***************************************************************************)
(* ... and so no data.                                                     *)
(***************************************************************************)
LEMMA AbsentIsNothing ==
  ASSUME NEW A, Announced(A), NEW s \in Seq(A), NEW file, Absent(s, file)
  PROVE  FlattenSeq(DataOf(s, file.name)) = <<>>
<1>1. PICK d \in Seq(Seq(Nat)) : d = DataOf(s, file.name) /\ Len(d) = Len(s)
  BY DataOfConcat
<1>2. \A i \in 1 .. Len(d) : d[i] = <<>>
  BY <1>1 DEF DataOf, Absent
<1> QED
  BY <1>1, <1>2, NothingOf

(***************************************************************************)
(* Announcements beside those of a file do not disturb it.                 *)
(***************************************************************************)
LEMMA Beside ==
  ASSUME NEW A, Announced(A), NEW s \in Seq(A), NEW t \in Seq(A), NEW file,
         file.data \in Seq(Nat)
  PROVE  /\ Absent(s, file) /\ Absent(t, file) => Absent(s \o t, file)
         /\ Absent(s, file) /\ FileReassembles(t, file) => FileReassembles(s \o t, file)
         /\ FileReassembles(s, file) /\ Absent(t, file) => FileReassembles(s \o t, file)
<1>1. PICK n : n = file.name
  OBVIOUS
<1>2. PICK u : u = s \o t
  OBVIOUS
<1>3. PICK l \in Nat : l = Len(s)
  OBVIOUS
<1>4. PICK m \in Nat : m = Len(t)
  OBVIOUS
<1>5. /\ u \in Seq(A) /\ Len(u) = l + m
      /\ \A i \in 1 .. l : u[i] = s[i]
      /\ \A i \in 1 .. m : u[l + i] = t[i]
  BY <1>2, <1>3, <1>4, Joint
<1>6. DOMAIN u = 1 .. l + m /\ DOMAIN s = 1 .. l /\ DOMAIN t = 1 .. m
  BY <1>3, <1>4, <1>5
<1>7. /\ \A i \in 1 .. l : i \in ChunksOf(u, n) <=> i \in ChunksOf(s, n)
      /\ \A i \in 1 .. m : l + i \in ChunksOf(u, n) <=> i \in ChunksOf(t, n)
  BY <1>2, <1>3, <1>4, DataOfConcat
<1>8. FlattenSeq(DataOf(u, n)) = FlattenSeq(DataOf(s, n)) \o FlattenSeq(DataOf(t, n))
  <2>1. PICK x \in Seq(Seq(Nat)) : x = DataOf(s, n)
    BY DataOfConcat
  <2>2. PICK y \in Seq(Seq(Nat)) : y = DataOf(t, n)
    BY DataOfConcat
  <2>3. DataOf(u, n) = x \o y
    <3>1. DataOf(s \o t, n) = DataOf(s, n) \o DataOf(t, n)
      BY DataOfConcat
    <3> QED
      BY <1>2, <2>1, <2>2, <3>1
  <2> QED
    BY <2>1, <2>2, <2>3, FlattenConcat
<1>9. \A i \in 1 .. l + m : i \in 1 .. l \/ \E j \in 1 .. m : i = l + j
  <2>1. ASSUME NEW i \in 1 .. l + m, i > l PROVE \E j \in 1 .. m : i = l + j
    <3>1. i - l \in 1 .. m /\ i = l + (i - l)
      BY <2>1
    <3> QED
      BY <3>1
  <2> QED
    BY <2>1
<1>10. /\ ChunksOf(u, n) \subseteq 1 .. l + m
       /\ ChunksOf(s, n) \subseteq 1 .. l /\ ChunksOf(t, n) \subseteq 1 .. m
  <2>1. ASSUME NEW v PROVE ChunksOf(v, n) \subseteq DOMAIN v
    BY DEF ChunksOf
  <2> QED
    BY <1>6, <2>1
<1>11. ASSUME Absent(s, file), Absent(t, file)
       PROVE  Absent(u, file)
  <2>1. ASSUME NEW i \in ChunksOf(u, n) PROVE FALSE
    <3>1. ChunksOf(s, n) = {} /\ ChunksOf(t, n) = {}
      BY <1>1, <1>11 DEF Absent
    <3>2. i \in 1 .. l + m
      BY <1>10
    <3> QED
      BY <1>7, <1>9, <3>1, <3>2
  <2> QED
    BY <1>1, <2>1 DEF Absent
<1>12. ASSUME Absent(s, file), FileReassembles(t, file)
       PROVE  FileReassembles(u, file)
  <2>1. ASSUME NEW i \in ChunksOf(u, n) PROVE \E j \in ChunksOf(t, n) : i = l + j
    <3>1. i \in 1 .. l + m /\ i \notin 1 .. l
      BY <1>1, <1>7, <1>10, <1>12 DEF Absent
    <3> QED
      BY <1>7, <1>9, <3>1
  <2>2. ASSUME NEW j \in ChunksOf(t, n) PROVE l + j \in ChunksOf(u, n)
    BY <1>7, <1>10
  <2>3. FlattenSeq(DataOf(u, n)) = file.data
    <3>1. FlattenSeq(DataOf(s, n)) = <<>> /\ FlattenSeq(DataOf(t, n)) = file.data
      BY <1>1, <1>12, AbsentIsNothing DEF FileReassembles
    <3>2. <<>> \o file.data = file.data
      BY ConcatEmptySeq
    <3> QED
      BY <1>8, <3>1, <3>2
  <2>4. ASSUME NEW i \in ChunksOf(u, n)
        PROVE  u[i].data.end <=> \A j \in ChunksOf(u, n) : j <= i
    <3>1. PICK k \in ChunksOf(t, n) : i = l + k
      BY <2>1
    <3>2. k \in 1 .. m /\ u[i] = t[k]
      BY <1>5, <1>10, <3>1
    <3>3. t[k].data.end <=> \A j \in ChunksOf(t, n) : j <= k
      BY <1>1, <1>12 DEF FileReassembles
    <3>4. (\A j \in ChunksOf(t, n) : j <= k) <=> \A j \in ChunksOf(u, n) : j <= i
      <4>1. ASSUME \A j \in ChunksOf(t, n) : j <= k, NEW j \in ChunksOf(u, n) PROVE j <= i
        <5>1. PICK h \in ChunksOf(t, n) : j = l + h
          BY <2>1
        <5>2. h \in 1 .. m /\ h <= k
          BY <1>10, <4>1
        <5> QED
          BY <3>1, <3>2, <5>1, <5>2
      <4>2. ASSUME \A j \in ChunksOf(u, n) : j <= i, NEW j \in ChunksOf(t, n) PROVE j <= k
        <5>1. l + j <= i /\ j \in 1 .. m
          BY <1>10, <2>2, <4>2
        <5> QED
          BY <3>1, <3>2, <5>1
      <4> QED
        BY <4>1, <4>2
    <3> QED
      BY <3>2, <3>3, <3>4, Zenon
  <2> QED
    BY <1>1, <2>3, <2>4 DEF FileReassembles
<1>13. ASSUME FileReassembles(s, file), Absent(t, file)
       PROVE  FileReassembles(u, file)
  <2>1. ASSUME NEW i \in ChunksOf(u, n) PROVE i \in ChunksOf(s, n)
    BY <1>1, <1>7, <1>9, <1>10, <1>13 DEF Absent
  <2>2. ASSUME NEW i \in ChunksOf(s, n) PROVE i \in ChunksOf(u, n)
    BY <1>7, <1>10
  <2>3. FlattenSeq(DataOf(u, n)) = file.data
    <3>1. FlattenSeq(DataOf(t, n)) = <<>> /\ FlattenSeq(DataOf(s, n)) = file.data
      BY <1>1, <1>13, AbsentIsNothing DEF FileReassembles
    <3>2. file.data \o <<>> = file.data
      BY ConcatEmptySeq
    <3> QED
      BY <1>8, <3>1, <3>2
  <2>4. ASSUME NEW i \in ChunksOf(u, n)
        PROVE  u[i].data.end <=> \A j \in ChunksOf(u, n) : j <= i
    <3>1. i \in ChunksOf(s, n) /\ i \in 1 .. l /\ u[i] = s[i]
      BY <1>5, <1>10, <2>1
    <3>2. s[i].data.end <=> \A j \in ChunksOf(s, n) : j <= i
      BY <1>1, <1>13, <3>1 DEF FileReassembles
    <3> QED
      BY <2>1, <2>2, <3>1, <3>2, Zenon
  <2> QED
    BY <1>1, <2>3, <2>4 DEF FileReassembles
<1> QED
  BY <1>2, <1>11, <1>12, <1>13

(***************************************************************************)
(* The files, and the announcements of their pieces, ...                   *)
(***************************************************************************)
Files == [name : STRING, data : Seq(Nat)]
Chunks == [type : {"asset_chunk"}, data : [filename : STRING, data : Seq(Nat), end : BOOLEAN]]

(***************************************************************************)
(* ... which are told from the others.                                     *)
(***************************************************************************)
LEMMA ChunksAnnounced ==
  ASSUME NEW O, \A a \in O : a.type # "asset_chunk"
  PROVE  Announced(O \cup Chunks) /\ Announced(Chunks)
BY DEF Announced, Chunks

(***************************************************************************)
(* One file, ...                                                           *)
(***************************************************************************)
LEMMA OneFile ==
  ASSUME NEW file \in Files
  PROVE  /\ AssetChunks(file) \in Seq(Chunks) /\ FileReassembles(AssetChunks(file), file)
         /\ \A f : f.name # file.name => Absent(AssetChunks(file), f)
<1>1. PICK P \in Seq(Seq(Nat)) : P = Pieces(file.data)
  BY Piecewise DEF Files
<1>2. PICK m \in Nat : m = Len(P)
  OBVIOUS
<1>3. /\ FlattenSeq(P) = file.data
      /\ \A i \in 1 .. m : i * ChunkSize >= Len(file.data) <=> i = m
  BY <1>1, <1>2, Piecewise DEF Files
<1>4. PICK s : s = AssetChunks(file)
  OBVIOUS
<1>5. DOMAIN P = 1 .. m
  BY <1>2
<1>6. s = [i \in 1 .. m |-> AssetChunk(file.name, P[i], i * ChunkSize >= Len(file.data))]
  BY <1>1, <1>4, <1>5 DEF AssetChunks
<1>7. ASSUME NEW i \in 1 .. m
      PROVE  /\ s[i] \in Chunks /\ s[i].type = "asset_chunk" /\ s[i].data.filename = file.name
             /\ s[i].data.data = P[i]
             /\ s[i].data.end <=> i = m
  <2>1. PICK e \in BOOLEAN : e = (i * ChunkSize >= Len(file.data))
    <3>1. PICK e : e = (i * ChunkSize >= Len(file.data))
      BY Zenon
    <3>2. e \in BOOLEAN
      BY <3>1
    <3> QED
      BY <3>1, <3>2, Zenon
  <2>2. s[i] = AssetChunk(file.name, P[i], e)
    BY <1>6, <2>1, Zenon
  <2>3. P[i] \in Seq(Nat) /\ file.name \in STRING
    BY <1>5 DEF Files
  <2>4. /\ s[i] \in Chunks /\ s[i].type = "asset_chunk" /\ s[i].data.filename = file.name
        /\ s[i].data.data = P[i] /\ s[i].data.end = e
    BY <2>2, <2>3 DEF AssetChunk, Announcement, Chunks
  <2>5. e <=> i = m
    BY <1>3, <2>1, Zenon
  <2> QED
    BY <2>4, <2>5, Zenon
<1>8. s \in Seq(Chunks) /\ Len(s) = m /\ DOMAIN s = 1 .. m
  <2>1. s \in [1 .. m -> Chunks]
    BY <1>6, <1>7
  <2> QED
    BY <2>1
<1>9. ChunksOf(s, file.name) = 1 .. m
  BY <1>7, <1>8 DEF ChunksOf
<1>10. FileReassembles(s, file)
  <2>1. DataOf(s, file.name) = P
    <3>1. PICK d : d = DataOf(s, file.name)
      OBVIOUS
    <3>2. d = [i \in 1 .. m |-> IF i \in 1 .. m THEN s[i].data.data ELSE <<>>]
      BY <1>8, <1>9, <3>1 DEF DataOf
    <3>3. \A i \in 1 .. m : d[i] = P[i]
      <4>1. \A i \in 1 .. m : s[i].data.data = P[i]
        BY <1>7
      <4> QED
        BY <3>2, <4>1
    <3>4. d = [i \in 1 .. m |-> d[i]] /\ P = [i \in 1 .. m |-> P[i]]
      BY <1>2, <3>2
    <3> QED
      BY <3>1, <3>3, <3>4
  <2>2. ASSUME NEW i \in ChunksOf(s, file.name)
        PROVE  s[i].data.end <=> \A j \in ChunksOf(s, file.name) : j <= i
    <3>1. i \in 1 .. m /\ (i = m <=> \A j \in 1 .. m : j <= i)
      BY <1>9
    <3> QED
      BY <1>7, <1>9, <3>1
  <2> QED
    BY <1>3, <2>1, <2>2 DEF FileReassembles
<1>11. ASSUME NEW f, f.name # file.name PROVE Absent(s, f)
  BY <1>7, <1>8, <1>11 DEF Absent, ChunksOf
<1> QED
  BY <1>4, <1>8, <1>10, <1>11

(***************************************************************************)
(* ... and all of them, ...                                                *)
(***************************************************************************)
ChunkLists(fs) == [i \in DOMAIN fs |-> AssetChunks(fs[i])]

(***************************************************************************)
(* ... each of which can be put together, if their names differ.           *)
(***************************************************************************)
AllOf(fs, s) ==
  /\ s \in Seq(Chunks)
  /\ \A file \in Files : (\A i \in DOMAIN fs : fs[i].name # file.name) => Absent(s, file)
  /\ (\A i, j \in DOMAIN fs : fs[i].name = fs[j].name => i = j) =>
       \A i \in DOMAIN fs : FileReassembles(s, fs[i])

(***************************************************************************)
(* By induction on the files.                                              *)
(***************************************************************************)
LEMMA AllFiles ==
  ASSUME NEW fs \in Seq(Files)
  PROVE  ChunkLists(fs) \in Seq(Seq(Chunks)) /\ AllOf(fs, FlattenSeq(ChunkLists(fs)))
<1>1. ASSUME NEW gs \in Seq(Files)
      PROVE  /\ ChunkLists(gs) \in Seq(Seq(Chunks)) /\ Len(ChunkLists(gs)) = Len(gs)
             /\ \A i \in 1 .. Len(gs) : ChunkLists(gs)[i] = AssetChunks(gs[i])
  <2>1. PICK s : s = ChunkLists(gs)
    OBVIOUS
  <2>2. s = [i \in 1 .. Len(gs) |-> AssetChunks(gs[i])]
    BY <2>1 DEF ChunkLists
  <2>3. \A i \in 1 .. Len(gs) : AssetChunks(gs[i]) \in Seq(Chunks)
    BY OneFile
  <2>4. s \in [1 .. Len(gs) -> Seq(Chunks)]
    BY <2>2, <2>3
  <2>5. s \in Seq(Seq(Chunks)) /\ Len(s) = Len(gs)
    BY <2>2, <2>4
  <2> QED
    BY <2>1, <2>2, <2>5
<1> DEFINE T == {gs \in Seq(Files) : AllOf(gs, FlattenSeq(ChunkLists(gs)))}
<1>2. <<>> \in T
  <2>1. ChunkLists(<<>>) = <<>>
    BY DEF ChunkLists
  <2>2. <<>> \in Seq(Files) /\ <<>> \in Seq(Chunks) /\ DOMAIN <<>> = {}
    BY EmptySeq
  <2>3. \A file \in Files : Absent(<<>>, file)
    BY <2>2 DEF Absent, ChunksOf
  <2> QED
    BY <2>1, <2>2, <2>3, FlattenEmpty DEF AllOf
<1>3. ASSUME NEW gs \in T, NEW g \in Files PROVE Append(gs, g) \in T
  <2>1. PICK hs : hs = Append(gs, g)
    OBVIOUS
  <2>2. PICK n \in Nat : n = Len(gs)
    OBVIOUS
  <2>3. /\ hs \in Seq(Files) /\ Len(hs) = n + 1 /\ hs[n + 1] = g
        /\ \A i \in 1 .. n : hs[i] = gs[i]
    BY <2>1, <2>2, AppendProperties
  <2>4. DOMAIN hs = 1 .. n + 1 /\ DOMAIN gs = 1 .. n
    BY <2>2, <2>3
  <2>5. PICK s \in Seq(Chunks) : s = FlattenSeq(ChunkLists(gs)) /\ AllOf(gs, s)
    BY DEF AllOf
  <2>6. PICK t \in Seq(Chunks) : t = AssetChunks(g) /\ FileReassembles(t, g)
                                 /\ \A f : f.name # g.name => Absent(t, f)
    BY OneFile
  <2>7. ChunkLists(hs) = Append(ChunkLists(gs), t)
    <3>1. PICK x \in Seq(Seq(Chunks)) : x = ChunkLists(hs) /\ Len(x) = n + 1
      BY <1>1, <2>3
    <3>2. PICK y \in Seq(Seq(Chunks)) : y = ChunkLists(gs) /\ Len(y) = n
      BY <1>1, <2>2
    <3>3. PICK z : z = Append(y, t)
      OBVIOUS
    <3>4. /\ z \in Seq(Seq(Chunks)) /\ Len(z) = n + 1 /\ z[n + 1] = t
          /\ \A i \in 1 .. n : z[i] = y[i]
      BY <3>2, <3>3, AppendProperties
    <3>5. ASSUME NEW i \in 1 .. n + 1 PROVE x[i] = z[i]
      <4>1. x[i] = AssetChunks(hs[i])
        BY <1>1, <2>3, <3>1
      <4>2. CASE i = n + 1
        BY <2>3, <2>6, <3>4, <4>1, <4>2
      <4>3. CASE i \in 1 .. n
        <5>1. y[i] = AssetChunks(gs[i])
          BY <1>1, <2>2, <3>2, <4>3
        <5> QED
          BY <2>3, <3>4, <4>1, <4>3, <5>1
      <4> QED
        BY <4>2, <4>3
    <3>6. x = z
      BY <3>1, <3>4, <3>5, SameElements
    <3> QED
      BY <3>1, <3>2, <3>3, <3>6
  <2>8. FlattenSeq(ChunkLists(hs)) = s \o t
    <3>1. ChunkLists(gs) \in Seq(Seq(Chunks))
      BY <1>1
    <3> QED
      BY <2>5, <2>7, <3>1, FlattenAppend
  <2>9. Announced(Chunks)
    BY DEF Announced, Chunks
  <2>10. ASSUME NEW file \in Files, \A i \in DOMAIN hs : hs[i].name # file.name
         PROVE  Absent(s \o t, file)
    <3>1. \A i \in DOMAIN gs : i \in DOMAIN hs /\ hs[i] = gs[i]
      BY <2>3, <2>4
    <3>2. n + 1 \in DOMAIN hs
      BY <2>4
    <3>3. Absent(s, file) /\ Absent(t, file)
      BY <2>3, <2>5, <2>6, <2>10, <3>1, <3>2 DEF AllOf
    <3>4. file.data \in Seq(Nat)
      BY DEF Files
    <3> QED
      BY <2>9, <3>3, <3>4, Beside
  <2>11. ASSUME \A i, j \in DOMAIN hs : hs[i].name = hs[j].name => i = j,
                NEW i \in DOMAIN hs
         PROVE  FileReassembles(s \o t, hs[i])
    <3>1. \A j \in DOMAIN gs : j \in DOMAIN hs /\ hs[j] = gs[j] /\ j # n + 1
      BY <2>3, <2>4
    <3>2. n + 1 \in DOMAIN hs
      BY <2>4
    <3>3. hs[i] \in Files /\ hs[i].data \in Seq(Nat)
      <4>1. hs[i] \in Files
        BY <2>3, <2>4
      <4> QED
        BY <4>1 DEF Files
    <3>4. CASE i = n + 1
      <4>1. \A j \in DOMAIN gs : gs[j].name # g.name
        BY <2>3, <2>11, <3>1, <3>2
      <4>2. Absent(s, g) /\ hs[i] = g
        BY <2>3, <2>5, <3>4, <4>1 DEF AllOf
      <4> QED
        BY <2>6, <2>9, <3>3, <4>2, Beside
    <3>5. CASE i # n + 1
      <4>1. i \in DOMAIN gs /\ hs[i] = gs[i]
        BY <2>3, <2>4, <3>5
      <4>2. \A k, j \in DOMAIN gs : gs[k].name = gs[j].name => k = j
        BY <2>11, <3>1
      <4>3. FileReassembles(s, hs[i])
        BY <2>5, <4>1, <4>2 DEF AllOf
      <4>4. hs[i].name # g.name
        BY <2>3, <2>11, <3>2, <3>5
      <4>5. Absent(t, hs[i])
        BY <2>6, <4>4
      <4> QED
        BY <2>9, <3>3, <4>3, <4>5, Beside
    <3> QED
      BY <3>4, <3>5
  <2>12. s \o t \in Seq(Chunks)
    OBVIOUS
  <2>13. AllOf(hs, s \o t)
    BY <2>10, <2>11, <2>12 DEF AllOf
  <2> QED
    BY <2>1, <2>3, <2>8, <2>13
<1>4. T = Seq(Files)
  <2> HIDE DEF T
  <2>1. T \in SUBSET Seq(Files)
    BY DEF T
  <2> QED
    BY <1>2, <1>3, <2>1, SequenceInduction
<1> QED
  BY <1>1, <1>4

-----------------------------------------------------------------------------
(* What the daemon was told.                                               *)

(***************************************************************************)
(* The plugin is one of those there are, the files are its own, and the    *)
(* daemon was told of them and of what was read.                           *)
(***************************************************************************)
Told ==
  /\ plugin \in Plugins
  /\ stage \in {"connect", "serving"} => files = plugin.assets
  /\ stage = "serving" => announced = Announcements

(***************************************************************************)
(* The announcements are made of the configuration and the files alone.    *)
(***************************************************************************)
LEMMA AnnouncementsStay ==
  ASSUME UNCHANGED <<configuration, files>>
  PROVE  Announcements' = Announcements
<1>1. Declarations' = Declarations
  BY DEF Declarations
<1>2. AllChunks' = AllChunks
  BY DEF AllChunks
<1> QED
  BY <1>1, <1>2, Zenon DEF Announcements

(***************************************************************************)
(* Nothing has been loaded of the assets, or told, before.                 *)
(***************************************************************************)
LEMMA StillStarting ==
  ASSUME \/ LoadManifest \/ LoadProvider \/ LoadedKind
         \/ _resolve_tool_providers \/ _resolve_model_providers \/ _resolve_endpoints
         \/ _resolve_agent_providers \/ _resolve_datasource_providers
         \/ _resolve_trigger_providers \/ _resolve_plugin_cls
  PROVE  plugin' = plugin /\ stage' \notin {"connect", "serving"}
<1>0. CASE LoadManifest
  BY <1>0 DEF LoadManifest, Fail
<1>1. CASE LoadProvider
  BY <1>1 DEF LoadProvider, Fail
<1>2. CASE LoadedKind
  BY <1>2 DEF LoadedKind
<1>3. CASE _resolve_tool_providers
  BY <1>3 DEF _resolve_tool_providers, Resolving, Fail
<1>4. CASE _resolve_model_providers
  BY <1>4 DEF _resolve_model_providers, Resolving, Fail
<1>5. CASE _resolve_endpoints
  BY <1>5 DEF _resolve_endpoints, Resolving, Fail
<1>6. CASE _resolve_agent_providers
  BY <1>6 DEF _resolve_agent_providers, Resolving, Fail
<1>7. CASE _resolve_datasource_providers
  BY <1>7 DEF _resolve_datasource_providers, Resolving, Fail
<1>8. CASE _resolve_trigger_providers
  BY <1>8 DEF _resolve_trigger_providers, Resolving, Fail
<1>9. CASE _resolve_plugin_cls
  BY <1>9 DEF _resolve_plugin_cls
<1> QED
  BY <1>0, <1>1, <1>2, <1>3, <1>4, <1>5, <1>6, <1>7, <1>8, <1>9

(***************************************************************************)
(* This is an invariant.                                                   *)
(***************************************************************************)
LEMMA ToldAlways == Spec => []Told
<1>1. Init => Told
  BY DEF Init, RegistrationInit, Told
<1>2. ASSUME Told, [Next]_vars PROVE Told'
  <2>1. CASE UNCHANGED registrationVars
    <3>1. plugin' = plugin /\ stage' = stage /\ files' = files /\ announced' = announced
          /\ configuration' = configuration
      BY <2>1 DEF registrationVars
    <3>2. Announcements' = Announcements
      BY <3>1, AnnouncementsStay
    <3> QED
      BY <1>2, <3>1, <3>2 DEF Told
  <2>2. CASE _load_plugin_assets
    <3>1. plugin' = plugin /\ (stage' = "connect" => files' = plugin.assets)
          /\ stage' \in {"failed", "connect"}
      BY <2>2 DEF _load_plugin_assets, Fail
    <3> QED
      BY <1>2, <3>1 DEF Told
  <2>3. CASE _initialize_tcp_stream
    <3>1. Announcements' = Announcements
      BY <2>3, AnnouncementsStay DEF _initialize_tcp_stream
    <3>2. /\ plugin' = plugin /\ files' = files /\ announced' = Announcements
          /\ stage = "connect"
      BY <2>3 DEF _initialize_tcp_stream
    <3> QED
      BY <1>2, <3>1, <3>2 DEF Told
  <2>4. CASE Starting
    <3>1. CASE _load_plugin_assets \/ _initialize_tcp_stream
      BY <2>2, <2>3, <3>1
    <3>2. CASE ~(_load_plugin_assets \/ _initialize_tcp_stream)
      <4>1. plugin' = plugin /\ stage' \notin {"connect", "serving"}
        BY <2>4, <3>2, StillStarting DEF Starting
      <4> QED
        BY <1>2, <4>1 DEF Told
    <3> QED
      BY <3>1, <3>2
  <2>5. ASSUME NEW w \in Workers, Working(w) PROVE UNCHANGED registrationVars
    BY <2>5 DEF Working, Take, EnterContext, ExitContext, RunCode, StreamYields, StreamEnds,
         Answers, RaiseError, WriteMessage, Unwind, Finish
  <2>6. CASE UNCHANGED vars
    BY <2>1, <2>6 DEF vars
  <2> QED
    BY <1>2, <2>1, <2>4, <2>5, <2>6 DEF Next
<1> QED
  BY <1>1, <1>2, PTL DEF Spec

(***************************************************************************)
(* The files of a directory have different names.                          *)
(***************************************************************************)
TheFiles ==
  /\ files \in Seq(Files)
  /\ \A i, j \in DOMAIN files : files[i].name = files[j].name => i = j

(***************************************************************************)
(* The announcements: the manifest, a declaration of each kind that there  *)
(* is, the chunks, and the end. Only the chunks are of files.              *)
(***************************************************************************)
LEMMA Parts ==
  ASSUME Told, stage = "serving"
  PROVE  /\ TheFiles
         /\ \E O : \E m, d, e \in Seq(O) : \E c \in Seq(Chunks) :
              /\ \A a \in O : a.type # "asset_chunk"
              /\ AllOf(files, c) /\ announced = m \o d \o c \o e
              /\ m = <<Announcement("manifest", <<>>)>> /\ e = <<Announcement("end", <<>>)>>
              /\ \A a : a \in Elements(d) <=>
                   \E n \in 1 .. 6 : /\ configuration[Kinds[n]] # <<>>
                                     /\ a = Announcement(Kinds[n], configuration[Kinds[n]])
<1>1. TheFiles
  BY PluginsAssumption DEF Told, Directory, Files, TheFiles
<1>2. PICK c \in Seq(Chunks) : c = AllChunks /\ AllOf(files, c)
  BY <1>1, AllFiles DEF AllOf, AllChunks, ChunkLists, TheFiles
<1>3. PICK O : O = {Announcement(k, configuration[k]) : k \in Elements(Kinds)}
                   \cup {Announcement("manifest", <<>>), Announcement("end", <<>>)}
  OBVIOUS
<1>4. ASSUME NEW a \in O PROVE a.type # "asset_chunk"
  <2>1. \A k \in Elements(Kinds) : k # "asset_chunk"
    BY DEF Kinds, Elements
  <2> QED
    BY <1>3, <2>1 DEF Announcement
<1>5. PICK s : s = [n \in DOMAIN Kinds |->
                      IF configuration[Kinds[n]] = <<>> THEN <<>>
                      ELSE <<Announcement(Kinds[n], configuration[Kinds[n]])>>]
  OBVIOUS
<1>6. DOMAIN Kinds = 1 .. 6
  BY DEF Kinds
<1>7. \A n \in 1 .. 6 : s[n] = IF configuration[Kinds[n]] = <<>> THEN <<>>
                               ELSE <<Announcement(Kinds[n], configuration[Kinds[n]])>>
  BY <1>5, <1>6
<1>8. ASSUME NEW n \in 1 .. 6 PROVE s[n] \in Seq(O)
  <2>1. Kinds[n] \in Elements(Kinds)
    BY <1>6 DEF Elements
  <2>2. PICK b \in O : b = Announcement(Kinds[n], configuration[Kinds[n]])
    BY <1>3, <2>1
  <2>3. s[n] = <<>> \/ s[n] = <<b>>
    BY <1>7, <2>2
  <2>4. <<b>> \in Seq(O) /\ <<>> \in Seq(O)
    BY EmptySeq
  <2> QED
    BY <2>3, <2>4
<1>9. s \in Seq(Seq(O)) /\ DOMAIN s = 1 .. 6
  <2>1. s \in [1 .. 6 -> Seq(O)]
    BY <1>5, <1>6, <1>8
  <2>2. PICK l \in Nat : l = 6
    OBVIOUS
  <2>3. s \in [1 .. l -> Seq(O)]
    BY <2>1, <2>2
  <2> QED
    BY <2>1, <2>3
<1>10. PICK d \in Seq(O) : d = Declarations /\ d = FlattenSeq(s)
  <2>1. <<>> \in Seq(O)
    BY EmptySeq
  <2>2. FlattenSeq(s) \in Seq(O)
    BY <1>9, <2>1, FlattenAppend
  <2> QED
    BY <1>5, <2>2 DEF Declarations
<1>11. ASSUME NEW a
       PROVE  a \in Elements(d) <=>
                \E n \in 1 .. 6 : /\ configuration[Kinds[n]] # <<>>
                                  /\ a = Announcement(Kinds[n], configuration[Kinds[n]])
  <2>1. a \in Elements(d) <=> \E n \in 1 .. 6 : a \in Elements(s[n])
    BY <1>9, <1>10, FlattenElements
  <2>2. ASSUME NEW n \in 1 .. 6
        PROVE  a \in Elements(s[n]) <=>
                 /\ configuration[Kinds[n]] # <<>>
                 /\ a = Announcement(Kinds[n], configuration[Kinds[n]])
    <3>1. CASE configuration[Kinds[n]] = <<>>
      BY <1>7, <3>1, EmptySeq DEF Elements
    <3>2. CASE configuration[Kinds[n]] # <<>>
      <4>1. PICK b : b = Announcement(Kinds[n], configuration[Kinds[n]])
        OBVIOUS
      <4>2. s[n] = <<b>>
        BY <1>7, <3>2, <4>1
      <4>3. Elements(<<b>>) = {b}
        BY DEF Elements
      <4> QED
        BY <3>2, <4>1, <4>2, <4>3
    <3> QED
      BY <3>1, <3>2
  <2> QED
    BY <2>1, <2>2
<1>12. PICK m \in Seq(O) : m = <<Announcement("manifest", <<>>)>>
  <2>1. PICK a \in O : a = Announcement("manifest", <<>>)
    BY <1>3
  <2>2. <<a>> \in Seq(O)
    OBVIOUS
  <2> QED
    BY <2>1, <2>2
<1>13. PICK e \in Seq(O) : e = <<Announcement("end", <<>>)>>
  <2>1. PICK a \in O : a = Announcement("end", <<>>)
    BY <1>3
  <2>2. <<a>> \in Seq(O)
    OBVIOUS
  <2> QED
    BY <2>1, <2>2
<1>14. announced = m \o d \o c \o e
  BY <1>2, <1>10, <1>12, <1>13 DEF Told, Announcements
<1> QED
  BY <1>1, <1>2, <1>4, <1>11, <1>12, <1>13, <1>14

(***************************************************************************)
(* Each file can be put together from what was announced.                  *)
(***************************************************************************)
LEMMA FilesReassemble ==
  ASSUME Told, stage = "serving", NEW file \in Elements(files)
  PROVE  FileReassembles(announced, file)
<1>1. TheFiles
  BY Parts
<1>2. PICK O : \E m, d, e \in Seq(O) : \E c \in Seq(Chunks) :
              /\ \A b \in O : b.type # "asset_chunk"
              /\ AllOf(files, c) /\ announced = m \o d \o c \o e
              /\ m = <<Announcement("manifest", <<>>)>> /\ e = <<Announcement("end", <<>>)>>
              /\ \A b : b \in Elements(d) <=>
                   \E n \in 1 .. 6 : /\ configuration[Kinds[n]] # <<>>
                                     /\ b = Announcement(Kinds[n], configuration[Kinds[n]])
  BY Parts
<1>3. PICK m \in Seq(O), d \in Seq(O), e \in Seq(O), c \in Seq(Chunks) :
        /\ \A a \in O : a.type # "asset_chunk"
        /\ AllOf(files, c) /\ announced = m \o d \o c \o e
  BY <1>2
<1>4. PICK i \in DOMAIN files : file = files[i]
  BY DEF Elements
<1>5. file \in Files /\ FileReassembles(c, file)
  BY <1>1, <1>3, <1>4 DEF AllOf, TheFiles
<1>6. PICK A : A = O \cup Chunks
  OBVIOUS
<1>7. Announced(A)
  BY <1>3, <1>6, ChunksAnnounced
<1>8. ASSUME NEW s \in Seq(O) PROVE s \in Seq(A) /\ Absent(s, file)
  <2>1. s \in Seq(A)
    BY <1>6
  <2>2. \A n \in DOMAIN s : s[n].type # "asset_chunk"
    BY <1>3
  <2> QED
    BY <2>1, <2>2 DEF Absent, ChunksOf
<1>9. file.data \in Seq(Nat)
  BY <1>5 DEF Files
<1>10. PICK x \in Seq(A) : x = m \o d /\ Absent(x, file)
  <2>1. m \o d \in Seq(O)
    OBVIOUS
  <2> QED
    BY <1>8, <2>1
<1>11. PICK y \in Seq(A) : y = x \o c /\ FileReassembles(y, file)
  <2>1. c \in Seq(A)
    BY <1>6
  <2>2. Absent(x, file) /\ FileReassembles(c, file) => FileReassembles(x \o c, file)
    BY <1>7, <1>9, <2>1, Beside
  <2>3. x \o c \in Seq(A)
    BY <2>1
  <2> QED
    BY <1>5, <1>10, <2>2, <2>3
<1>12. e \in Seq(A) /\ Absent(e, file)
  BY <1>8
<1>13. FileReassembles(y \o e, file)
  BY <1>7, <1>9, <1>11, <1>12, Beside
<1> QED
  BY <1>3, <1>10, <1>11, <1>13

-----------------------------------------------------------------------------
(* What is being written.                                                  *)

(***************************************************************************)
(* What a worker has yet to write is a part of the chunks of its blob that *)
(* ends where they end.                                                    *)
(***************************************************************************)
Writing(w) ==
  /\ out[w] = <<>> => blob[w] = None
  /\ blob[w] # None =>
       /\ blob[w] \in Seq(Nat)
       /\ \E k \in 0 .. Len(Pieces(blob[w])) :
            out[w] = SubSeq(BlobChunks(blob[w]), k + 1, Len(Pieces(blob[w])) + 1)

Written == /\ DOMAIN out = Workers /\ DOMAIN blob = Workers
           /\ \A w \in Workers : Writing(w)

(***************************************************************************)
(* All of them at first, ...                                               *)
(***************************************************************************)
LEMMA Yielded ==
  ASSUME NEW b \in Blobs
  PROVE  /\ b \in Seq(Nat)
         /\ BlobChunks(b) = SubSeq(BlobChunks(b), 0 + 1, Len(Pieces(b)) + 1)
         /\ BlobChunks(b) # <<>>
<1>1. b \in Seq(Nat)
  <2>1. PICK n \in Nat : b = [i \in 1 .. n |-> i]
    BY BlobLengthsAssumption DEF Blobs
  <2> QED
    BY <2>1
<1>2. PICK m \in Nat : m = Len(Pieces(b))
  BY <1>1, Piecewise
<1>3. PICK c : c = BlobChunks(b)
  OBVIOUS
<1>4. PICK S : S = {c[i] : i \in 1 .. m + 1}
  OBVIOUS
<1>5. c \in Seq(S) /\ Len(c) = m + 1
  <2>1. c = [i \in 1 .. m + 1 |-> c[i]]
    BY <1>2, <1>3 DEF BlobChunks
  <2>2. c \in [1 .. m + 1 -> S]
    BY <1>4, <2>1
  <2> QED
    BY <2>1, <2>2
<1>6. SubSeq(c, 1, m + 1) = c
  BY <1>5, SubSeqFull
<1>7. c # <<>>
  BY <1>5, EmptySeq
<1> QED
  BY <1>1, <1>2, <1>3, <1>6, <1>7

(***************************************************************************)
(* ... and one less then.                                                  *)
(***************************************************************************)
LEMMA NextPiece ==
  ASSUME NEW data \in Seq(Nat), NEW k \in 0 .. Len(Pieces(data)),
         NEW o, o = SubSeq(BlobChunks(data), k + 1, Len(Pieces(data)) + 1), Len(o) # 1
  PROVE  /\ k + 1 \in 0 .. Len(Pieces(data))
         /\ Tail(o) = SubSeq(BlobChunks(data), (k + 1) + 1, Len(Pieces(data)) + 1)
         /\ Tail(o) # <<>>
<1>1. Len(o) = Len(Pieces(data)) + 1 - k
  BY BlobWhole
<1>2. PICK m \in Nat : m = Len(Pieces(data))
  BY Piecewise
<1>3. k + 1 \in 0 .. m /\ k + 1 \in 1 .. m + 1 /\ m + 1 \in k + 1 .. m + 1
  BY <1>1, <1>2
<1>4. PICK c : c = BlobChunks(data)
  OBVIOUS
<1>5. PICK S : S = {c[i] : i \in 1 .. m + 1}
  OBVIOUS
<1>6. c \in Seq(S) /\ Len(c) = m + 1
  <2>1. c = [i \in 1 .. m + 1 |-> c[i]]
    BY <1>2, <1>4 DEF BlobChunks
  <2>2. c \in [1 .. m + 1 -> S]
    BY <1>5, <2>1
  <2> QED
    BY <2>1, <2>2
<1>7. Tail(o) = SubSeq(c, (k + 1) + 1, m + 1)
  <2>1. k + 1 \in 1 .. Len(c) /\ m + 1 \in k + 1 .. Len(c)
    BY <1>3, <1>6
  <2>2. Tail(SubSeq(c, k + 1, m + 1)) = SubSeq(c, (k + 1) + 1, m + 1)
    BY <1>6, <2>1, HeadTailOfSubSeq
  <2> QED
    BY <1>2, <1>4, <2>2
<1>8. Len(Tail(o)) = m + 1 - (k + 1)
  <2>1. PICK l \in 0 .. m : l = k + 1
    BY <1>3
  <2>2. PICK t : t = Tail(o)
    OBVIOUS
  <2>3. l \in 0 .. Len(Pieces(data)) /\ t = SubSeq(BlobChunks(data), l + 1, Len(Pieces(data)) + 1)
    BY <1>2, <1>4, <1>7, <2>1, <2>2
  <2>4. Len(t) = Len(Pieces(data)) + 1 - l
    BY <2>3, BlobWhole
  <2> QED
    BY <1>2, <2>1, <2>2, <2>4
<1>9. Tail(o) # <<>>
  <2>1. Len(Tail(o)) # 0
    BY <1>1, <1>2, <1>3, <1>8
  <2> QED
    BY <2>1, EmptySeq
<1> QED
  BY <1>2, <1>3, <1>4, <1>7, <1>9

(***************************************************************************)
(* This is an invariant.                                                   *)
(***************************************************************************)
LEMMA WrittenAlways == Spec => []Written
<1>1. Init => Written
  BY DEF Init, Written, Writing
<1>2. ASSUME Written, [Next]_vars PROVE Written'
  <2>1. CASE out' = out /\ blob' = blob
    BY <1>2, <2>1 DEF Written, Writing
  <2>2. ASSUME NEW w \in Workers, DOMAIN out' = Workers, DOMAIN blob' = Workers,
               \A v \in Workers : v # w => out'[v] = out[v] /\ blob'[v] = blob[v],
               Writing(w)'
        PROVE  Written'
    <3>1. ASSUME NEW v \in Workers, v # w PROVE Writing(v)'
      BY <1>2, <2>2, <3>1 DEF Written, Writing
    <3> QED
      BY <2>2, <3>1 DEF Written
  <2>3. ASSUME NEW w \in Workers, StreamYields(w) PROVE Written'
    <3>1. out[w] = <<>> /\ blob[w] = None
      BY <1>2, <2>3 DEF StreamYields, At, Written, Writing
    <3>2. CASE blob' = blob /\ \E x : out' = [out EXCEPT ![w] = <<x>>]
      <4>1. PICK x : out' = [out EXCEPT ![w] = <<x>>]
        BY <3>2
      <4>2. blob'[w] = None /\ out'[w] # <<>>
        BY <1>2, <3>1, <3>2, <4>1 DEF Written
      <4>3. Writing(w)'
        BY <4>2 DEF Writing
      <4>4. DOMAIN out' = Workers /\ DOMAIN blob' = Workers
            /\ \A v \in Workers : v # w => out'[v] = out[v] /\ blob'[v] = blob[v]
        BY <1>2, <3>2, <4>1 DEF Written
      <4> QED
        BY <2>2, <4>3, <4>4
    <3>3. ASSUME NEW b \in Blobs, out' = [out EXCEPT ![w] = BlobChunks(b)],
                 blob' = [blob EXCEPT ![w] = b]
          PROVE  Written'
      <4>1. out'[w] = BlobChunks(b) /\ blob'[w] = b
        BY <1>2, <3>3 DEF Written
      <4>2. PICK m \in Nat : m = Len(Pieces(b))
        BY Yielded, Piecewise
      <4>3. 0 \in 0 .. m
        BY <4>2
      <4>4. Writing(w)'
        BY <4>1, <4>2, <4>3, Yielded DEF Writing
      <4>5. DOMAIN out' = Workers /\ DOMAIN blob' = Workers
            /\ \A v \in Workers : v # w => out'[v] = out[v] /\ blob'[v] = blob[v]
        BY <1>2, <3>3 DEF Written
      <4> QED
        BY <2>2, <4>4, <4>5
    <3> QED
      BY <2>3, <3>2, <3>3 DEF StreamYields
  <2>4. ASSUME NEW w \in Workers, Answers(w) PROVE Written'
    <3>1. out[w] = <<>> /\ blob[w] = None /\ blob' = blob
      BY <1>2, <2>4 DEF Answers, At, Written, Writing
    <3>2. PICK x : out' = [out EXCEPT ![w] = <<x>>]
      BY <2>4 DEF Answers
    <3>3. blob'[w] = None /\ out'[w] # <<>>
      BY <1>2, <3>1, <3>2 DEF Written
    <3>4. Writing(w)'
      BY <3>3 DEF Writing
    <3>5. DOMAIN out' = Workers /\ DOMAIN blob' = Workers
          /\ \A v \in Workers : v # w => out'[v] = out[v] /\ blob'[v] = blob[v]
      BY <1>2, <3>1, <3>2 DEF Written
    <3> QED
      BY <2>2, <3>4, <3>5
  <2>5. ASSUME NEW w \in Workers, WriteMessage(w) PROVE Written'
    <3>1. CASE out' = [out EXCEPT ![w] = <<>>] /\ blob' = [blob EXCEPT ![w] = None]
      <4>1. out'[w] = <<>> /\ blob'[w] = None
        BY <1>2, <3>1 DEF Written
      <4>2. Writing(w)'
        BY <4>1 DEF Writing
      <4>3. DOMAIN out' = Workers /\ DOMAIN blob' = Workers
            /\ \A v \in Workers : v # w => out'[v] = out[v] /\ blob'[v] = blob[v]
        BY <1>2, <3>1 DEF Written
      <4> QED
        BY <2>2, <4>2, <4>3
    <3>2. CASE out' = [out EXCEPT ![w] = Tail(@)] /\ Len(out[w]) = 1
               /\ blob' = [blob EXCEPT ![w] = None]
      <4>1. blob'[w] = None
        BY <1>2, <3>2 DEF Written
      <4>2. Writing(w)'
        BY <4>1 DEF Writing
      <4>3. DOMAIN out' = Workers /\ DOMAIN blob' = Workers
            /\ \A v \in Workers : v # w => out'[v] = out[v] /\ blob'[v] = blob[v]
        BY <1>2, <3>2 DEF Written
      <4> QED
        BY <2>2, <4>2, <4>3
    <3>3. CASE out' = [out EXCEPT ![w] = Tail(@)] /\ Len(out[w]) # 1 /\ blob' = blob
      <4>1. out'[w] = Tail(out[w]) /\ blob'[w] = blob[w]
        BY <1>2, <3>3 DEF Written
      <4>2. ASSUME blob[w] = None PROVE Writing(w)'
        BY <4>1, <4>2 DEF Writing
      <4>3. ASSUME blob[w] # None PROVE Writing(w)'
        <5>1. PICK k \in 0 .. Len(Pieces(blob[w])) :
                out[w] = SubSeq(BlobChunks(blob[w]), k + 1, Len(Pieces(blob[w])) + 1)
          BY <1>2, <4>3 DEF Written, Writing
        <5>2. PICK data \in Seq(Nat) : data = blob[w]
          BY <1>2, <4>3 DEF Written, Writing
        <5>3. /\ k + 1 \in 0 .. Len(Pieces(data))
              /\ Tail(out[w]) = SubSeq(BlobChunks(data), (k + 1) + 1, Len(Pieces(data)) + 1)
              /\ Tail(out[w]) # <<>>
          BY <3>3, <5>1, <5>2, NextPiece
        <5>4. blob'[w] = data /\ out'[w] = Tail(out[w])
          BY <4>1, <5>2
        <5> QED
          BY <5>3, <5>4 DEF Writing
      <4>4. DOMAIN out' = Workers /\ DOMAIN blob' = Workers
            /\ \A v \in Workers : v # w => out'[v] = out[v] /\ blob'[v] = blob[v]
        BY <1>2, <3>3 DEF Written
      <4>5. Writing(w)'
        BY <4>2, <4>3
      <4> QED
        BY <2>2, <4>4, <4>5
    <3> QED
      BY <2>5, <3>1, <3>2, <3>3 DEF WriteMessage
  <2>6. ASSUME NEW w \in Workers, Working(w),
               ~StreamYields(w), ~Answers(w), ~WriteMessage(w)
        PROVE  out' = out /\ blob' = blob
    BY <2>6 DEF Working, Take, EnterContext, ExitContext, RunCode, StreamEnds,
         RaiseError, Unwind, Finish
  <2> QED
    BY <1>2, <2>1, <2>3, <2>4, <2>5, <2>6 DEF Next, vars, workerVars
<1> QED
  BY <1>1, <1>2, PTL DEF Spec

(***************************************************************************)
(* What is cut to pieces can be put together: the chunks of a blob that a  *)
(* worker has yet to write are numbered without a gap and end once, at the *)
(* end of the blob, and are the blob if they are all of them; the          *)
(* announced chunks of an asset are the asset, and the last one, only, is  *)
(* marked.                                                                 *)
(***************************************************************************)
THEOREM PiecesAreWhole == Spec => []PiecesReassemble
<1>1. ASSUME Told, Written PROVE PiecesReassemble
  <2>1. ASSUME NEW w \in Workers, blob[w] # None PROVE BlobReassembles(out[w], blob[w])
    <3>1. PICK k \in 0 .. Len(Pieces(blob[w])) :
            out[w] = SubSeq(BlobChunks(blob[w]), k + 1, Len(Pieces(blob[w])) + 1)
      BY <1>1, <2>1 DEF Written, Writing
    <3>2. blob[w] \in Seq(Nat)
      BY <1>1, <2>1 DEF Written, Writing
    <3> QED
      BY <3>1, <3>2, BlobWhole
  <2> QED
    BY <1>1, <2>1, FilesReassemble DEF PiecesReassemble
<1> QED
  BY <1>1, ToldAlways, WrittenAlways, PTL

-----------------------------------------------------------------------------
(* Classes.                                                                *)

(***************************************************************************)
(* A class that was written for the provider, derived from the base.       *)
(***************************************************************************)
Own(c, base, name) == c.of = name /\ base \in c.bases

(***************************************************************************)
(* The provider's sources are written for it.                              *)
(***************************************************************************)
Sound(p) ==
  /\ p \in Providers
  /\ \A source \in SourcesOf(p) \cap DOMAIN plugin.modules :
       WrittenFor(p.name, plugin.modules[source])

(***************************************************************************)
(* What a module of the plugin's has is classes.                           *)
(***************************************************************************)
LEMMA Module ==
  ASSUME plugin \in Plugins, NEW source \in DOMAIN plugin.modules
  PROVE  plugin.modules[source] \in Seq(Classes)
BY PluginsAssumption DEF Directory

(***************************************************************************)
(* The only subclass in a source of a provider's is its own: were it       *)
(* imported, the class that it was imported for would be another one.      *)
(***************************************************************************)
LEMMA Loaded ==
  ASSUME plugin \in Plugins, NEW p, Sound(p), NEW source \in SourcesOf(p), NEW parent,
         NEW c, c = load_single_subclass(source, parent), c # None
  PROVE  /\ source \in DOMAIN plugin.modules /\ c \in Elements(plugin.modules[source])
         /\ Own(c, parent, p.name)
<1>1. source \in DOMAIN plugin.modules
  BY DEF load_single_subclass, import_fails
<1>2. PICK m \in Seq(Classes) : m = plugin.modules[source]
  BY <1>1, Module
<1>3. PICK i \in DOMAIN m : /\ {j \in DOMAIN m : parent \in m[j].bases} = {i}
                            /\ c = m[i]
  BY <1>1, <1>2, Zenon DEF load_single_subclass, import_fails, get_subclasses_from_module
<1>4. parent \in m[i].bases
  BY <1>3
<1>5. PICK j \in DOMAIN m : /\ m[j].of = p.name /\ m[i].bases \subseteq m[j].bases
  <2>1. m[i].bases # {}
    BY <1>4
  <2>2. WrittenFor(p.name, m)
    BY <1>1, <1>2 DEF Sound
  <2> QED
    BY <2>1, <2>2 DEF WrittenFor
<1>6. j = i
  BY <1>3, <1>4, <1>5
<1> QED
  BY <1>1, <1>2, <1>3, <1>4, <1>5, <1>6 DEF Own, Elements

(***************************************************************************)
(* A dictionary has each item by its name.                                 *)
(***************************************************************************)
LEMMA ByName ==
  ASSUME NEW items \in Seq(Items), NEW values, NEW t, t = by_name(items, values)
  PROVE  /\ \A n \in DOMAIN t : \E i \in DOMAIN items : items[i].name = n /\ t[n] = values[i]
         /\ \A i \in DOMAIN items : items[i].name \in DOMAIN t
<1>1. PICK l \in Nat : DOMAIN items = 1 .. l
  OBVIOUS
<1>2. t = [n \in {items[i].name : i \in DOMAIN items} |->
             values[Max({i \in DOMAIN items : items[i].name = n})]]
  BY DEF by_name
<1>3. ASSUME NEW n \in DOMAIN t
      PROVE  \E i \in DOMAIN items : items[i].name = n /\ t[n] = values[i]
  <2>1. PICK S : S = {i \in DOMAIN items : items[i].name = n}
    OBVIOUS
  <2>2. S \in SUBSET (0 .. l) /\ S # {}
    BY <1>1, <1>2, <2>1
  <2>3. Max(S) \in S
    BY <2>2, MaxIs
  <2>4. t[n] = values[Max(S)]
    BY <1>2, <2>1
  <2> QED
    BY <2>1, <2>3, <2>4
<1>4. \A i \in DOMAIN items : items[i].name \in DOMAIN t
  BY <1>2
<1> QED
  BY <1>3, <1>4

(***************************************************************************)
(* The items of a provider, by name, if each has its class: its own ones,  *)
(* from their sources.                                                     *)
(***************************************************************************)
LEMMA ItemsLoaded ==
  ASSUME plugin \in Plugins, NEW p, Sound(p), NEW parent, NEW t,
         t = by_name(p.items, item_classes(p, parent)),
         None \notin Elements(item_classes(p, parent))
  PROVE  /\ \A n \in DOMAIN t : \E i \in DOMAIN p.items :
              /\ p.items[i].name = n /\ t[n] = item_classes(p, parent)[i]
              /\ t[n] # None /\ Own(t[n], parent, p.name)
              /\ t[n] \in Elements(plugin.modules[p.items[i].source])
         /\ \A i \in DOMAIN p.items : p.items[i].name \in DOMAIN t
<1>1. p.items \in Seq(Items)
  BY DEF Sound, Providers
<1>2. PICK v : v = item_classes(p, parent)
  OBVIOUS
<1>3. v = [i \in DOMAIN p.items |-> load_single_subclass(p.items[i].source, parent)]
  BY <1>2 DEF item_classes
<1>4. ASSUME NEW i \in DOMAIN p.items
      PROVE  /\ v[i] # None /\ Own(v[i], parent, p.name)
             /\ v[i] \in Elements(plugin.modules[p.items[i].source])
  <2>1. v[i] = load_single_subclass(p.items[i].source, parent) /\ v[i] # None
    BY <1>2, <1>3 DEF Elements
  <2>2. p.items[i].source \in SourcesOf(p)
    BY DEF SourcesOf
  <2> QED
    BY <2>1, <2>2, Loaded
<1>5. /\ \A n \in DOMAIN t : \E i \in DOMAIN p.items : p.items[i].name = n /\ t[n] = v[i]
      /\ \A i \in DOMAIN p.items : p.items[i].name \in DOMAIN t
  BY <1>1, <1>2, ByName
<1> QED
  BY <1>2, <1>4, <1>5

(***************************************************************************)
(* The last class of a type is the provider's own, although others may be  *)
(* imported before it.                                                     *)
(***************************************************************************)
LEMMA ModelsLoaded ==
  ASSUME plugin \in Plugins, NEW p, Sound(p),
         \A i \in DOMAIN p.items : ~import_fails(p.items[i].source),
         NEW t \in DOMAIN model_classes(p)
  PROVE  model_classes(p)[t] \in Classes /\ Own(model_classes(p)[t], "AIModel", p.name)
<1>1. PICK l \in Nat : DOMAIN p.items = 1 .. l
  BY DEF Sound, Providers
<1>2. PICK H : H = having_type(p, t)
  OBVIOUS
<1>3. H # {}
  BY <1>2 DEF model_classes
<1>4. /\ H \in SUBSET (0 .. l)
      /\ \A i \in H : i \in DOMAIN p.items /\ classes_of_type(p.items[i].source, t) # {}
  BY <1>1, <1>2 DEF having_type
<1>5. Max(H) \in H
  BY <1>3, <1>4, MaxIs
<1>6. PICK i \in DOMAIN p.items : i = Max(H) /\ classes_of_type(p.items[i].source, t) # {}
  BY <1>4, <1>5
<1>7. PICK source : source = p.items[i].source
  OBVIOUS
<1>8. source \in DOMAIN plugin.modules /\ source \in SourcesOf(p)
  BY <1>6, <1>7 DEF import_fails, SourcesOf
<1>9. PICK m \in Seq(Classes) : m = plugin.modules[source]
  BY <1>8, Module
<1>10. PICK C : C = classes_of_type(source, t)
  OBVIOUS
<1>11. C = {j \in DOMAIN m : "AIModel" \in m[j].bases /\ m[j].bases \cap ModelBases # {}
                             /\ m[j].model_type = t}
  BY <1>9, <1>10 DEF classes_of_type, load_multi_subclasses, get_subclasses_from_module
<1>12. C \in SUBSET (0 .. Len(m)) /\ C # {}
  <2>1. DOMAIN m = 1 .. Len(m) /\ Len(m) \in Nat
    BY <1>9
  <2> QED
    BY <1>6, <1>7, <1>10, <1>11, <2>1
<1>13. PICK j \in C : j = Max(C) /\ \A k \in C : k <= j
  <2>1. Len(m) \in Nat
    BY <1>9
  <2> QED
    BY <1>12, <2>1, MaxIs
<1>14. model_classes(p)[t] = m[j]
  BY <1>2, <1>6, <1>7, <1>9, <1>10, <1>13 DEF model_classes
<1>15. PICK k \in DOMAIN m : /\ k >= j /\ m[k].of = p.name
                             /\ m[j].bases \subseteq m[k].bases
                             /\ m[k].model_type = m[j].model_type
  <2>1. WrittenFor(p.name, m)
    BY <1>8, <1>9 DEF Sound
  <2>2. j \in DOMAIN m /\ m[j].bases # {}
    BY <1>11, <1>13
  <2> QED
    BY <2>1, <2>2 DEF WrittenFor
<1>16. k \in C
  BY <1>11, <1>13, <1>15
<1>17. k = j
  <2>1. k <= j /\ k >= j /\ k \in Nat /\ j \in Nat
    BY <1>12, <1>13, <1>15, <1>16
  <2> QED
    BY <2>1
<1>18. m[j] \in Classes
  <2>1. j \in DOMAIN m
    BY <1>11, <1>13
  <2> QED
    BY <1>9, <2>1
<1> QED
  BY <1>11, <1>13, <1>14, <1>15, <1>17, <1>18 DEF Own

-----------------------------------------------------------------------------
(* What has been read.                                                     *)

(***************************************************************************)
(* The kinds in the order in which they are read and resolved.             *)
(***************************************************************************)
Index == [tools |-> 1, models |-> 2, endpoints |-> 3, agent_strategies |-> 4,
          datasources |-> 5, triggers |-> 6]

(***************************************************************************)
(* Each is there once, ...                                                 *)
(***************************************************************************)
LEMMA KindsIndexed ==
  /\ Elements(Kinds) = DOMAIN Index
  /\ \A k \in DOMAIN Index : Index[k] \in 1 .. 6
  /\ \A k, l \in DOMAIN Index : Index[k] = Index[l] => k = l
  /\ \A i \in DOMAIN Kinds : i \in 1 .. 6
<1>1. DOMAIN Kinds = {1, 2, 3, 4, 5, 6}
  BY DEF Kinds
<1>2. Elements(Kinds) = DOMAIN Index
  BY <1>1 DEF Elements, Kinds, Index
<1>3. \A k \in DOMAIN Index : Index[k] \in 1 .. 6
  BY DEF Index
<1>4. \A k, l \in DOMAIN Index : Index[k] = Index[l] => k = l
  BY DEF Index
<1> QED
  BY <1>1, <1>2, <1>3, <1>4

(***************************************************************************)
(* ... and after it comes the next.                                        *)
(***************************************************************************)
LEMMA KindAfter ==
  ASSUME kind \in DOMAIN Index, kind # "triggers"
  PROVE  NextKind \in DOMAIN Index /\ Index[NextKind] = Index[kind] + 1
<1> DEFINE n == CHOOSE i \in 2 .. Len(Kinds) : Kinds[i - 1] = kind
<1>1. Len(Kinds) = 6
  BY DEF Kinds
<1>2. kind \in {"tools", "models", "endpoints", "agent_strategies", "datasources"}
  BY DEF Index
<1>3. \E i \in 2 .. 6 : Kinds[i - 1] = kind
  <2>1. /\ Kinds[2 - 1] = "tools" /\ Kinds[3 - 1] = "models" /\ Kinds[4 - 1] = "endpoints"
        /\ Kinds[5 - 1] = "agent_strategies" /\ Kinds[6 - 1] = "datasources"
    BY DEF Kinds
  <2> QED
    BY <1>2, <2>1
<1>4. n \in 2 .. 6 /\ Kinds[n - 1] = kind
  BY <1>1, <1>3
<1>5. NextKind = Kinds[n]
  BY DEF NextKind
<1> HIDE DEF n
<1>6. n \in {2, 3, 4, 5, 6}
  BY <1>4
<1>7. CASE n = 2
  BY <1>4, <1>5, <1>7 DEF Kinds, Index
<1>8. CASE n = 3
  BY <1>4, <1>5, <1>8 DEF Kinds, Index
<1>9. CASE n = 4
  BY <1>4, <1>5, <1>9 DEF Kinds, Index
<1>10. CASE n = 5
  BY <1>4, <1>5, <1>10 DEF Kinds, Index
<1>11. CASE n = 6
  BY <1>4, <1>5, <1>11 DEF Kinds, Index
<1> QED
  BY <1>6, <1>7, <1>8, <1>9, <1>10, <1>11

(***************************************************************************)
(* What can be declared of a kind.                                         *)
(***************************************************************************)
Declarable(k) == {p \in Providers : Sound(p) /\ (k = "datasources" => p.type # None)}

(***************************************************************************)
(* The configuration is of such providers, kind by kind.                   *)
(***************************************************************************)
Configured(c) ==
  /\ c = [k \in DOMAIN Index |-> c[k]]
  /\ \A k \in DOMAIN Index : c[k] \in Seq(Declarable(k))

(***************************************************************************)
(* What is left to do of c is its end.                                     *)
(***************************************************************************)
Left(s, c) ==
  /\ Len(s) <= Len(c)
  /\ \A j \in 1 .. Len(s) : s[j] = c[Len(c) - Len(s) + j]

(***************************************************************************)
(* The stages, and what holds of the configuration and of what is left to  *)
(* do in each.                                                             *)
(***************************************************************************)
Stages == {"manifest", "read", "resolve", "assets", "connect", "serving", "failed"}

Registered ==
  /\ plugin \in Plugins /\ stage \in Stages /\ kind \in DOMAIN Index
  /\ Configured(configuration)
  /\ stage = "manifest" => kind = "tools"
  /\ stage = "read" => todo \in Seq(Elements(plugin.manifest[kind]))
  /\ stage = "resolve" =>
       todo \in Seq(Declarable(kind)) /\ Left(todo, configuration[kind])

(***************************************************************************)
(* The files of a kind hold what can be declared of it.                    *)
(***************************************************************************)
LEMMA Directories ==
  ASSUME plugin \in Plugins, NEW k \in DOMAIN Index
  PROVE  /\ plugin.manifest[k] \in Seq(Elements(plugin.manifest[k]))
         /\ \A f \in Elements(plugin.manifest[k]) :
              plugin.yaml[f] = None \/ plugin.yaml[f] \in Declarable(k)
<1>1. PICK d \in Plugins : d = plugin
  OBVIOUS
<1>2. /\ Directory(d)
      /\ \A f \in DOMAIN d.yaml : d.yaml[f] # None =>
           \A source \in SourcesOf(d.yaml[f]) \cap DOMAIN d.modules :
             WrittenFor(d.yaml[f].name, d.modules[source])
  BY PluginsAssumption
<1>3. /\ d.manifest[k] \in Seq(DOMAIN d.yaml)
      /\ d.yaml \in [DOMAIN d.yaml -> {None} \cup Providers]
      /\ \A f \in Elements(d.manifest["datasources"]) : d.yaml[f] # None => d.yaml[f].type # None
  BY <1>2, KindsIndexed DEF Directory
<1>4. PICK s \in Seq(DOMAIN d.yaml) : s = d.manifest[k]
  BY <1>3
<1>5. s \in Seq(Elements(s)) /\ \A f \in Elements(s) : f \in DOMAIN d.yaml
  BY DEF Elements
<1>6. ASSUME NEW f \in Elements(s), d.yaml[f] # None PROVE d.yaml[f] \in Declarable(k)
  <2>1. d.yaml[f] \in Providers /\ f \in DOMAIN d.yaml
    BY <1>3, <1>5, <1>6
  <2>2. Sound(d.yaml[f])
    BY <1>1, <1>2, <1>6, <2>1 DEF Sound
  <2> QED
    BY <1>3, <1>4, <1>6, <2>1, <2>2 DEF Declarable
<1> QED
  BY <1>1, <1>4, <1>5, <1>6

(***************************************************************************)
(* Nothing has been read at first.                                         *)
(***************************************************************************)
LEMMA Beginning ==
  ASSUME RegistrationInit PROVE Registered
<1>1. plugin \in Plugins /\ stage = "manifest" /\ kind = "tools"
  BY DEF RegistrationInit
<1>2. "tools" \in DOMAIN Index /\ "manifest" \in Stages
  BY DEF Index, Stages
<1>3. Configured(configuration)
  BY KindsIndexed DEF RegistrationInit, Configured
<1> QED
  BY <1>1, <1>2, <1>3 DEF Registered

(***************************************************************************)
(* The manifest is read, then a file, and after the last of a kind the     *)
(* next kind's.                                                            *)
(***************************************************************************)
LEMMA Reading ==
  ASSUME Registered, LoadManifest \/ LoadProvider \/ LoadedKind PROVE Registered'
<1> USE DEF Registered
<1>0. \A k : Declarable(k)' = Declarable(k)
  <2>1. plugin' = plugin
    BY DEF LoadManifest, LoadProvider, LoadedKind
  <2> QED
    BY <2>1 DEF Declarable, Sound
<1>3. CASE LoadManifest
  <2>1. /\ plugin' = plugin /\ kind' = kind /\ configuration' = configuration
        /\ \/ stage' = "failed"
           \/ stage' = "read" /\ kind = "tools" /\ todo' = plugin.manifest["tools"]
    BY <1>3 DEF LoadManifest, Fail
  <2>2. Configured(configuration)'
    BY <1>0, <2>1 DEF Configured
  <2>3. plugin.manifest["tools"] \in Seq(Elements(plugin.manifest["tools"]))
    <3>1. "tools" \in DOMAIN Index
      BY DEF Index
    <3> QED
      BY <3>1, Directories
  <2> QED
    BY <2>1, <2>2, <2>3 DEF Stages
<1>1. CASE LoadProvider
  <2>1. CASE plugin.yaml[Head(todo)] = None
    BY <1>0, <1>1, <2>1 DEF LoadProvider, Fail, Configured, Stages
  <2>2. CASE plugin.yaml[Head(todo)] # None
    <3>1. PICK p : p = plugin.yaml[Head(todo)]
      OBVIOUS
    <3>2. /\ configuration' = [configuration EXCEPT ![kind] = Append(configuration[kind], p)]
          /\ todo' = Tail(todo) /\ stage' = stage /\ stage = "read" /\ todo # <<>>
          /\ plugin' = plugin /\ kind' = kind
      BY <1>1, <2>2, <3>1 DEF LoadProvider
    <3>3. p \in Declarable(kind)
      <4>1. Head(todo) \in Elements(plugin.manifest[kind])
        BY <3>2
      <4> QED
        BY <2>2, <3>1, <4>1, Directories
    <3>4. Tail(todo) \in Seq(Elements(plugin.manifest[kind]))
      BY <3>2
    <3>5. Configured(configuration')
      <4>1. PICK c : c = configuration'
        OBVIOUS
      <4>2. PICK c0 : c0 = configuration
        OBVIOUS
      <4>3. Configured(c0) /\ c = [c0 EXCEPT ![kind] = Append(c0[kind], p)]
        BY <3>2, <4>1, <4>2
      <4>4. c = [k \in DOMAIN Index |-> IF k = kind THEN Append(c0[k], p) ELSE c0[k]]
        BY <4>3 DEF Configured
      <4>5. \A k \in DOMAIN Index : c[k] \in Seq(Declarable(k))
        BY <3>3, <4>3, <4>4 DEF Configured
      <4>6. c = [k \in DOMAIN Index |-> c[k]]
        BY <4>4
      <4> QED
        BY <4>1, <4>5, <4>6 DEF Configured
    <3>6. Configured(configuration)'
      BY <1>0, <3>5 DEF Configured
    <3> QED
      BY <3>2, <3>4, <3>6
  <2> QED
    BY <2>1, <2>2
<1>2. CASE LoadedKind
  <2>1. Configured(configuration)' /\ plugin' = plugin
    BY <1>0, <1>2 DEF LoadedKind, Configured
  <2>2. CASE kind = "triggers"
    <3>1. stage' = "resolve" /\ kind' = "tools" /\ todo' = configuration["tools"]
          /\ configuration' = configuration
      BY <1>2, <2>2 DEF LoadedKind
    <3>2. "tools" \in DOMAIN Index
      BY DEF Index
    <3>3. configuration["tools"] \in Seq(Declarable("tools"))
      BY <3>2 DEF Configured
    <3>4. Left(configuration["tools"], configuration["tools"])
      BY <3>3 DEF Left
    <3> QED
      BY <1>0, <2>1, <3>1, <3>2, <3>3, <3>4 DEF Stages
  <2>3. CASE kind # "triggers"
    <3>1. kind' = NextKind /\ todo' = plugin.manifest[NextKind] /\ stage' = stage /\ stage = "read"
      BY <1>2, <2>3 DEF LoadedKind
    <3>2. NextKind \in DOMAIN Index
      BY <2>3, KindAfter
    <3>3. todo' \in Seq(Elements(plugin.manifest[NextKind]))
      BY <3>1, <3>2, Directories
    <3> QED
      BY <2>1, <3>1, <3>2, <3>3
  <2> QED
    BY <2>2, <2>3
<1> QED
  BY <1>1, <1>2, <1>3

(***************************************************************************)
(* The next of what is left to do, and what is left then.                  *)
(***************************************************************************)
LEMMA NextLeft ==
  ASSUME NEW S, NEW s \in Seq(S), NEW c \in Seq(S), Left(s, c), s # <<>>
  PROVE  /\ Tail(s) \in Seq(S) /\ Left(Tail(s), c)
         /\ Len(c) - Len(s) + 1 \in DOMAIN c /\ Head(s) = c[Len(c) - Len(s) + 1]
         /\ Len(c) - Len(Tail(s)) = Len(c) - Len(s) + 1
<1>1. PICK m \in Nat, n \in Nat : m = Len(s) /\ n = Len(c) /\ 0 < m /\ m <= n
  <2>1. Len(s) \in Nat /\ Len(c) \in Nat
    OBVIOUS
  <2>2. Len(s) # 0
    BY EmptySeq
  <2>3. Len(s) <= Len(c)
    BY DEF Left
  <2> QED
    BY <2>1, <2>2, <2>3
<1>2. PICK t \in Seq(S) : t = Tail(s) /\ Len(t) = m - 1 /\ \A j \in 1 .. m - 1 : t[j] = s[j + 1]
  <2>1. s # <<>>
    OBVIOUS
  <2>2. /\ Tail(s) \in Seq(S) /\ Len(Tail(s)) = Len(s) - 1
        /\ \A j \in 1 .. Len(Tail(s)) : Tail(s)[j] = s[j + 1]
    BY <2>1, HeadTailProperties
  <2> QED
    BY <1>1, <2>2
<1>3. \A j \in 1 .. m : s[j] = c[n - m + j]
  BY <1>1 DEF Left
<1>4. ASSUME NEW j \in 1 .. m - 1 PROVE t[j] = c[n - (m - 1) + j]
  <2>1. j + 1 \in 1 .. m /\ n - m + (j + 1) = n - (m - 1) + j
    BY <1>1
  <2> QED
    BY <1>2, <1>3, <2>1
<1>5. Left(t, c)
  BY <1>1, <1>2, <1>4 DEF Left
<1>6. n - m + 1 \in 1 .. n /\ DOMAIN c = 1 .. n /\ Head(s) = s[1] /\ 1 \in 1 .. m
  BY <1>1
<1> QED
  BY <1>1, <1>2, <1>3, <1>5, <1>6

(***************************************************************************)
(* What can be declared depends on the plugin only.                        *)
(***************************************************************************)
LEMMA SameDirectory ==
  ASSUME plugin' = plugin
  PROVE  /\ \A k : Declarable(k)' = Declarable(k)
         /\ \A p : Sound(p)' <=> Sound(p)
BY DEF Declarable, Sound

(***************************************************************************)
(* A provider is entered, ...                                              *)
(***************************************************************************)
LEMMA ProviderDone ==
  ASSUME Registered, stage = "resolve", todo # <<>>,
         plugin' = plugin /\ kind' = kind /\ stage' = stage,
         configuration' = configuration /\ todo' = Tail(todo)
  PROVE  Registered'
<1>1. kind \in DOMAIN Index /\ Configured(configuration)
  BY DEF Registered
<1>2. todo \in Seq(Declarable(kind)) /\ Left(todo, configuration[kind])
  BY DEF Registered
<1>3. Tail(todo) \in Seq(Declarable(kind)) /\ Left(Tail(todo), configuration[kind])
  BY <1>1, <1>2, NextLeft DEF Configured
<1>4. Configured(configuration)'
  BY <1>1, SameDirectory DEF Configured
<1> QED
  BY <1>1, <1>3, <1>4, SameDirectory DEF Registered

(***************************************************************************)
(* ... or fails, and so does the plugin.                                   *)
(***************************************************************************)
LEMMA Failing ==
  ASSUME Registered, plugin' = plugin /\ kind' = kind, Fail
  PROVE  Registered'
<1>1. Configured(configuration)'
  BY SameDirectory DEF Registered, Configured, Fail
<1> QED
  BY <1>1 DEF Registered, Fail, Stages

(***************************************************************************)
(* A tool that is declared to have runtime parameters is the same          *)
(* otherwise.                                                              *)
(***************************************************************************)
LEMMA ToolRedeclared ==
  ASSUME plugin \in Plugins, NEW p \in Declarable("tools"), NEW loaded,
         DOMAIN loaded = DOMAIN p.items, NEW r, r = with_runtime(p, loaded)
  PROVE  /\ r \in Declarable("tools")
         /\ r.name = p.name /\ DOMAIN r.items = DOMAIN p.items
         /\ \A i \in DOMAIN p.items :
              /\ r.items[i].name = p.items[i].name
              /\ r.items[i].source = p.items[i].source
              /\ Tool_has_runtime_parameters(loaded[i]) => r.items[i].runtime
<1>1. PICK s \in Seq(Items) : s = p.items
  BY DEF Declarable, Providers
<1>2. PICK t : t = [i \in DOMAIN s |->
                      [s[i] EXCEPT !.runtime = @ \/ Tool_has_runtime_parameters(loaded[i])]]
  OBVIOUS
<1>3. r = [p EXCEPT !.items = t]
  BY <1>1, <1>2 DEF with_runtime
<1>4. ASSUME NEW i \in DOMAIN s
      PROVE  /\ t[i] \in Items /\ t[i].name = s[i].name /\ t[i].source = s[i].source
             /\ Tool_has_runtime_parameters(loaded[i]) => t[i].runtime
  <2>1. s[i] \in Items
    OBVIOUS
  <2>2. PICK b \in BOOLEAN : b = (s[i].runtime \/ Tool_has_runtime_parameters(loaded[i]))
    OBVIOUS
  <2>3. t[i] = [s[i] EXCEPT !.runtime = b]
    BY <1>2, <2>2, Zenon
  <2>4. t[i] \in Items /\ t[i].name = s[i].name /\ t[i].source = s[i].source
    BY <2>1, <2>3 DEF Items
  <2>5. t[i].runtime = b
    BY <2>1, <2>3 DEF Items
  <2> QED
    BY <2>2, <2>4, <2>5
<1>5. t \in Seq(Items)
  <2>1. PICK n \in Nat : DOMAIN s = 1 .. n
    OBVIOUS
  <2>2. t = [i \in 1 .. n |-> t[i]]
    BY <1>2, <2>1
  <2>3. t \in [1 .. n -> Items]
    BY <1>4, <2>1, <2>2
  <2> QED
    BY <2>1, <2>3
<1>6. p \in Providers /\ Sound(p)
  BY DEF Declarable
<1>7. /\ r \in Providers /\ r.name = p.name /\ r.items = t
      /\ r.source = p.source /\ r.constructor = p.constructor
  BY <1>3, <1>5, <1>6 DEF Providers
<1>8. SourcesOf(r) = SourcesOf(p)
  <2>1. {r.items[i].source : i \in DOMAIN r.items} = {p.items[i].source : i \in DOMAIN p.items}
    <3>1. DOMAIN t = DOMAIN s
      BY <1>2
    <3> QED
      BY <1>1, <1>4, <1>7, <3>1
  <2> QED
    BY <1>7, <2>1 DEF SourcesOf
<1>9. Sound(r)
  BY <1>6, <1>7, <1>8 DEF Sound
<1>10. DOMAIN t = DOMAIN s
  BY <1>2
<1> QED
  BY <1>1, <1>4, <1>7, <1>9, <1>10 DEF Declarable

(***************************************************************************)
(* The tools, whose declarations change when they are entered, ...         *)
(***************************************************************************)
LEMMA ToolsResolved ==
  ASSUME Registered, _resolve_tool_providers PROVE Registered'
<1>1. /\ stage = "resolve" /\ kind = "tools" /\ todo # <<>>
      /\ plugin' = plugin /\ kind' = kind
  BY DEF _resolve_tool_providers, Resolving
<1>2. CASE Fail
  BY <1>1, <1>2, Failing
<1>3. CASE ~Fail
  <2>1. PICK p, loaded, i :
          /\ p = Head(todo) /\ loaded = item_classes(p, "Tool")
          /\ i = Len(configuration["tools"]) - Len(todo) + 1
          /\ configuration' = [configuration EXCEPT !["tools"][i] = with_runtime(p, loaded)]
          /\ todo' = Tail(todo) /\ stage' = stage
    BY <1>3 DEF _resolve_tool_providers
  <2>2. /\ kind \in DOMAIN Index /\ Configured(configuration) /\ plugin \in Plugins
        /\ todo \in Seq(Declarable("tools")) /\ Left(todo, configuration["tools"])
    BY <1>1 DEF Registered
  <2>3. PICK c0, c : c0 = configuration /\ c = configuration'
    OBVIOUS
  <2>4. PICK s \in Seq(Declarable("tools")) : s = c0["tools"]
    BY <1>1, <2>2, <2>3 DEF Configured
  <2>5. /\ Tail(todo) \in Seq(Declarable("tools")) /\ Left(Tail(todo), s)
        /\ i \in DOMAIN s /\ p = s[i] /\ i = Len(s) - Len(Tail(todo))
    BY <1>1, <2>1, <2>2, <2>3, <2>4, NextLeft
  <2>6. PICK r \in Declarable("tools") : r = with_runtime(p, loaded)
    <3>1. p \in Declarable("tools")
      BY <2>5
    <3>2. DOMAIN loaded = DOMAIN p.items
      BY <2>1 DEF item_classes
    <3> QED
      BY <2>2, <3>1, <3>2, ToolRedeclared
  <2>7. PICK u : u = [s EXCEPT ![i] = r]
    OBVIOUS
  <2>8. /\ u \in Seq(Declarable("tools")) /\ Len(u) = Len(s)
        /\ \A j \in DOMAIN s : j # i => u[j] = s[j]
    BY <2>5, <2>7
  <2>9. c = [k \in DOMAIN Index |-> IF k = "tools" THEN u ELSE c0[k]]
    <3>1. c = [c0 EXCEPT !["tools"] = [s EXCEPT ![i] = r]]
      BY <2>1, <2>3, <2>4, <2>6
    <3>2. DOMAIN c0 = DOMAIN Index
      BY <2>2, <2>3 DEF Configured
    <3> QED
      BY <2>7, <3>1, <3>2
  <2>10. c["tools"] = u
    BY <1>1, <2>2, <2>9
  <2>11. Configured(c)
    <3>1. \A k \in DOMAIN Index : c[k] \in Seq(Declarable(k))
      BY <2>2, <2>3, <2>8, <2>9 DEF Configured
    <3>2. c = [k \in DOMAIN Index |-> c[k]]
      BY <2>9
    <3> QED
      BY <3>1, <3>2 DEF Configured
  <2>12. Left(Tail(todo), u)
    <3>1. PICK t \in Seq(Declarable("tools")) : t = Tail(todo)
      BY <2>5
    <3>2. Len(t) <= Len(u) /\ i = Len(u) - Len(t) /\ Len(t) \in Nat /\ Len(u) \in Nat
      BY <2>5, <2>8, <3>1 DEF Left
    <3>3. ASSUME NEW j \in 1 .. Len(t) PROVE t[j] = u[Len(u) - Len(t) + j]
      <4>1. Len(u) - Len(t) + j \in DOMAIN s /\ Len(u) - Len(t) + j # i
        BY <2>8, <3>2
      <4>2. t[j] = s[Len(u) - Len(t) + j]
        BY <2>5, <2>8, <3>1 DEF Left
      <4> QED
        BY <2>8, <4>1, <4>2
    <3> QED
      BY <3>1, <3>2, <3>3 DEF Left
  <2>13. Configured(configuration)'
    BY <1>1, <2>3, <2>11, SameDirectory DEF Configured
  <2> QED
    BY <1>1, <2>1, <2>2, <2>3, <2>5, <2>10, <2>12, <2>13, SameDirectory DEF Registered
<1> QED
  BY <1>2, <1>3

(***************************************************************************)
(* ... the others, ...                                                     *)
(***************************************************************************)
LEMMA OthersResolved ==
  ASSUME Registered,
         \/ _resolve_model_providers \/ _resolve_endpoints \/ _resolve_agent_providers
         \/ _resolve_datasource_providers \/ _resolve_trigger_providers
  PROVE  Registered'
<1>1. /\ stage = "resolve" /\ todo # <<>>
      /\ plugin' = plugin /\ kind' = kind
      /\ \/ Fail
         \/ configuration' = configuration /\ todo' = Tail(todo) /\ stage' = stage
  <2>1. CASE _resolve_model_providers
    BY <2>1 DEF _resolve_model_providers, Resolving
  <2>2. CASE _resolve_endpoints
    BY <2>2 DEF _resolve_endpoints, Resolving
  <2>3. CASE _resolve_agent_providers
    BY <2>3 DEF _resolve_agent_providers, Resolving
  <2>4. CASE _resolve_datasource_providers
    BY <2>4 DEF _resolve_datasource_providers, Resolving
  <2>5. CASE _resolve_trigger_providers
    BY <2>5 DEF _resolve_trigger_providers, Resolving
  <2> QED
    BY <2>1, <2>2, <2>3, <2>4, <2>5
<1>2. CASE Fail
  BY <1>1, <1>2, Failing
<1>3. CASE configuration' = configuration /\ todo' = Tail(todo) /\ stage' = stage
  BY <1>1, <1>3, ProviderDone
<1> QED
  BY <1>1, <1>2, <1>3

(***************************************************************************)
(* ... and the next kind.                                                  *)
(***************************************************************************)
LEMMA KindResolved ==
  ASSUME Registered, _resolve_plugin_cls PROVE Registered'
<1>1. /\ stage = "resolve" /\ plugin' = plugin /\ configuration' = configuration
  BY DEF _resolve_plugin_cls
<1>2. kind \in DOMAIN Index /\ Configured(configuration)
  BY DEF Registered
<1>3. Configured(configuration)'
  BY <1>1, <1>2, SameDirectory DEF Configured
<1>4. CASE kind = "triggers"
  BY <1>1, <1>2, <1>3, <1>4 DEF _resolve_plugin_cls, Registered, Stages
<1>5. CASE kind # "triggers"
  <2>1. kind' = NextKind /\ todo' = configuration[NextKind] /\ stage' = stage
    BY <1>5 DEF _resolve_plugin_cls
  <2>2. NextKind \in DOMAIN Index
    BY <1>2, <1>5, KindAfter
  <2>3. configuration[NextKind] \in Seq(Declarable(NextKind))
    BY <1>2, <2>2 DEF Configured
  <2>4. Left(configuration[NextKind], configuration[NextKind])
    BY <2>3 DEF Left
  <2> QED
    BY <1>1, <1>3, <2>1, <2>2, <2>3, <2>4, SameDirectory DEF Registered
<1> QED
  BY <1>4, <1>5

(***************************************************************************)
(* The assets and the connection.                                          *)
(***************************************************************************)
LEMMA Connecting ==
  ASSUME Registered, _load_plugin_assets \/ _initialize_tcp_stream PROVE Registered'
<1>1. /\ plugin' = plugin /\ configuration' = configuration /\ kind' = kind
      /\ stage' \in {"connect", "serving", "failed"}
  BY DEF _load_plugin_assets, _initialize_tcp_stream, Fail
<1>2. Configured(configuration)'
  BY <1>1, SameDirectory DEF Configured, Registered
<1> QED
  BY <1>1, <1>2 DEF Registered, Stages

(***************************************************************************)
(* What starts the plugin keeps to it.                                     *)
(***************************************************************************)
LEMMA StartingKeeps ==
  ASSUME Registered, Starting PROVE Registered'
BY Reading, ToolsResolved, OthersResolved, KindResolved, Connecting DEF Starting

-----------------------------------------------------------------------------
(* The tables.                                                             *)

(***************************************************************************)
(* A dictionary of a provider's own classes.                               *)
(***************************************************************************)
ItemsOwn(t, base, name) == \A n \in DOMAIN t : Own(t[n], base, name)

(***************************************************************************)
(* The tables hold, of each provider, classes of its own: tools, ...       *)
(***************************************************************************)
ToolsOwn ==
  \A n \in DOMAIN tools :
    Own(tools[n].cls, "ToolProvider", n) /\ ItemsOwn(tools[n].items, "Tool", n)

(***************************************************************************)
(* ... models, ...                                                         *)
(***************************************************************************)
ModelsOwn ==
  \A n \in DOMAIN models :
    /\ Own(models[n].instance, "ModelProvider", n) /\ ItemsOwn(models[n].types, "AIModel", n)
    /\ \A t \in DOMAIN models[n].types : models[n].types[t] \in Classes

(***************************************************************************)
(* ... strategies, ...                                                     *)
(***************************************************************************)
AgentsOwn == \A n \in DOMAIN agents : ItemsOwn(agents[n], "AgentStrategy", n)

(***************************************************************************)
(* ... datasources, each in the table of its type, ...                     *)
(***************************************************************************)
DatasourcesOwn ==
  \A n \in DOMAIN datasources :
    /\ Own(datasources[n].cls, "DatasourceProvider", n)
    /\ \A t \in DOMAIN DatasourceBase :
         ItemsOwn(datasources[n].items[t], DatasourceBase[t], n)

(***************************************************************************)
(* ... triggers, their events and constructors, ...                        *)
(***************************************************************************)
TriggersOwn ==
  \A n \in DOMAIN triggers :
    /\ Own(triggers[n].cls, "Trigger", n) /\ ItemsOwn(triggers[n].events, "Event", n)
    /\ \/ triggers[n].constructor = None
       \/ Own(triggers[n].constructor, "TriggerSubscriptionConstructor", n)

(***************************************************************************)
(* ... and of each path a class of the source that was declared with it.   *)
(***************************************************************************)
DeclaredWith(c, path) ==
  \E p \in Elements(configuration["endpoints"]) : \E i \in DOMAIN p.items :
    p.items[i].name = path /\ c \in Elements(plugin.modules[p.items[i].source])

EndpointsOwn ==
  /\ \E S : endpoints \in Seq(S)
  /\ \A i \in DOMAIN endpoints :
       /\ "Endpoint" \in endpoints[i].cls.bases
       /\ DeclaredWith(endpoints[i].cls, endpoints[i].path)
  /\ stage \in {"manifest", "read"} => endpoints = <<>>

TablesOwn == ToolsOwn /\ ModelsOwn /\ AgentsOwn /\ DatasourcesOwn /\ TriggersOwn /\ EndpointsOwn

(***************************************************************************)
(* The provider that is entered.                                           *)
(***************************************************************************)
LEMMA NextProvider ==
  ASSUME Registered, NEW k, Resolving(k)
  PROVE  Head(todo) \in Declarable(k) /\ Sound(Head(todo)) /\ plugin \in Plugins
<1>1. todo \in Seq(Declarable(k)) /\ todo # <<>>
  BY DEF Registered, Resolving
<1>2. Head(todo) \in Declarable(k)
  BY <1>1, HeadTailProperties
<1> QED
  BY <1>2 DEF Declarable, Registered

(***************************************************************************)
(* Entering a tool provider, ...                                           *)
(***************************************************************************)
LEMMA ToolsOwnKept ==
  ASSUME Registered, ToolsOwn, _resolve_tool_providers PROVE ToolsOwn'
<1>1. Resolving("tools")
  BY DEF _resolve_tool_providers
<1>2. PICK p : p = Head(todo) /\ Sound(p) /\ plugin \in Plugins
  BY <1>1, NextProvider
<1>3. PICK cls, loaded :
        cls = load_single_subclass(p.source, "ToolProvider") /\ loaded = item_classes(p, "Tool")
  OBVIOUS
<1>4. CASE cls = None \/ None \in Elements(loaded)
  BY <1>2, <1>3, <1>4 DEF _resolve_tool_providers, Fail, tables, ToolsOwn
<1>5. CASE ~(cls = None \/ None \in Elements(loaded))
  <2>1. PICK v : /\ v.cls = cls /\ v.items = by_name(p.items, loaded)
                 /\ tools' = Put(tools, p.name, v)
    BY <1>2, <1>3, <1>5 DEF _resolve_tool_providers
  <2>2. Own(v.cls, "ToolProvider", p.name)
    BY <1>2, <1>3, <1>5, <2>1, Loaded DEF SourcesOf
  <2>3. ItemsOwn(v.items, "Tool", p.name)
    BY <1>2, <1>3, <1>5, <2>1, ItemsLoaded DEF ItemsOwn
  <2>8. PICK f, g : f = tools /\ g = tools' /\ g = Put(f, p.name, v)
    BY <2>1
  <2>9. /\ DOMAIN g = {p.name} \cup DOMAIN f /\ g[p.name] = v
        /\ \A m \in DOMAIN f : m # p.name => g[m] = f[m]
    BY <2>8 DEF Put
  <2> QED
    BY <2>2, <2>3, <2>8, <2>9 DEF ToolsOwn
<1> QED
  BY <1>4, <1>5

(***************************************************************************)
(* ... a model provider, ...                                               *)
(***************************************************************************)
LEMMA ModelsOwnKept ==
  ASSUME Registered, ModelsOwn, _resolve_model_providers PROVE ModelsOwn'
<1>1. Resolving("models")
  BY DEF _resolve_model_providers
<1>2. PICK p : p = Head(todo) /\ Sound(p) /\ plugin \in Plugins
  BY <1>1, NextProvider
<1>3. PICK cls : cls = load_single_subclass(p.source, "ModelProvider")
  OBVIOUS
<1>4. CASE cls = None \/ \E i \in DOMAIN p.items : import_fails(p.items[i].source)
  BY <1>2, <1>3, <1>4 DEF _resolve_model_providers, Fail, tables, ModelsOwn
<1>5. CASE ~(cls = None \/ \E i \in DOMAIN p.items : import_fails(p.items[i].source))
  <2>1. PICK v : /\ v.instance = cls /\ v.types = model_classes(p)
                 /\ models' = Put(models, p.name, v)
    BY <1>2, <1>3, <1>5 DEF _resolve_model_providers
  <2>2. Own(v.instance, "ModelProvider", p.name)
    BY <1>2, <1>3, <1>5, <2>1, Loaded DEF SourcesOf
  <2>3. /\ ItemsOwn(v.types, "AIModel", p.name)
        /\ \A t \in DOMAIN v.types : v.types[t] \in Classes
    BY <1>2, <1>5, <2>1, ModelsLoaded DEF ItemsOwn
  <2>8. PICK f, g : f = models /\ g = models' /\ g = Put(f, p.name, v)
    BY <2>1
  <2>9. /\ DOMAIN g = {p.name} \cup DOMAIN f /\ g[p.name] = v
        /\ \A m \in DOMAIN f : m # p.name => g[m] = f[m]
    BY <2>8 DEF Put
  <2> QED
    BY <2>2, <2>3, <2>8, <2>9 DEF ModelsOwn
<1> QED
  BY <1>4, <1>5

(***************************************************************************)
(* ... a provider of strategies, ...                                       *)
(***************************************************************************)
LEMMA AgentsOwnKept ==
  ASSUME Registered, AgentsOwn, _resolve_agent_providers PROVE AgentsOwn'
<1>1. Resolving("agent_strategies")
  BY DEF _resolve_agent_providers
<1>2. PICK p : p = Head(todo) /\ Sound(p) /\ plugin \in Plugins
  BY <1>1, NextProvider
<1>3. PICK loaded : loaded = item_classes(p, "AgentStrategy")
  OBVIOUS
<1>4. CASE None \in Elements(loaded)
  BY <1>2, <1>3, <1>4 DEF _resolve_agent_providers, Fail, tables, AgentsOwn
<1>5. CASE None \notin Elements(loaded)
  <2>1. PICK v : v = by_name(p.items, loaded) /\ agents' = Put(agents, p.name, v)
    BY <1>2, <1>3, <1>5 DEF _resolve_agent_providers
  <2>2. ItemsOwn(v, "AgentStrategy", p.name)
    BY <1>2, <1>3, <1>5, <2>1, ItemsLoaded DEF ItemsOwn
  <2>8. PICK f, g : f = agents /\ g = agents' /\ g = Put(f, p.name, v)
    BY <2>1
  <2>9. /\ DOMAIN g = {p.name} \cup DOMAIN f /\ g[p.name] = v
        /\ \A m \in DOMAIN f : m # p.name => g[m] = f[m]
    BY <2>8 DEF Put
  <2> QED
    BY <2>2, <2>8, <2>9 DEF AgentsOwn
<1> QED
  BY <1>4, <1>5

(***************************************************************************)
(* ... of datasources, ...                                                 *)
(***************************************************************************)
LEMMA DatasourcesOwnKept ==
  ASSUME Registered, DatasourcesOwn, _resolve_datasource_providers PROVE DatasourcesOwn'
<1>1. Resolving("datasources")
  BY DEF _resolve_datasource_providers
<1>2. PICK p : p = Head(todo) /\ Sound(p) /\ plugin \in Plugins
  BY <1>1, NextProvider
<1>3. PICK cls, base, loaded :
        /\ cls = load_single_subclass(p.source, "DatasourceProvider")
        /\ base = DatasourceBase[p.type] /\ loaded = item_classes(p, base)
  OBVIOUS
<1>4. CASE cls = None \/ None \in Elements(loaded)
  BY <1>2, <1>3, <1>4 DEF _resolve_datasource_providers, Fail, tables, DatasourcesOwn
<1>5. CASE ~(cls = None \/ None \in Elements(loaded))
  <2>1. PICK v : /\ v.cls = cls
                 /\ v.items = [t \in DOMAIN DatasourceBase |->
                                 IF t = p.type THEN by_name(p.items, loaded) ELSE Empty]
                 /\ datasources' = Put(datasources, p.name, v)
    BY <1>2, <1>3, <1>5 DEF _resolve_datasource_providers
  <2>2. Own(v.cls, "DatasourceProvider", p.name)
    BY <1>2, <1>3, <1>5, <2>1, Loaded DEF SourcesOf
  <2>3. ItemsOwn(by_name(p.items, loaded), base, p.name)
    BY <1>2, <1>3, <1>5, <2>1, ItemsLoaded DEF ItemsOwn
  <2>4. \A b : ItemsOwn(Empty, b, p.name)
    BY DEF ItemsOwn, Empty
  <2>5. \A t \in DOMAIN DatasourceBase : ItemsOwn(v.items[t], DatasourceBase[t], p.name)
    BY <1>3, <2>1, <2>3, <2>4, Zenon
  <2>8. PICK f, g : f = datasources /\ g = datasources' /\ g = Put(f, p.name, v)
    BY <2>1
  <2>9. /\ DOMAIN g = {p.name} \cup DOMAIN f /\ g[p.name] = v
        /\ \A m \in DOMAIN f : m # p.name => g[m] = f[m]
    BY <2>8 DEF Put
  <2> QED
    BY <2>2, <2>5, <2>8, <2>9 DEF DatasourcesOwn
<1> QED
  BY <1>4, <1>5

(***************************************************************************)
(* ... a trigger, ...                                                      *)
(***************************************************************************)
LEMMA TriggersOwnKept ==
  ASSUME Registered, TriggersOwn, _resolve_trigger_providers PROVE TriggersOwn'
<1>1. Resolving("triggers")
  BY DEF _resolve_trigger_providers
<1>2. PICK p : p = Head(todo) /\ Sound(p) /\ plugin \in Plugins
  BY <1>1, NextProvider
<1>3. PICK cls, loaded, constructor :
        /\ cls = load_single_subclass(p.source, "Trigger")
        /\ loaded = item_classes(p, "Event")
        /\ constructor = load_single_subclass(constructor_source(p),
                                              "TriggerSubscriptionConstructor")
  OBVIOUS
<1>4. CASE triggers' = triggers
  BY <1>4 DEF TriggersOwn
<1>5. CASE triggers' # triggers
  <2>0. ~Fail
    BY <1>5 DEF Fail, tables
  <2>1. PICK v : /\ v.cls = cls /\ v.constructor = constructor
                 /\ v.events = by_name(p.items, loaded)
                 /\ cls # None /\ None \notin Elements(loaded)
                 /\ triggers' = Put(triggers, p.name, v)
    BY <1>2, <1>3, <2>0 DEF _resolve_trigger_providers
  <2>2. Own(v.cls, "Trigger", p.name)
    BY <1>2, <1>3, <2>1, Loaded DEF SourcesOf
  <2>3. ItemsOwn(v.events, "Event", p.name)
    BY <1>2, <1>3, <2>1, ItemsLoaded DEF ItemsOwn
  <2>4. v.constructor = None \/ Own(v.constructor, "TriggerSubscriptionConstructor", p.name)
    <3>1. constructor_source(p) \in SourcesOf(p)
      BY DEF constructor_source, SourcesOf
    <3> QED
      BY <1>2, <1>3, <2>1, <3>1, Loaded
  <2>8. PICK f, g : f = triggers /\ g = triggers' /\ g = Put(f, p.name, v)
    BY <2>1
  <2>9. /\ DOMAIN g = {p.name} \cup DOMAIN f /\ g[p.name] = v
        /\ \A m \in DOMAIN f : m # p.name => g[m] = f[m]
    BY <2>8 DEF Put
  <2> QED
    BY <2>2, <2>3, <2>4, <2>8, <2>9 DEF TriggersOwn
<1> QED
  BY <1>4, <1>5

(***************************************************************************)
(* ... or endpoints.                                                       *)
(***************************************************************************)
LEMMA EndpointsOwnKept ==
  ASSUME Registered, EndpointsOwn, _resolve_endpoints PROVE EndpointsOwn'
<1>1. Resolving("endpoints") /\ plugin' = plugin /\ configuration' = configuration
  BY DEF _resolve_endpoints, Fail
<1>2. PICK p : p = Head(todo) /\ Sound(p) /\ plugin \in Plugins /\ p \in Declarable("endpoints")
  BY <1>1, NextProvider
<1>3. PICK loaded : loaded = item_classes(p, "Endpoint")
  OBVIOUS
<1>0. \A c, path : DeclaredWith(c, path)' <=> DeclaredWith(c, path)
  BY <1>1 DEF DeclaredWith
<1>4. CASE None \in Elements(loaded)
  <2>1. endpoints' = endpoints /\ stage' = "failed"
    BY <1>2, <1>3, <1>4 DEF _resolve_endpoints, Fail, tables
  <2> QED
    BY <1>0, <2>1 DEF EndpointsOwn
<1>5. CASE None \notin Elements(loaded)
  <2>1. PICK v : /\ v = [i \in DOMAIN loaded |-> [path |-> p.items[i].name, cls |-> loaded[i]]]
                 /\ endpoints' = endpoints \o v /\ stage' = stage
    BY <1>2, <1>3, <1>5 DEF _resolve_endpoints
  <2>2. PICK m \in Nat : DOMAIN p.items = 1 .. m
    BY <1>2 DEF Declarable, Providers
  <2>3. DOMAIN loaded = 1 .. m
    BY <1>3, <2>2 DEF item_classes
  <2>4. PICK T : T = {v[i] : i \in 1 .. m}
    OBVIOUS
  <2>5. v \in Seq(T) /\ Len(v) = m
    <3>1. v = [i \in 1 .. m |-> v[i]]
      BY <2>1, <2>3
    <3>2. v \in [1 .. m -> T]
      BY <2>4, <3>1
    <3> QED
      BY <3>1, <3>2
  <2>6. PICK S : endpoints \in Seq(S)
    BY DEF EndpointsOwn
  <2>7. PICK n \in Nat : n = Len(endpoints)
    BY <2>6
  <2>8. PICK e \in Seq(S \cup T) :
          /\ e = endpoints \o v /\ Len(e) = n + m
          /\ \A i \in 1 .. n : e[i] = endpoints[i]
          /\ \A i \in n + 1 .. n + m : e[i] = v[i - n]
    <3>1. endpoints \in Seq(S \cup T) /\ v \in Seq(S \cup T)
      BY <2>5, <2>6
    <3>2. PICK a \in Seq(S \cup T) : a = endpoints
      BY <3>1
    <3>3. /\ a \o v \in Seq(S \cup T) /\ Len(a \o v) = Len(a) + Len(v)
          /\ \A i \in 1 .. Len(a) : (a \o v)[i] = a[i]
          /\ \A i \in Len(a) + 1 .. Len(a) + Len(v) : (a \o v)[i] = v[i - Len(a)]
      BY <3>1
    <3> QED
      BY <2>5, <2>7, <3>2, <3>3
  <2>9. p \in Elements(configuration["endpoints"])
    <3>1. /\ configuration["endpoints"] \in Seq(Declarable("endpoints"))
          /\ todo \in Seq(Declarable("endpoints")) /\ Left(todo, configuration["endpoints"])
          /\ todo # <<>>
      BY <1>1 DEF Registered, Resolving, Configured
    <3> QED
      BY <1>2, <3>1, NextLeft DEF Elements
  <2>10. ASSUME NEW i \in 1 .. m
         PROVE  "Endpoint" \in v[i].cls.bases /\ DeclaredWith(v[i].cls, v[i].path)
    <3>1. v[i].path = p.items[i].name /\ v[i].cls = loaded[i]
      BY <2>1, <2>3
    <3>2. loaded[i] = load_single_subclass(p.items[i].source, "Endpoint") /\ loaded[i] # None
      BY <1>3, <1>5, <2>2, <2>3 DEF item_classes, Elements
    <3>3. p.items[i].source \in SourcesOf(p)
      BY <2>2 DEF SourcesOf
    <3>4. /\ loaded[i] \in Elements(plugin.modules[p.items[i].source])
          /\ Own(loaded[i], "Endpoint", p.name)
      BY <1>2, <3>2, <3>3, Loaded
    <3> QED
      BY <2>2, <2>9, <3>1, <3>4 DEF DeclaredWith, Own
  <2>11. ASSUME NEW i \in DOMAIN e
         PROVE  "Endpoint" \in e[i].cls.bases /\ DeclaredWith(e[i].cls, e[i].path)
    <3>1. CASE i \in 1 .. n
      <4>1. i \in DOMAIN endpoints /\ e[i] = endpoints[i]
        BY <2>6, <2>7, <2>8, <3>1
      <4> QED
        BY <4>1 DEF EndpointsOwn
    <3>2. CASE i \notin 1 .. n
      <4>1. i \in n + 1 .. n + m /\ i - n \in 1 .. m
        BY <2>8, <3>2
      <4> QED
        BY <2>8, <2>10, <4>1
    <3> QED
      BY <3>1, <3>2
  <2>12. stage' = "resolve"
    BY <1>1, <2>1 DEF Resolving
  <2> QED
    BY <1>0, <2>1, <2>8, <2>11, <2>12 DEF EndpointsOwn
<1> QED
  BY <1>4, <1>5

(***************************************************************************)
(* Each table has one action that changes it; the declarations of the      *)
(* endpoints do not change once they have been read.                       *)
(***************************************************************************)
LEMMA OneTable ==
  ASSUME Starting
  PROVE  /\ _resolve_tool_providers \/ UNCHANGED tools
         /\ _resolve_model_providers \/ UNCHANGED models
         /\ _resolve_agent_providers \/ UNCHANGED agents
         /\ _resolve_datasource_providers \/ UNCHANGED datasources
         /\ _resolve_trigger_providers \/ UNCHANGED triggers
         /\ \/ _resolve_endpoints
            \/ /\ UNCHANGED <<plugin, endpoints>>
               /\ stage' \in {"manifest", "read"} => stage \in {"manifest", "read"}
               /\ \/ stage \in {"manifest", "read"}
                  \/ configuration'["endpoints"] = configuration["endpoints"]
<1>1. CASE LoadProvider
  BY <1>1 DEF LoadProvider, Fail, tables
<1>0. CASE LoadManifest
  BY <1>0 DEF LoadManifest, Fail, tables
<1>2. CASE LoadedKind
  BY <1>2 DEF LoadedKind, tables
<1>3. CASE _resolve_tool_providers
  <2>1. CASE Fail
    BY <1>3, <2>1 DEF _resolve_tool_providers, Fail, tables
  <2>2. CASE ~Fail
    <3>1. /\ UNCHANGED <<plugin, stage, models, endpoints, agents, datasources, triggers>>
          /\ \E i, r : configuration' = [configuration EXCEPT !["tools"][i] = r]
      BY <1>3, <2>2 DEF _resolve_tool_providers
    <3>2. configuration'["endpoints"] = configuration["endpoints"]
      BY <3>1
    <3> QED
      BY <1>3, <3>1, <3>2
  <2> QED
    BY <2>1, <2>2
<1>4. CASE _resolve_model_providers
  BY <1>4 DEF _resolve_model_providers, Fail, tables
<1>5. CASE _resolve_endpoints
  BY <1>5 DEF _resolve_endpoints, Fail, tables
<1>6. CASE _resolve_agent_providers
  BY <1>6 DEF _resolve_agent_providers, Fail, tables
<1>7. CASE _resolve_datasource_providers
  BY <1>7 DEF _resolve_datasource_providers, Fail, tables
<1>8. CASE _resolve_trigger_providers
  BY <1>8 DEF _resolve_trigger_providers, Fail, tables
<1>9. CASE _resolve_plugin_cls
  BY <1>9 DEF _resolve_plugin_cls, tables
<1>10. CASE _load_plugin_assets \/ _initialize_tcp_stream
  BY <1>10 DEF _load_plugin_assets, _initialize_tcp_stream, Fail, tables
<1> QED
  BY <1>0, <1>1, <1>2, <1>3, <1>4, <1>5, <1>6, <1>7, <1>8, <1>9, <1>10 DEF Starting

(***************************************************************************)
(* What starts the plugin enters its own classes.                          *)
(***************************************************************************)
LEMMA TablesKept ==
  ASSUME Registered, TablesOwn, Starting PROVE TablesOwn'
<1>1. ToolsOwn'
  <2>1. CASE UNCHANGED tools
    BY <2>1 DEF TablesOwn, ToolsOwn
  <2> QED
    BY <2>1, OneTable, ToolsOwnKept DEF TablesOwn
<1>2. ModelsOwn'
  <2>1. CASE UNCHANGED models
    BY <2>1 DEF TablesOwn, ModelsOwn
  <2> QED
    BY <2>1, OneTable, ModelsOwnKept DEF TablesOwn
<1>3. AgentsOwn'
  <2>1. CASE UNCHANGED agents
    BY <2>1 DEF TablesOwn, AgentsOwn
  <2> QED
    BY <2>1, OneTable, AgentsOwnKept DEF TablesOwn
<1>4. DatasourcesOwn'
  <2>1. CASE UNCHANGED datasources
    BY <2>1 DEF TablesOwn, DatasourcesOwn
  <2> QED
    BY <2>1, OneTable, DatasourcesOwnKept DEF TablesOwn
<1>5. TriggersOwn'
  <2>1. CASE UNCHANGED triggers
    BY <2>1 DEF TablesOwn, TriggersOwn
  <2> QED
    BY <2>1, OneTable, TriggersOwnKept DEF TablesOwn
<1>6. EndpointsOwn'
  <2>1. CASE /\ UNCHANGED <<plugin, endpoints>>
             /\ stage' \in {"manifest", "read"} => stage \in {"manifest", "read"}
             /\ \/ stage \in {"manifest", "read"}
                \/ configuration'["endpoints"] = configuration["endpoints"]
    <3>1. CASE stage \in {"manifest", "read"}
      <4>1. endpoints' = <<>>
        BY <2>1, <3>1 DEF TablesOwn, EndpointsOwn
      <4>2. endpoints' \in Seq({}) /\ DOMAIN endpoints' = {}
        BY <4>1, EmptySeq
      <4> QED
        BY <4>1, <4>2 DEF EndpointsOwn
    <3>2. CASE stage \notin {"manifest", "read"}
      <4>1. \A c, path : DeclaredWith(c, path)' <=> DeclaredWith(c, path)
        BY <2>1, <3>2 DEF DeclaredWith
      <4> QED
        BY <2>1, <3>2, <4>1 DEF TablesOwn, EndpointsOwn
    <3> QED
      BY <3>1, <3>2
  <2> QED
    BY <2>1, OneTable, EndpointsOwnKept DEF TablesOwn
<1> QED
  BY <1>1, <1>2, <1>3, <1>4, <1>5, <1>6 DEF TablesOwn

(***************************************************************************)
(* The tables are empty at first.                                          *)
(***************************************************************************)
LEMMA NothingRegistered ==
  ASSUME RegistrationInit PROVE TablesOwn
<1>1. DOMAIN Empty = {}
  BY DEF Empty
<1>2. endpoints \in Seq({}) /\ DOMAIN endpoints = {} /\ endpoints = <<>>
  BY EmptySeq DEF RegistrationInit
<1> QED
  BY <1>1, <1>2 DEF RegistrationInit, TablesOwn, ToolsOwn, ModelsOwn, AgentsOwn, DatasourcesOwn,
                    TriggersOwn, EndpointsOwn

-----------------------------------------------------------------------------
(* The code that a program calls.                                          *)

(***************************************************************************)
(* Code that may run for a request, as RightCode says.                     *)
(***************************************************************************)
Right(c, q) == WrittenForRequest(c, q) /\ c.bases \cap InterfacesOf(q) # {}

(***************************************************************************)
(* All the code that a program calls.                                      *)
(***************************************************************************)
Calls(q, p) ==
  /\ \E S : p \in Seq(S)
  /\ \A i \in DOMAIN p : p[i].do \in {"run", "caught", "stream"} => Right(p[i].code, q)

(***************************************************************************)
(* A program of one step, ...                                              *)
(***************************************************************************)
LEMMA CallsOne ==
  ASSUME NEW q, NEW x, x.do \in {"run", "caught", "stream"} => Right(x.code, q)
  PROVE  Calls(q, <<x>>)
<1>1. PICK p : p = <<x>>
  OBVIOUS
<1>2. p \in Seq({x}) /\ \A i \in DOMAIN p : p[i] = x
  BY <1>1
<1>3. Calls(q, p)
  BY <1>2 DEF Calls
<1> QED
  BY <1>1, <1>3

(***************************************************************************)
(* ... of none, ...                                                        *)
(***************************************************************************)
LEMMA CallsNone ==
  ASSUME NEW q PROVE Calls(q, <<>>)
<1>1. PICK p : p = <<>>
  OBVIOUS
<1>2. p \in Seq({}) /\ DOMAIN p = {}
  BY <1>1, EmptySeq
<1>3. Calls(q, p)
  BY <1>2 DEF Calls
<1> QED
  BY <1>1, <1>3

(***************************************************************************)
(* ... and of two programs.                                                *)
(***************************************************************************)
LEMMA CallsBoth ==
  ASSUME NEW q, NEW p, NEW r, Calls(q, p), Calls(q, r)
  PROVE  Calls(q, p \o r)
<1>1. PICK S1 : p \in Seq(S1)
  BY DEF Calls
<1>2. PICK S2 : r \in Seq(S2)
  BY DEF Calls
<1>3. p \in Seq(S1 \cup S2) /\ r \in Seq(S1 \cup S2)
  BY <1>1, <1>2
<1>4. PICK pr : pr = p \o r
  OBVIOUS
<1>5. PICK m \in Nat, n \in Nat : m = Len(p) /\ n = Len(r)
  BY <1>3
<1>6. /\ pr \in Seq(S1 \cup S2) /\ Len(pr) = m + n
      /\ DOMAIN p = 1 .. m /\ DOMAIN r = 1 .. n /\ DOMAIN pr = 1 .. m + n
      /\ \A i \in 1 .. m : pr[i] = p[i]
      /\ \A i \in m + 1 .. m + n : pr[i] = r[i - m]
  BY <1>3, <1>4, <1>5
<1>7. ASSUME NEW i \in DOMAIN pr, pr[i].do \in {"run", "caught", "stream"}
      PROVE  Right(pr[i].code, q)
  <2>1. CASE i <= m
    BY <1>6, <1>7, <2>1 DEF Calls
  <2>2. CASE ~(i <= m)
    <3>1. i \in m + 1 .. m + n /\ i - m \in DOMAIN r
      BY <1>6, <2>2
    <3> QED
      BY <1>6, <1>7, <3>1 DEF Calls
  <2> QED
    BY <2>1, <2>2
<1>8. Calls(q, pr)
  BY <1>6, <1>7 DEF Calls
<1> QED
  BY <1>4, <1>8

(***************************************************************************)
(* Steps that call nothing.                                                *)
(***************************************************************************)
LEMMA CallsPlain ==
  ASSUME NEW q
  PROVE  /\ Calls(q, <<Return>>) /\ Calls(q, Fails) /\ Calls(q, <<EndWith>>)
         /\ \A x : Calls(q, <<Yield(x)>>)
         /\ \A k, c : Calls(q, <<With(k, c)>>)
<1>1. Calls(q, <<Return>>)
  BY CallsOne DEF Return, Step
<1>2. Calls(q, Fails)
  BY CallsOne DEF Fails, Step
<1>3. Calls(q, <<EndWith>>)
  BY CallsOne DEF EndWith, Step
<1>4. \A x : Calls(q, <<Yield(x)>>)
  <2>1. TAKE x
  <2>2. PICK y : y = Yield(x)
    OBVIOUS
  <2>3. y.do = "yield"
    BY <2>2 DEF Yield, Step
  <2> QED
    BY <2>2, <2>3, CallsOne
<1>5. \A k, c : Calls(q, <<With(k, c)>>)
  <2>1. TAKE k, c
  <2>2. PICK y : y = With(k, c)
    OBVIOUS
  <2>3. y.do = "with"
    BY <2>2 DEF With, Step
  <2> QED
    BY <2>2, <2>3, CallsOne
<1> QED
  BY <1>1, <1>2, <1>3, <1>4, <1>5

(***************************************************************************)
(* What surrounds a program calls nothing either.                          *)
(***************************************************************************)
LEMMA CallsAround ==
  ASSUME NEW q, NEW p, Calls(q, p)
  PROVE  /\ \A k, c : Calls(q, <<With(k, c)>> \o p \o <<EndWith>>)
         /\ Calls(q, Generating(p)) /\ Calls(q, use_current_session(p))
         /\ \A m : Calls(q, timing_context(m, p))
         /\ Calls(q, p \o <<Return>>)
<1>1. \A k, c : Calls(q, <<With(k, c)>> \o p \o <<EndWith>>)
  <2>1. TAKE k, c
  <2>2. Calls(q, <<With(k, c)>> \o p)
    BY CallsBoth, CallsPlain
  <2> QED
    BY <2>2, CallsBoth, CallsPlain
<1>2. Calls(q, p \o <<Return>>)
  BY CallsBoth, CallsPlain
<1> QED
  BY <1>1, <1>2 DEF Generating, use_current_session, timing_context

(***************************************************************************)
(* Steps that call a class.                                                *)
(***************************************************************************)
LEMMA CallsCode ==
  ASSUME NEW q, NEW c, Right(c, q)
  PROVE  /\ \A hook : Calls(q, <<Run(c, hook)>>)
         /\ \A hook : Calls(q, <<Caught(c, hook)>>)
         /\ \A hook, x : Calls(q, <<Stream(c, hook, x)>>)
         /\ \A hook : Calls(q, Optional(c, hook))
         /\ Calls(q, AIModel_get_model_schema(c))
<1>1. \A hook : Calls(q, <<Run(c, hook)>>)
  <2>1. TAKE hook
  <2>2. PICK y : y = Run(c, hook)
    OBVIOUS
  <2>3. y.code = c
    BY <2>2 DEF Run, Step
  <2> QED
    BY <2>2, <2>3, CallsOne
<1>2. \A hook : Calls(q, <<Caught(c, hook)>>)
  <2>1. TAKE hook
  <2>2. PICK y : y = Caught(c, hook)
    OBVIOUS
  <2>3. y.code = c
    BY <2>2 DEF Caught, Step
  <2> QED
    BY <2>2, <2>3, CallsOne
<1>3. \A hook, x : Calls(q, <<Stream(c, hook, x)>>)
  <2>1. TAKE hook, x
  <2>2. PICK y : y = Stream(c, hook, x)
    OBVIOUS
  <2>3. y.code = c
    BY <2>2 DEF Stream, Step
  <2> QED
    BY <2>2, <2>3, CallsOne
<1>4. \A hook : Calls(q, Optional(c, hook))
  BY <1>1, CallsPlain DEF Optional
<1>5. Calls(q, AIModel_get_model_schema(c))
  BY <1>1, CallsNone DEF AIModel_get_model_schema
<1> QED
  BY <1>1, <1>2, <1>3, <1>4, <1>5

(***************************************************************************)
(* What a request finds in the tables is the named provider's: by its name *)
(* alone or an item's, ...                                                 *)
(***************************************************************************)
LEMMA LookedUp ==
  ASSUME TablesOwn, NEW p
  PROVE  /\ get_tool_provider_cls(p) # None => Own(get_tool_provider_cls(p), "ToolProvider", p)
         /\ \A t : get_tool_cls(p, t) # None => Own(get_tool_cls(p, t), "Tool", p)
         /\ \A a : get_agent_strategy_cls(p, a) # None =>
                     Own(get_agent_strategy_cls(p, a), "AgentStrategy", p)
         /\ get_model_provider_instance(p) # None =>
              Own(get_model_provider_instance(p), "ModelProvider", p)
         /\ get_datasource_provider_cls(p) # None =>
              Own(get_datasource_provider_cls(p), "DatasourceProvider", p)
         /\ get_trigger_provider(p) # None => Own(get_trigger_provider(p), "Trigger", p)
         /\ get_subscription_constructor(p) # None =>
              Own(get_subscription_constructor(p), "TriggerSubscriptionConstructor", p)
         /\ \A e : get_trigger_event_handler(p, e) # None =>
                     Own(get_trigger_event_handler(p, e), "Event", p)
<1>1. get_tool_provider_cls(p) # None => Own(get_tool_provider_cls(p), "ToolProvider", p)
  BY DEF TablesOwn, ToolsOwn, get_tool_provider_cls
<1>2. \A t : get_tool_cls(p, t) # None => Own(get_tool_cls(p, t), "Tool", p)
  BY DEF TablesOwn, ToolsOwn, get_tool_cls, Lookup, ItemsOwn
<1>3. \A a : get_agent_strategy_cls(p, a) # None =>
               Own(get_agent_strategy_cls(p, a), "AgentStrategy", p)
  BY DEF TablesOwn, AgentsOwn, get_agent_strategy_cls, Lookup, ItemsOwn
<1>4. get_model_provider_instance(p) # None =>
        Own(get_model_provider_instance(p), "ModelProvider", p)
  BY DEF TablesOwn, ModelsOwn, get_model_provider_instance
<1>5. get_datasource_provider_cls(p) # None =>
        Own(get_datasource_provider_cls(p), "DatasourceProvider", p)
  BY DEF TablesOwn, DatasourcesOwn, get_datasource_provider_cls
<1>6. get_trigger_provider(p) # None => Own(get_trigger_provider(p), "Trigger", p)
  BY DEF TablesOwn, TriggersOwn, get_trigger_provider
<1>7. get_subscription_constructor(p) # None =>
        Own(get_subscription_constructor(p), "TriggerSubscriptionConstructor", p)
  BY DEF TablesOwn, TriggersOwn, get_subscription_constructor
<1>8. \A e : get_trigger_event_handler(p, e) # None =>
               Own(get_trigger_event_handler(p, e), "Event", p)
  BY DEF TablesOwn, TriggersOwn, get_trigger_event_handler, Lookup, ItemsOwn
<1> QED
  BY <1>1, <1>2, <1>3, <1>4, <1>5, <1>6, <1>7, <1>8

(***************************************************************************)
(* ... a datasource of the type that is asked for, ...                     *)
(***************************************************************************)
LEMMA DatasourcesLookedUp ==
  ASSUME TablesOwn, NEW p, NEW d
  PROVE  /\ get_website_crawl_datasource_cls(p, d) # None =>
              Own(get_website_crawl_datasource_cls(p, d), "WebsiteCrawlDatasource", p)
         /\ get_online_document_datasource_cls(p, d) # None =>
              Own(get_online_document_datasource_cls(p, d), "OnlineDocumentDatasource", p)
         /\ get_online_drive_datasource_cls(p, d) # None =>
              Own(get_online_drive_datasource_cls(p, d), "OnlineDriveDatasource", p)
<1>1. /\ "website_crawl" \in DOMAIN DatasourceBase
      /\ "online_document" \in DOMAIN DatasourceBase
      /\ "online_drive" \in DOMAIN DatasourceBase
      /\ DatasourceBase["website_crawl"] = "WebsiteCrawlDatasource"
      /\ DatasourceBase["online_document"] = "OnlineDocumentDatasource"
      /\ DatasourceBase["online_drive"] = "OnlineDriveDatasource"
  BY DEF DatasourceBase
<1>2. ASSUME p \in DOMAIN datasources
      PROVE  /\ ItemsOwn(datasources[p].items.website_crawl, "WebsiteCrawlDatasource", p)
             /\ ItemsOwn(datasources[p].items.online_document, "OnlineDocumentDatasource", p)
             /\ ItemsOwn(datasources[p].items.online_drive, "OnlineDriveDatasource", p)
  BY <1>1, <1>2 DEF TablesOwn, DatasourcesOwn
<1> QED
  BY <1>2 DEF get_website_crawl_datasource_cls, get_online_document_datasource_cls,
              get_online_drive_datasource_cls, Lookup, ItemsOwn

(***************************************************************************)
(* ... whatever has its OAuth, ...                                         *)
(***************************************************************************)
LEMMA OAuthLookedUp ==
  ASSUME TablesOwn, NEW p, NEW c, c = get_supported_oauth_provider(p), c # None
  PROVE  c.of = p /\ c.bases \cap {"ToolProvider", "DatasourceProvider",
                                   "TriggerSubscriptionConstructor"} # {}
<1>1. \/ Own(c, "TriggerSubscriptionConstructor", p) \/ Own(c, "ToolProvider", p)
      \/ Own(c, "DatasourceProvider", p)
  BY DEF get_supported_oauth_provider, TablesOwn, ToolsOwn, DatasourcesOwn, TriggersOwn
<1> QED
  BY <1>1 DEF Own

(***************************************************************************)
(* ... or an instance of a model.                                          *)
(***************************************************************************)
LEMMA InstancesOwn ==
  ASSUME TablesOwn, NEW w
  PROVE  \A p, t : get_model_instance(p, t, w) # None =>
                     Own(get_model_instance(p, t, w), "AIModel", p)
<1>1. ASSUME NEW c \in Classes
      PROVE  InstanceOf(c, w).of = c.of /\ InstanceOf(c, w).bases = c.bases
  BY <1>1 DEF InstanceOf, Classes
<1>2. ASSUME NEW p, NEW t, p \in DOMAIN models, t \in DOMAIN models[p].types
      PROVE  Own(InstanceOf(models[p].types[t], w), "AIModel", p)
  <2>1. models[p].types[t] \in Classes /\ Own(models[p].types[t], "AIModel", p)
    BY <1>2 DEF TablesOwn, ModelsOwn, ItemsOwn
  <2> QED
    BY <1>1, <2>1 DEF Own
<1> QED
  BY <1>2 DEF get_model_instance, get_instance

(***************************************************************************)
(* The provider's own class of an interface of the request's may run.      *)
(***************************************************************************)
LEMMA Rightly ==
  ASSUME NEW q, q.type # "endpoint", NEW base, base \in InterfacesOf(q)
  PROVE  \A c : Own(c, base, q.provider) => Right(c, q)
BY DEF Own, Right, WrittenForRequest

(***************************************************************************)
(* The rules above, together.                                              *)
(***************************************************************************)
LEMMA CallsRules ==
  ASSUME NEW q
  PROVE  /\ Calls(q, <<>>) /\ Calls(q, Fails)
         /\ \A x : Calls(q, <<Yield(x)>>)
         /\ \A p, r : Calls(q, p) /\ Calls(q, r) => Calls(q, p \o r)
         /\ \A p : Calls(q, p) => Calls(q, Generating(p))
         /\ \A p : Calls(q, p) => Calls(q, p \o <<Return>>)
         /\ \A p : Calls(q, p) => Calls(q, use_current_session(p))
         /\ \A m, p : Calls(q, p) => Calls(q, timing_context(m, p))
         /\ \A k, c, p : Calls(q, p) => Calls(q, <<With(k, c)>> \o p \o <<EndWith>>)
         /\ \A c, hook : Right(c, q) => Calls(q, <<Run(c, hook)>>)
         /\ \A c, hook : Right(c, q) => Calls(q, <<Caught(c, hook)>>)
         /\ \A c, hook, x : Right(c, q) => Calls(q, <<Stream(c, hook, x)>>)
         /\ \A c, hook : Right(c, q) => Calls(q, Optional(c, hook))
         /\ \A c : Right(c, q) => Calls(q, AIModel_get_model_schema(c))
<1>1. /\ Calls(q, <<>>) /\ Calls(q, Fails)
      /\ \A x : Calls(q, <<Yield(x)>>)
      /\ \A p, r : Calls(q, p) /\ Calls(q, r) => Calls(q, p \o r)
  BY CallsNone, CallsPlain, CallsBoth
<1>2. /\ \A p : Calls(q, p) => Calls(q, Generating(p))
      /\ \A p : Calls(q, p) => Calls(q, p \o <<Return>>)
      /\ \A p : Calls(q, p) => Calls(q, use_current_session(p))
      /\ \A m, p : Calls(q, p) => Calls(q, timing_context(m, p))
      /\ \A k, c, p : Calls(q, p) => Calls(q, <<With(k, c)>> \o p \o <<EndWith>>)
  BY CallsAround
<1>3. /\ \A c, hook : Right(c, q) => Calls(q, <<Run(c, hook)>>)
      /\ \A c, hook : Right(c, q) => Calls(q, <<Caught(c, hook)>>)
      /\ \A c, hook, x : Right(c, q) => Calls(q, <<Stream(c, hook, x)>>)
      /\ \A c, hook : Right(c, q) => Calls(q, Optional(c, hook))
      /\ \A c : Right(c, q) => Calls(q, AIModel_get_model_schema(c))
  BY CallsCode
<1> QED
  BY <1>1, <1>2, <1>3

(***************************************************************************)
(* The programs of the handlers: tools and agents, ...                     *)
(***************************************************************************)
LEMMA RightTools ==
  ASSUME TablesOwn, NEW w, NEW q, q.type # "endpoint"
  PROVE  Calls(q, ToolRoutes(w, q))
<1>1. /\ Calls(q, <<>>) /\ Calls(q, Fails)
      /\ \A p : Calls(q, p) => Calls(q, Generating(p))
      /\ \A p : Calls(q, p) => Calls(q, p \o <<Return>>)
      /\ \A c, hook : Right(c, q) => Calls(q, <<Run(c, hook)>>)
      /\ \A c, hook, x : Right(c, q) => Calls(q, <<Stream(c, hook, x)>>)
      /\ \A c, hook : Right(c, q) => Calls(q, Optional(c, hook))
  BY CallsRules
<1>2. ASSUME q.action = "invoke_tool" PROVE Calls(q, invoke_tool(q))
  <2>1. "Tool" \in InterfacesOf(q)
    BY <1>2 DEF InterfacesOf
  <2>2. get_tool_cls(q.provider, q.item) # None => Right(get_tool_cls(q.provider, q.item), q)
    BY <2>1, LookedUp, Rightly
  <2> QED
    BY <1>1, <2>2 DEF invoke_tool, Found, Tool_invoke
<1>3. ASSUME q.action = "validate_tool_credentials"
      PROVE  Calls(q, validate_tool_provider_credentials(q))
  <2>1. "ToolProvider" \in InterfacesOf(q)
    BY <1>3 DEF InterfacesOf
  <2>2. get_tool_provider_cls(q.provider) # None => Right(get_tool_provider_cls(q.provider), q)
    BY <2>1, LookedUp, Rightly
  <2> QED
    BY <1>1, <2>2 DEF validate_tool_provider_credentials, Answer, Found,
                      ToolProvider_validate_credentials
<1>4. ASSUME q.action = "get_tool_runtime_parameters"
      PROVE  Calls(q, get_tool_runtime_parameters(q))
  <2>1. "Tool" \in InterfacesOf(q)
    BY <1>4 DEF InterfacesOf
  <2>2. get_tool_cls(q.provider, q.item) # None => Right(get_tool_cls(q.provider, q.item), q)
    BY <2>1, LookedUp, Rightly
  <2> QED
    BY <1>1, <2>2 DEF get_tool_runtime_parameters, Found, Tool_get_runtime_parameters
<1>5. ASSUME q.action = "invoke_agent_strategy" PROVE Calls(q, invoke_agent_strategy(q))
  <2>1. "AgentStrategy" \in InterfacesOf(q)
    BY <1>5 DEF InterfacesOf
  <2>2. get_agent_strategy_cls(q.provider, q.item) # None =>
          Right(get_agent_strategy_cls(q.provider, q.item), q)
    BY <2>1, LookedUp, Rightly
  <2> QED
    BY <1>1, <2>2 DEF invoke_agent_strategy, Found, AgentStrategy_invoke
<1> QED
  BY <1>1, <1>2, <1>3, <1>4, <1>5 DEF ToolRoutes

(***************************************************************************)
(* ... datasources, ...                                                    *)
(***************************************************************************)
LEMMA RightDatasources ==
  ASSUME TablesOwn, NEW w, NEW q, q.type # "endpoint"
  PROVE  Calls(q, DatasourceRoutes(w, q))
<1>1. /\ Calls(q, <<>>) /\ Calls(q, Fails)
      /\ \A x : Calls(q, <<Yield(x)>>)
      /\ \A p, r : Calls(q, p) /\ Calls(q, r) => Calls(q, p \o r)
      /\ \A p : Calls(q, p) => Calls(q, Generating(p))
      /\ \A p : Calls(q, p) => Calls(q, p \o <<Return>>)
      /\ \A c, hook : Right(c, q) => Calls(q, <<Run(c, hook)>>)
      /\ \A c, hook, x : Right(c, q) => Calls(q, <<Stream(c, hook, x)>>)
      /\ \A c, hook : Right(c, q) => Calls(q, Optional(c, hook))
  BY CallsRules
<1>2. ASSUME q.action = "validate_datasource_credentials"
      PROVE  Calls(q, validate_datasource_credentials(q))
  <2>1. "DatasourceProvider" \in InterfacesOf(q)
    BY <1>2 DEF InterfacesOf
  <2>2. get_datasource_provider_cls(q.provider) # None =>
          Right(get_datasource_provider_cls(q.provider), q)
    BY <2>1, LookedUp, Rightly
  <2> QED
    BY <1>1, <2>2 DEF validate_datasource_credentials, Answer, Found,
                      DatasourceProvider_validate_credentials
<1>3. ASSUME q.action = "invoke_website_datasource_get_crawl"
      PROVE  Calls(q, datasource_crawl_website(q))
  <2>1. "WebsiteCrawlDatasource" \in InterfacesOf(q)
    BY <1>3 DEF InterfacesOf
  <2>2. get_website_crawl_datasource_cls(q.provider, q.item) # None =>
          Right(get_website_crawl_datasource_cls(q.provider, q.item), q)
    BY <2>1, DatasourcesLookedUp, Rightly
  <2> QED
    BY <1>1, <2>2 DEF datasource_crawl_website, Found, WebsiteCrawl_website_crawl
<1>4. ASSUME q.action \in {"invoke_online_document_datasource_get_pages",
                           "invoke_online_document_datasource_get_page_content"}
      PROVE  Calls(q, datasource_get_pages(q)) /\ Calls(q, datasource_get_page_content(q))
  <2>1. "OnlineDocumentDatasource" \in InterfacesOf(q)
    BY <1>4 DEF InterfacesOf
  <2>2. get_online_document_datasource_cls(q.provider, q.item) # None =>
          Right(get_online_document_datasource_cls(q.provider, q.item), q)
    BY <2>1, DatasourcesLookedUp, Rightly
  <2>3. Calls(q, datasource_get_pages(q))
    BY <1>1, <2>2 DEF datasource_get_pages, Found, OnlineDocument_get_pages
  <2>4. Calls(q, datasource_get_page_content(q))
    BY <1>1, <2>2 DEF datasource_get_page_content, Found, OnlineDocument_get_content
  <2> QED
    BY <2>3, <2>4
<1>5. ASSUME q.action \in {"invoke_online_drive_browse_files",
                           "invoke_online_drive_download_file"}
      PROVE  /\ Calls(q, datasource_online_drive_browse_files(q))
             /\ Calls(q, datasource_online_drive_download_file(q))
  <2>1. "OnlineDriveDatasource" \in InterfacesOf(q)
    BY <1>5 DEF InterfacesOf
  <2>2. get_online_drive_datasource_cls(q.provider, q.item) # None =>
          Right(get_online_drive_datasource_cls(q.provider, q.item), q)
    BY <2>1, DatasourcesLookedUp, Rightly
  <2>3. Calls(q, datasource_online_drive_browse_files(q))
    BY <1>1, <2>2 DEF datasource_online_drive_browse_files, Found, OnlineDrive_browse_files
  <2>4. Calls(q, datasource_online_drive_download_file(q))
    BY <1>1, <2>2 DEF datasource_online_drive_download_file, Found, OnlineDrive_download_file
  <2> QED
    BY <2>3, <2>4
<1> QED
  BY <1>1, <1>2, <1>3, <1>4, <1>5 DEF DatasourceRoutes

(***************************************************************************)
(* ... the OAuth of a provider, ...                                        *)
(***************************************************************************)
LEMMA RightOAuth ==
  ASSUME TablesOwn, NEW q, q.type # "endpoint"
  PROVE  Calls(q, OAuthRoutes(q))
<1>1. /\ Calls(q, <<>>) /\ Calls(q, Fails)
      /\ \A p : Calls(q, p) => Calls(q, p \o <<Return>>)
      /\ \A c, hook : Right(c, q) => Calls(q, Optional(c, hook))
  BY CallsRules
<1>2. \A c, hook : Right(c, q) => Calls(q, oauth(c, hook))
  BY <1>1 DEF oauth, Constructor_oauth, ToolProvider_oauth, DatasourceProvider_oauth
<1>3. ASSUME q.action \in {"get_authorization_url", "get_credentials", "refresh_credentials",
                           "revoke_credentials"}
      PROVE  \A hook : Calls(q, _get_oauth_provider_instance(q, hook))
  <2>1. InterfacesOf(q) = {"ToolProvider", "DatasourceProvider", "TriggerSubscriptionConstructor"}
    BY <1>3 DEF InterfacesOf
  <2>2. PICK c : c = get_supported_oauth_provider(q.provider)
    OBVIOUS
  <2>3. c # None => c.of = q.provider /\ c.bases \cap InterfacesOf(q) # {}
    BY <2>1, <2>2, OAuthLookedUp
  <2>4. c # None => Right(c, q)
    BY <2>3 DEF Right, WrittenForRequest
  <2> QED
    BY <1>1, <1>2, <2>2, <2>4 DEF _get_oauth_provider_instance, Answer, Found
<1> QED
  BY <1>1, <1>3 DEF OAuthRoutes, get_oauth_authorization_url, get_oauth_credentials,
                    refresh_oauth_credentials, revoke_oauth_credentials

(***************************************************************************)
(* ... the options of a parameter, ...                                     *)
(***************************************************************************)
LEMMA RightParameters ==
  ASSUME TablesOwn, NEW q, q.type # "endpoint"
  PROVE  Calls(q, DynamicParameterRoute(q))
<1>1. /\ Calls(q, <<>>) /\ Calls(q, Fails)
      /\ \A p : Calls(q, p) => Calls(q, p \o <<Return>>)
      /\ \A c, hook : Right(c, q) => Calls(q, Optional(c, hook))
  BY CallsRules
<1>2. ASSUME q.action = "fetch_parameter_options" PROVE Calls(q, fetch_parameter_options(q))
  <2>1. {"Tool", "Event", "TriggerSubscriptionConstructor"} = InterfacesOf(q)
    BY <1>2 DEF InterfacesOf
  <2>2. PICK c : c = _get_dynamic_parameter_action(q)
    OBVIOUS
  <2>3. c # None => \/ Own(c, "TriggerSubscriptionConstructor", q.provider)
                    \/ Own(c, "Event", q.provider) \/ Own(c, "Tool", q.provider)
    BY <2>2, LookedUp DEF _get_dynamic_parameter_action
  <2>4. c # None => Right(c, q)
    BY <2>1, <2>3, Rightly
  <2>5. Right(c, q) => Calls(q,
          CASE "TriggerSubscriptionConstructor" \in c.bases ->
                 Constructor_fetch_parameter_options(c)
            [] "Event" \in c.bases -> Event_fetch_parameter_options(c)
            [] OTHER               -> Tool_fetch_parameter_options(c))
    BY <1>1 DEF Constructor_fetch_parameter_options, Event_fetch_parameter_options,
                Tool_fetch_parameter_options
  <2> QED
    BY <1>1, <2>2, <2>4, <2>5 DEF fetch_parameter_options, Answer, Found
<1> QED
  BY <1>1, <1>2 DEF DynamicParameterRoute

(***************************************************************************)
(* ... and triggers.                                                       *)
(***************************************************************************)
LEMMA RightTriggers ==
  ASSUME TablesOwn, NEW q, q.type # "endpoint"
  PROVE  Calls(q, TriggerRoutes(q))
<1>1. /\ Calls(q, <<>>) /\ Calls(q, Fails)
      /\ \A p, r : Calls(q, p) /\ Calls(q, r) => Calls(q, p \o r)
      /\ \A p : Calls(q, p) => Calls(q, p \o <<Return>>)
      /\ \A k, c, p : Calls(q, p) => Calls(q, <<With(k, c)>> \o p \o <<EndWith>>)
      /\ \A c, hook : Right(c, q) => Calls(q, <<Run(c, hook)>>)
      /\ \A c, hook : Right(c, q) => Calls(q, Optional(c, hook))
  BY CallsRules
<1>2. ASSUME q.action = "invoke_trigger_event" PROVE Calls(q, invoke_trigger_event(q))
  <2>1. "Event" \in InterfacesOf(q)
    BY <1>2 DEF InterfacesOf
  <2>2. get_trigger_event_handler(q.provider, q.item) # None =>
          Right(get_trigger_event_handler(q.provider, q.item), q)
    BY <2>1, LookedUp, Rightly
  <2> QED
    BY <1>1, <2>2 DEF invoke_trigger_event, Answer, Found, Event_on_event
<1>3. ASSUME q.action = "dispatch_trigger_event" PROVE Calls(q, dispatch_trigger_event(q))
  <2>1. "Trigger" \in InterfacesOf(q)
    BY <1>3 DEF InterfacesOf
  <2>2. PICK c : c = get_trigger_provider(q.provider)
    OBVIOUS
  <2>3. c # None => Right(c, q)
    BY <2>1, <2>2, LookedUp, Rightly
  <2>4. Right(c, q) => Calls(q, <<With("response", None), Run(c, "response"), EndWith>>)
    <3>1. \A x, y, z : <<x>> \o <<y>> \o <<z>> = <<x, y, z>>
      BY ThreeSteps
    <3>2. Right(c, q) =>
            Calls(q, <<With("response", None)>> \o <<Run(c, "response")>> \o <<EndWith>>)
      BY <1>1
    <3>3. <<With("response", None)>> \o <<Run(c, "response")>> \o <<EndWith>>
            = <<With("response", None), Run(c, "response"), EndWith>>
      BY <3>1
    <3> QED
      BY <3>2, <3>3
  <2>5. Right(c, q) => Calls(q, Trigger_dispatch_event(c)
                                \o <<With("response", None), Run(c, "response"), EndWith>>)
    BY <1>1, <2>4 DEF Trigger_dispatch_event
  <2> QED
    BY <1>1, <2>2, <2>3, <2>5 DEF dispatch_trigger_event, Answer, Found
<1>4. ASSUME q.action \in {"validate_trigger_credentials", "subscribe_trigger",
                           "unsubscribe_trigger", "refresh_trigger"}
      PROVE  /\ Calls(q, validate_trigger_provider_credentials(q))
             /\ Calls(q, subscribe_trigger(q)) /\ Calls(q, unsubscribe_trigger(q))
             /\ Calls(q, refresh_trigger(q))
  <2>1. "TriggerSubscriptionConstructor" \in InterfacesOf(q)
    BY <1>4 DEF InterfacesOf
  <2>2. get_subscription_constructor(q.provider) # None =>
          Right(get_subscription_constructor(q.provider), q)
    BY <2>1, LookedUp, Rightly
  <2>3. Calls(q, validate_trigger_provider_credentials(q))
    BY <1>1, <2>2 DEF validate_trigger_provider_credentials, Answer, Found,
                      Constructor_validate_api_key
  <2>4. Calls(q, subscribe_trigger(q))
    BY <1>1, <2>2 DEF subscribe_trigger, Answer, Found, Constructor_create_subscription
  <2>5. Calls(q, unsubscribe_trigger(q))
    BY <1>1, <2>2 DEF unsubscribe_trigger, Answer, Found, Constructor_delete_subscription
  <2>6. Calls(q, refresh_trigger(q))
    BY <1>1, <2>2 DEF refresh_trigger, Answer, Found, Constructor_refresh_subscription
  <2> QED
    BY <2>3, <2>4, <2>5, <2>6
<1> QED
  BY <1>1, <1>2, <1>3, <1>4 DEF TriggerRoutes

(***************************************************************************)
(* An endpoint is the class that was declared with the path.               *)
(***************************************************************************)
LEMMA RightEndpoint ==
  ASSUME TablesOwn, NEW q, NEW result, q.type = "endpoint"
  PROVE  Calls(q, EndpointRoute(q, result))
<1>1. /\ Calls(q, <<>>)
      /\ \A x : Calls(q, <<Yield(x)>>)
      /\ \A p, r : Calls(q, p) /\ Calls(q, r) => Calls(q, p \o r)
      /\ \A p : Calls(q, p) => Calls(q, Generating(p))
      /\ \A k, c : Calls(q, <<With(k, c)>>)
      /\ Calls(q, <<EndWith>>)
      /\ \A c, hook : Right(c, q) => Calls(q, <<Run(c, hook)>>)
      /\ \A c, hook : Right(c, q) => Calls(q, <<Caught(c, hook)>>)
      /\ \A c, hook, x : Right(c, q) => Calls(q, <<Stream(c, hook, x)>>)
  BY CallsRules, CallsPlain
<1>2. CASE q.action # "invoke_endpoint"
  BY <1>1, <1>2 DEF EndpointRoute
<1>3. CASE q.action = "invoke_endpoint"
  <2>1. InterfacesOf(q) = {"Endpoint"}
    BY <1>3 DEF InterfacesOf
  <2>2. PICK c : c = dispatch_endpoint_request(q.item)
    OBVIOUS
  <2>3. ASSUME c # None PROVE Right(c, q)
    <3>1. PICK F : F = {i \in DOMAIN endpoints : endpoints[i].path = q.item}
      OBVIOUS
    <3>2. F # {} /\ c = endpoints[Min(F)].cls
      BY <2>2, <2>3, <3>1 DEF dispatch_endpoint_request
    <3>3. PICK l \in Nat : DOMAIN endpoints = 1 .. l
      <4>1. PICK S : endpoints \in Seq(S)
        BY DEF TablesOwn, EndpointsOwn
      <4> QED
        BY <4>1
    <3>4. F \in SUBSET (0 .. l)
      BY <3>1, <3>3
    <3>5. Min(F) \in F
      BY <3>2, <3>4, MinIs
    <3>6. PICK i \in DOMAIN endpoints : i = Min(F) /\ endpoints[i].path = q.item
      BY <3>1, <3>5
    <3>7. "Endpoint" \in c.bases /\ DeclaredWith(c, q.item)
      BY <3>2, <3>6 DEF TablesOwn, EndpointsOwn
    <3> QED
      BY <2>1, <3>7 DEF Right, WrittenForRequest, DeclaredWith
  <2>4. PICK called :
          called = IF c = None THEN <<>>
                   ELSE IF result = "error" THEN <<Caught(c, "_invoke")>> ELSE Endpoint_invoke(c)
    OBVIOUS
  <2>5. Calls(q, called)
    <3>1. c # None => Calls(q, <<Caught(c, "_invoke")>>) /\ Calls(q, Endpoint_invoke(c))
      BY <1>1, <2>3 DEF Endpoint_invoke
    <3> QED
      BY <1>1, <2>4, <3>1
  <2>6. PICK body :
          body = IF c = None \/ result = "error" THEN <<Yield("response")>>
                 ELSE IF result = "generator"
                 THEN <<Yield("headers"), Stream(c, "response", "chunk")>>
                 ELSE <<Run(c, "response"), Yield("response")>>
    OBVIOUS
  <2>7. Calls(q, body)
    <3>1. \A a, b : <<a>> \o <<b>> = <<a, b>>
      BY TwoSteps
    <3>2. Right(c, q) => Calls(q, <<Yield("headers")>> \o <<Stream(c, "response", "chunk")>>)
      BY <1>1
    <3>3. Right(c, q) => Calls(q, <<Run(c, "response")>> \o <<Yield("response")>>)
      BY <1>1
    <3>4. /\ Right(c, q) => Calls(q, <<Yield("headers"), Stream(c, "response", "chunk")>>)
          /\ Right(c, q) => Calls(q, <<Run(c, "response"), Yield("response")>>)
      BY <3>1, <3>2, <3>3
    <3>5. Calls(q, <<Yield("response")>>)
      BY <1>1
    <3>6. /\ c # None => Calls(q, <<Yield("headers"), Stream(c, "response", "chunk")>>)
          /\ c # None => Calls(q, <<Run(c, "response"), Yield("response")>>)
      BY <2>3, <3>4
    <3> QED
      BY <2>6, <3>5, <3>6
  <2>8. PICK a, b : a = <<With("response", None)>> /\ b = <<EndWith>>
    OBVIOUS
  <2>9. Calls(q, called \o a)
    BY <1>1, <2>5, <2>8
  <2>10. Calls(q, called \o a \o body)
    BY <1>1, <2>7, <2>9
  <2>11. Calls(q, called \o a \o body \o b)
    BY <1>1, <2>8, <2>10
  <2>12. Calls(q, Generating(called \o a \o body \o b))
    BY <1>1, <2>11
  <2>13. Calls(q, invoke_endpoint(q, result))
    BY <2>2, <2>4, <2>6, <2>8, <2>12 DEF invoke_endpoint
  <2> QED
    BY <1>3, <2>13 DEF EndpointRoute
<1> QED
  BY <1>2, <1>3

(***************************************************************************)
(* The instance of a model, ...                                            *)
(***************************************************************************)
LEMMA InstanceRight ==
  ASSUME TablesOwn, NEW w, NEW q, q.type # "endpoint", NEW base, base \in InterfacesOf(q),
         NEW m, m = instance_of(base, q, w), m # None
  PROVE  Right(m, q)
<1>1. m = get_model_instance(q.provider, q.item, w) /\ base \in m.bases
  BY DEF instance_of
<1>2. m.of = q.provider
  BY <1>1, InstancesOwn DEF Own
<1> QED
  BY <1>1, <1>2 DEF Right, WrittenForRequest

(***************************************************************************)
(* ... whose methods call it only, ...                                     *)
(***************************************************************************)
LEMMA ModelMethodsCall ==
  ASSUME NEW q, NEW m, Right(m, q)
  PROVE  /\ Calls(q, ModelProvider_validate_provider_credentials(m))
         /\ Calls(q, AIModel_validate_credentials(m))
         /\ Calls(q, AIModel_get_model_schema(m))
         /\ Calls(q, LargeLanguageModel_invoke(m))
         /\ Calls(q, LargeLanguageModel_start_polling(m))
         /\ Calls(q, LargeLanguageModel_check_polling(m))
         /\ Calls(q, LargeLanguageModel_get_num_tokens(m))
         /\ Calls(q, TextEmbeddingModel_invoke(m))
         /\ Calls(q, TextEmbeddingModel_invoke_multimodal(m))
         /\ Calls(q, TextEmbeddingModel_get_num_tokens(m))
         /\ Calls(q, RerankModel_invoke(m))
         /\ Calls(q, RerankModel_invoke_multimodal(m))
         /\ \A result : Calls(q, TTSModel_invoke(m, result))
         /\ Calls(q, Speech2TextModel_invoke(m))
         /\ Calls(q, ModerationModel_invoke(m))
<1>1. /\ Calls(q, Fails)
      /\ \A x : Calls(q, <<Yield(x)>>)
      /\ \A p, r : Calls(q, p) /\ Calls(q, r) => Calls(q, p \o r)
      /\ \A c, p : Calls(q, p) => Calls(q, timing_context(c, p))
      /\ \A hook : Calls(q, <<Run(m, hook)>>)
      /\ \A hook, x : Calls(q, <<Stream(m, hook, x)>>)
      /\ \A hook : Calls(q, Optional(m, hook))
      /\ Calls(q, AIModel_get_model_schema(m))
  BY CallsRules
<1>2. /\ Calls(q, ModelProvider_validate_provider_credentials(m))
      /\ Calls(q, AIModel_validate_credentials(m))
      /\ Calls(q, LargeLanguageModel_get_num_tokens(m))
      /\ Calls(q, TextEmbeddingModel_get_num_tokens(m))
  BY <1>1 DEF ModelProvider_validate_provider_credentials, AIModel_validate_credentials,
              LargeLanguageModel_get_num_tokens, TextEmbeddingModel_get_num_tokens
<1>3. Calls(q, LargeLanguageModel_invoke(m))
  BY <1>1 DEF LargeLanguageModel_invoke
<1>4. Calls(q, LargeLanguageModel_start_polling(m))
  BY <1>1 DEF LargeLanguageModel_start_polling
<1>5. Calls(q, LargeLanguageModel_check_polling(m))
  BY <1>1 DEF LargeLanguageModel_check_polling
<1>6. /\ Calls(q, TextEmbeddingModel_invoke(m)) /\ Calls(q, TextEmbeddingModel_invoke_multimodal(m))
      /\ Calls(q, RerankModel_invoke(m)) /\ Calls(q, RerankModel_invoke_multimodal(m))
      /\ Calls(q, Speech2TextModel_invoke(m)) /\ Calls(q, ModerationModel_invoke(m))
  BY <1>1 DEF TextEmbeddingModel_invoke, TextEmbeddingModel_invoke_multimodal, RerankModel_invoke,
              RerankModel_invoke_multimodal, Speech2TextModel_invoke, ModerationModel_invoke
<1>7. \A result : Calls(q, TTSModel_invoke(m, result))
  <2>1. Calls(q, timing_context(m, <<Run(m, "_invoke")>>))
    BY <1>1
  <2>2. Calls(q, timing_context(m, <<Stream(m, "_invoke", "message")>>))
    BY <1>1
  <2> QED
    BY <1>1, <2>1, <2>2 DEF TTSModel_invoke
<1> QED
  BY <1>1, <1>2, <1>3, <1>4, <1>5, <1>6, <1>7

(***************************************************************************)
(* ... whether it is invoked ...                                           *)
(***************************************************************************)
LEMMA RightInvocations ==
  ASSUME TablesOwn, NEW w, NEW q, NEW result, q.type # "endpoint"
  PROVE  /\ q.action = "invoke_llm" => Calls(q, invoke_llm(w, q))
         /\ q.action = "invoke_text_embedding" => Calls(q, invoke_text_embedding(w, q))
         /\ q.action = "invoke_multimodal_embedding" => Calls(q, invoke_multimodal_embedding(w, q))
         /\ q.action = "invoke_rerank" => Calls(q, invoke_rerank(w, q))
         /\ q.action = "invoke_multimodal_rerank" => Calls(q, invoke_multimodal_rerank(w, q))
         /\ q.action = "invoke_tts" => Calls(q, invoke_tts(w, q, result))
         /\ q.action = "invoke_speech2text" => Calls(q, invoke_speech_to_text(w, q))
         /\ q.action = "invoke_moderation" => Calls(q, invoke_moderation(w, q))
<1>1. /\ Calls(q, <<>>) /\ Calls(q, Fails)
      /\ \A p, r : Calls(q, p) /\ Calls(q, r) => Calls(q, p \o r)
      /\ \A p : Calls(q, p) => Calls(q, Generating(p))
      /\ \A p : Calls(q, p) => Calls(q, p \o <<Return>>)
      /\ \A p : Calls(q, p) => Calls(q, use_current_session(p))
  BY CallsRules
<1>2. \A base, m : base \in InterfacesOf(q) /\ m = instance_of(base, q, w) /\ m # None
                     => Right(m, q)
  BY InstanceRight
<1>3. ASSUME q.action = "invoke_llm" PROVE Calls(q, invoke_llm(w, q))
  <2>1. "LargeLanguageModel" \in InterfacesOf(q)
    BY <1>3 DEF InterfacesOf
  <2>2. \A m : Right(m, q) => Calls(q, use_current_session(<<>>)
                 \o Generating(use_current_session(LargeLanguageModel_invoke(m))))
    BY <1>1, ModelMethodsCall
  <2> QED
    BY <1>1, <1>2, <2>1, <2>2 DEF invoke_llm, Found
<1>4. ASSUME q.action \in {"invoke_text_embedding", "invoke_multimodal_embedding"}
      PROVE  Calls(q, invoke_text_embedding(w, q)) /\ Calls(q, invoke_multimodal_embedding(w, q))
  <2>1. "TextEmbeddingModel" \in InterfacesOf(q)
    BY <1>4 DEF InterfacesOf
  <2>2. \A m : Right(m, q) =>
          /\ Calls(q, use_current_session(TextEmbeddingModel_invoke(m)) \o <<Return>>)
          /\ Calls(q, use_current_session(TextEmbeddingModel_invoke_multimodal(m)) \o <<Return>>)
    BY <1>1, ModelMethodsCall
  <2> QED
    BY <1>1, <1>2, <2>1, <2>2 DEF invoke_text_embedding, invoke_multimodal_embedding, Answer, Found
<1>5. ASSUME q.action \in {"invoke_rerank", "invoke_multimodal_rerank"}
      PROVE  Calls(q, invoke_rerank(w, q)) /\ Calls(q, invoke_multimodal_rerank(w, q))
  <2>1. "RerankModel" \in InterfacesOf(q)
    BY <1>5 DEF InterfacesOf
  <2>2. \A m : Right(m, q) =>
          /\ Calls(q, use_current_session(RerankModel_invoke(m)) \o <<Return>>)
          /\ Calls(q, use_current_session(RerankModel_invoke_multimodal(m)) \o <<Return>>)
    BY <1>1, ModelMethodsCall
  <2> QED
    BY <1>1, <1>2, <2>1, <2>2 DEF invoke_rerank, invoke_multimodal_rerank, Answer, Found
<1>6. ASSUME q.action = "invoke_tts" PROVE Calls(q, invoke_tts(w, q, result))
  <2>1. "TTSModel" \in InterfacesOf(q)
    BY <1>6 DEF InterfacesOf
  <2>2. \A m : Right(m, q) =>
                 Calls(q, TTSModel_get_tts_model_mime_type(m) \o TTSModel_invoke(m, result))
    BY <1>1, ModelMethodsCall DEF TTSModel_get_tts_model_mime_type
  <2>3. \A m : Right(m, q) => Calls(q, use_current_session(
                 TTSModel_get_tts_model_mime_type(m) \o TTSModel_invoke(m, result)))
    BY <1>1, <2>2
  <2> QED
    BY <1>1, <1>2, <2>1, <2>3 DEF invoke_tts, Found
<1>7. ASSUME q.action = "invoke_speech2text" PROVE Calls(q, invoke_speech_to_text(w, q))
  <2>1. "Speech2TextModel" \in InterfacesOf(q)
    BY <1>7 DEF InterfacesOf
  <2>2. PICK found : found = Found(instance_of("Speech2TextModel", q, w), LAMBDA m :
                                   use_current_session(Speech2TextModel_invoke(m)))
    OBVIOUS
  <2>3. \A m : Right(m, q) => Calls(q, use_current_session(Speech2TextModel_invoke(m)))
    BY <1>1, ModelMethodsCall
  <2>4. Calls(q, found)
    BY <1>1, <1>2, <2>1, <2>2, <2>3 DEF Found
  <2>5. PICK a, b, c : a = <<With("temp", None)>> /\ b = <<EndWith>> /\ c = <<Return>>
    OBVIOUS
  <2>6. Calls(q, a) /\ Calls(q, b) /\ Calls(q, c)
    BY <2>5, CallsPlain
  <2>7. b \o c = <<EndWith, Return>>
    BY <2>5, TwoSteps
  <2>8. Calls(q, a \o found \o <<EndWith, Return>>)
    BY <1>1, <2>4, <2>6, <2>7
  <2> QED
    BY <1>1, <2>2, <2>5, <2>8 DEF invoke_speech_to_text
<1>8. ASSUME q.action = "invoke_moderation" PROVE Calls(q, invoke_moderation(w, q))
  <2>1. "ModerationModel" \in InterfacesOf(q)
    BY <1>8 DEF InterfacesOf
  <2>2. \A m : Right(m, q) =>
          Calls(q, use_current_session(ModerationModel_invoke(m)) \o <<Return>>)
    BY <1>1, ModelMethodsCall
  <2> QED
    BY <1>1, <1>2, <2>1, <2>2 DEF invoke_moderation, Answer, Found
<1> QED
  BY <1>3, <1>4, <1>5, <1>6, <1>7, <1>8

(***************************************************************************)
(* ... or not.                                                             *)
(***************************************************************************)
LEMMA RightModels ==
  ASSUME TablesOwn, NEW w, NEW q, NEW result, q.type # "endpoint"
  PROVE  Calls(q, ModelRoutes(w, q, result))
<1>1. /\ Calls(q, <<>>) /\ Calls(q, Fails)
      /\ \A p, r : Calls(q, p) /\ Calls(q, r) => Calls(q, p \o r)
      /\ \A p : Calls(q, p) => Calls(q, p \o <<Return>>)
  BY CallsRules
<1>2. \A base, m : base \in InterfacesOf(q) /\ m = instance_of(base, q, w) /\ m # None
                     => Right(m, q)
  BY InstanceRight
<1>3. ASSUME q.action \in {"start_polling", "check_polling", "get_llm_num_tokens"}
      PROVE  /\ Calls(q, start_llm_polling(w, q)) /\ Calls(q, check_llm_polling(w, q))
             /\ Calls(q, get_llm_num_tokens(w, q))
  <2>1. "LargeLanguageModel" \in InterfacesOf(q)
    BY <1>3 DEF InterfacesOf
  <2>2. \A m : Right(m, q) =>
          /\ Calls(q, AIModel_get_model_schema(m)
               \o IF LargeLanguageModel_supports_polling(m)
                  THEN LargeLanguageModel_start_polling(m) ELSE Fails)
          /\ Calls(q, AIModel_get_model_schema(m)
               \o IF LargeLanguageModel_supports_polling(m)
                  THEN LargeLanguageModel_check_polling(m) ELSE Fails)
          /\ Calls(q, LargeLanguageModel_get_num_tokens(m))
    BY <1>1, ModelMethodsCall
  <2>3. Calls(q, start_llm_polling(w, q))
    BY <1>1, <1>2, <2>1, <2>2 DEF start_llm_polling, Answer, Found
  <2>4. Calls(q, check_llm_polling(w, q))
    BY <1>1, <1>2, <2>1, <2>2 DEF check_llm_polling, Answer, Found
  <2>5. Calls(q, get_llm_num_tokens(w, q))
    BY <1>1, <1>2, <2>1, <2>2 DEF get_llm_num_tokens, Answer, Found
  <2> QED
    BY <2>3, <2>4, <2>5
<1>4. ASSUME q.action = "get_text_embedding_num_tokens"
      PROVE  Calls(q, get_text_embedding_num_tokens(w, q))
  <2>1. "TextEmbeddingModel" \in InterfacesOf(q)
    BY <1>4 DEF InterfacesOf
  <2> QED
    BY <1>1, <1>2, <2>1, ModelMethodsCall DEF get_text_embedding_num_tokens, Answer, Found
<1>5. ASSUME q.action = "get_tts_model_voices" PROVE Calls(q, get_tts_model_voices(w, q))
  <2>1. "TTSModel" \in InterfacesOf(q)
    BY <1>5 DEF InterfacesOf
  <2> QED
    BY <1>1, <1>2, <2>1, ModelMethodsCall DEF get_tts_model_voices, Answer, Found,
       TTSModel_get_tts_model_voices
<1>6. ASSUME q.action = "validate_provider_credentials"
      PROVE  Calls(q, validate_model_provider_credentials(q))
  <2>1. "ModelProvider" \in InterfacesOf(q)
    BY <1>6 DEF InterfacesOf
  <2>2. get_model_provider_instance(q.provider) # None =>
          Right(get_model_provider_instance(q.provider), q)
    BY <2>1, LookedUp, Rightly
  <2> QED
    BY <1>1, <2>2, ModelMethodsCall DEF validate_model_provider_credentials, Answer, Found
<1>7. ASSUME q.action \in {"validate_model_credentials", "get_ai_model_schemas"}
      PROVE  Calls(q, validate_model_credentials(w, q)) /\ Calls(q, get_ai_model_schemas(w, q))
  <2>1. "AIModel" \in InterfacesOf(q)
    BY <1>7 DEF InterfacesOf
  <2>2. get_model_instance(q.provider, q.item, w) # None =>
          Right(get_model_instance(q.provider, q.item, w), q)
    BY <2>1, InstancesOwn, Rightly
  <2>3. Calls(q, validate_model_credentials(w, q))
    BY <1>1, <2>2, ModelMethodsCall DEF validate_model_credentials, Answer, Found
  <2>4. Calls(q, get_ai_model_schemas(w, q))
    BY <1>1, <1>2, <2>1, ModelMethodsCall DEF get_ai_model_schemas, Answer, Found
  <2> QED
    BY <2>3, <2>4
<1> QED
  BY <1>1, <1>3, <1>4, <1>5, <1>6, <1>7, RightInvocations DEF ModelRoutes

(***************************************************************************)
(* Whatever the request, its program calls code that may run for it.       *)
(***************************************************************************)
LEMMA RightProgram ==
  ASSUME TablesOwn, NEW w, NEW q \in Requests, NEW result, NEW writer
  PROVE  Calls(q, register_route(w, q, result, writer))
<1>1. Calls(q, dispatch(w, q, result))
  <2>1. CASE q.type = "endpoint"
    BY <2>1, RightEndpoint DEF dispatch
  <2>2. CASE q.type # "endpoint"
    <3>1. /\ Calls(q, <<>>)
          /\ Calls(q, ToolRoutes(w, q)) /\ Calls(q, ModelRoutes(w, q, result))
          /\ Calls(q, DatasourceRoutes(w, q)) /\ Calls(q, OAuthRoutes(q))
          /\ Calls(q, DynamicParameterRoute(q)) /\ Calls(q, TriggerRoutes(q))
      BY <2>2, CallsNone, RightTools, RightModels, RightDatasources, RightOAuth, RightParameters,
         RightTriggers
    <3> QED
      BY <2>2, <3>1 DEF dispatch
  <2> QED
    BY <2>1, <2>2
<1>2. Calls(q, Fails) /\ Calls(q, <<Yield("error")>> \o Fails)
  BY CallsRules
<1>3. q.fit \in Fits \cup {"type error"}
  BY Requested
<1> QED
  BY <1>1, <1>2, <1>3 DEF register_route, Fits

-----------------------------------------------------------------------------
(* The code that runs.                                                     *)

(***************************************************************************)
(* A worker that works does so for a plugin that serves, and has such code *)
(* left to call.                                                           *)
(***************************************************************************)
Programmed(w) ==
  work[w] # None => stage = "serving" /\ Calls(work[w].request, rest[w])

(***************************************************************************)
(* What holds of the registration.                                         *)
(***************************************************************************)
RegistrationInv == Registered /\ TablesOwn

(***************************************************************************)
(* It is a matter of the registration's variables only, ...                *)
(***************************************************************************)
LEMMA RegistrationStays ==
  ASSUME UNCHANGED registrationVars
  PROVE  /\ RegistrationInv => RegistrationInv'
         /\ stage' = stage
         /\ \A q, p : Calls(q, p) => Calls(q, p)'
<1>1. /\ UNCHANGED <<plugin, stage, kind, todo, configuration, files, announced>>
      /\ UNCHANGED <<tools, models, endpoints, agents, datasources, triggers>>
  BY DEF registrationVars, tables
<1>2. Registered => Registered'
  <2>1. Configured(configuration) => Configured(configuration)'
    BY <1>1, SameDirectory DEF Configured
  <2> QED
    BY <1>1, <2>1, SameDirectory DEF Registered
<1>3. TablesOwn => TablesOwn'
  BY <1>1 DEF TablesOwn, ToolsOwn, ModelsOwn, AgentsOwn, DatasourcesOwn, TriggersOwn,
              EndpointsOwn, DeclaredWith
<1>4. \A q, p : Calls(q, p) => Calls(q, p)'
  <2>1. \A c, q : Right(c, q)' <=> Right(c, q)
    BY <1>1 DEF Right, WrittenForRequest
  <2> QED
    BY <2>1 DEF Calls
<1> QED
  BY <1>1, <1>2, <1>3, <1>4 DEF RegistrationInv

(***************************************************************************)
(* ... which no worker changes.                                            *)
(***************************************************************************)
LEMMA StillRegistered ==
  ASSUME NEW w \in Workers, Working(w)
  PROVE  UNCHANGED registrationVars
BY DEF Working, Take, EnterContext, ExitContext, RunCode, StreamYields, StreamEnds,
       Answers, RaiseError, WriteMessage, Unwind, Finish

(***************************************************************************)
(* This is an invariant.                                                   *)
(***************************************************************************)
LEMMA RegisteredAlways == Spec => []RegistrationInv
<1>1. Init => RegistrationInv
  BY Beginning, NothingRegistered DEF Init, RegistrationInv
<1>2. ASSUME RegistrationInv, [Next]_vars PROVE RegistrationInv'
  <2>1. CASE Starting
    BY <1>2, <2>1, StartingKeeps, TablesKept DEF RegistrationInv
  <2>2. CASE UNCHANGED registrationVars
    BY <1>2, <2>2, RegistrationStays
  <2>3. CASE UNCHANGED vars
    BY <2>2, <2>3 DEF vars
  <2> QED
    BY <1>2, <2>1, <2>2, <2>3, StillRegistered DEF Next
<1> QED
  BY <1>1, <1>2, PTL DEF Spec

(***************************************************************************)
(* What is left of a program calls nothing new.                            *)
(***************************************************************************)
LEMMA TailCalls ==
  ASSUME NEW q, NEW p, Calls(q, p), p # <<>>
  PROVE  Calls(q, Tail(p))
<1>1. PICK S : p \in Seq(S)
  BY DEF Calls
<1>2. PICK t \in Seq(S) : /\ t = Tail(p) /\ Len(t) = Len(p) - 1
                          /\ \A i \in 1 .. Len(t) : t[i] = p[i + 1]
  BY <1>1, HeadTailProperties
<1>3. ASSUME NEW i \in DOMAIN t PROVE i + 1 \in DOMAIN p /\ t[i] = p[i + 1]
  BY <1>1, <1>2
<1>4. Calls(q, t)
  BY <1>2, <1>3 DEF Calls
<1> QED
  BY <1>2, <1>4

(***************************************************************************)
(* A worker goes on with its program, or gives it up.                      *)
(***************************************************************************)
LEMMA GoesOn ==
  ASSUME NEW w \in Workers, DOMAIN rest = Workers, Working(w), ~Take(w), ~Finish(w)
  PROVE  /\ work' = work
         /\ \/ rest'[w] = rest[w] \/ rest'[w] = <<>>
            \/ rest[w] # <<>> /\ rest'[w] = Tail(rest[w])
<1> USE DEF Advance, Raise, At
<1>1. CASE EnterContext(w)
  BY <1>1 DEF EnterContext
<1>2. CASE ExitContext(w)
  BY <1>2 DEF ExitContext
<1>3. CASE RunCode(w)
  BY <1>3 DEF RunCode
<1>4. CASE StreamYields(w)
  BY <1>4 DEF StreamYields
<1>5. CASE StreamEnds(w)
  BY <1>5 DEF StreamEnds
<1>6. CASE Answers(w)
  BY <1>6 DEF Answers
<1>7. CASE RaiseError(w)
  BY <1>7 DEF RaiseError
<1>8. CASE WriteMessage(w)
  BY <1>8 DEF WriteMessage
<1>9. CASE Unwind(w)
  BY <1>9 DEF Unwind
<1> QED
  BY <1>1, <1>2, <1>3, <1>4, <1>5, <1>6, <1>7, <1>8, <1>9 DEF Working

(***************************************************************************)
(* This is an invariant: the program is right when the request is taken,   *)
(* and the tables do not change any more.                                  *)
(***************************************************************************)
LEMMA OnlyRightCode == Spec => [](\A w \in Workers : Programmed(w))
<1>1. Init => \A w \in Workers : Programmed(w)
  BY DEF Init, Programmed
<1>2. ASSUME Inv, RegistrationInv, \A w \in Workers : Programmed(w), [Next]_vars
      PROVE  (\A w \in Workers : Programmed(w))'
  <2>1. CASE Starting /\ UNCHANGED workerVars
    <3>1. stage # "serving"
      BY <2>1 DEF Starting, LoadManifest, LoadProvider, LoadedKind, _resolve_tool_providers,
         _resolve_model_providers, _resolve_endpoints, _resolve_agent_providers,
         _resolve_datasource_providers, _resolve_trigger_providers, _resolve_plugin_cls,
         _load_plugin_assets, _initialize_tcp_stream, Resolving
    <3>2. work' = work
      BY <2>1 DEF workerVars
    <3> QED
      BY <1>2, <3>1, <3>2 DEF Programmed
  <2>2. ASSUME NEW w \in Workers, Working(w) PROVE (\A v \in Workers : Programmed(v))'
    <3>1. Functions /\ Alone(w)
      BY <1>2, <2>2, OnItsOwn DEF Inv
    <3>2. stage' = stage /\ \A q, p : Calls(q, p) => Calls(q, p)'
      BY <2>2, StillRegistered, RegistrationStays
    <3>3. ASSUME NEW v \in Workers, v # w PROVE Programmed(v)'
      <4>1. work'[v] = work[v] /\ rest'[v] = rest[v]
        BY <3>1, <3>3 DEF Alone
      <4>2. PICK q, p : q = work[v].request /\ p = rest[v]
        OBVIOUS
      <4>3. work[v] # None => stage = "serving" /\ Calls(q, p)'
        BY <1>2, <3>2, <4>2 DEF Programmed
      <4> QED
        BY <3>2, <4>1, <4>2, <4>3 DEF Programmed
    <3>4. Programmed(w)'
      <4>1. CASE Take(w)
        <5>1. PICK q \in Requests, s \in Sessions, result \in {"whole", "generator", "error"},
                   writer \in BOOLEAN :
                /\ work'[w] = [session |-> s, request |-> q]
                /\ rest'[w] = register_route(w, q, result, writer)
          BY <3>1, <4>1 DEF Take, Functions
        <5>2. PICK p : p = register_route(w, q, result, writer)
          OBVIOUS
        <5>3. stage = "serving" /\ Calls(q, p)
          BY <1>2, <4>1, <5>2, RightProgram DEF Take, RegistrationInv
        <5>4. Calls(q, p)'
          BY <3>2, <5>3
        <5>5. work'[w].request = q /\ rest'[w] = p
          BY <5>1, <5>2
        <5> QED
          BY <3>2, <5>3, <5>4, <5>5 DEF Programmed
      <4>2. CASE Finish(w)
        <5>1. work'[w] = None
          BY <3>1, <4>2 DEF Finish, Functions
        <5> QED
          BY <5>1 DEF Programmed
      <4>3. CASE ~Take(w) /\ ~Finish(w)
        <5>1. /\ work' = work
              /\ \/ rest'[w] = rest[w] \/ rest'[w] = <<>>
                 \/ rest[w] # <<>> /\ rest'[w] = Tail(rest[w])
          BY <2>2, <3>1, <4>3, GoesOn DEF Functions
        <5>2. PICK q, p, r : q = work[w].request /\ p = rest[w] /\ r = rest'[w]
          OBVIOUS
        <5>3. work[w] # None => stage = "serving" /\ Calls(q, p)
          BY <1>2, <5>2 DEF Programmed
        <5>4. work[w] # None => Calls(q, r)
          BY <5>1, <5>2, <5>3, CallsNone, TailCalls
        <5>5. work[w] # None => Calls(q, r)'
          BY <3>2, <5>4
        <5> QED
          BY <3>2, <5>1, <5>2, <5>3, <5>5 DEF Programmed
      <4> QED
        BY <4>1, <4>2, <4>3
    <3> QED
      BY <3>3, <3>4
  <2>3. CASE UNCHANGED vars
    <3>1. UNCHANGED <<work, rest>> /\ UNCHANGED registrationVars
      BY <2>3 DEF vars, workerVars
    <3>2. stage' = stage /\ \A q, p : Calls(q, p) => Calls(q, p)'
      BY <3>1, RegistrationStays
    <3>3. ASSUME NEW v \in Workers PROVE Programmed(v)'
      <4>2. PICK q, p : q = work[v].request /\ p = rest[v]
        OBVIOUS
      <4>3. work[v] # None => stage = "serving" /\ Calls(q, p)'
        BY <1>2, <3>2, <4>2 DEF Programmed
      <4> QED
        BY <3>1, <3>2, <4>2, <4>3 DEF Programmed
    <3> QED
      BY <3>3
  <2> QED
    BY <1>2, <2>1, <2>2, <2>3 DEF Next
<1> QED
  BY <1>1, <1>2, Inductive, RegisteredAlways, PTL DEF Spec

(***************************************************************************)
(* Whatever the plugin's providers are called and however they share the   *)
(* names of items, the class of the plugin's that runs for a request was   *)
(* written for the provider, or declared with the path, that the request   *)
(* names, and implements what its action needs.                            *)
(***************************************************************************)
THEOREM CodeIsRight == Spec => []RightCode
<1>1. ASSUME \A w \in Workers : Programmed(w) PROVE RightCode
  <2>1. SUFFICES ASSUME NEW w \in Workers, Calling(w)
                 PROVE  Right(rest[w][1].code, work[w].request)
    BY DEF RightCode, Right
  <2>2. /\ work[w] # None /\ rest[w] # <<>>
        /\ rest[w][1].do \in {"run", "caught", "stream"}
    BY <2>1 DEF Calling, At
  <2>3. PICK p : p = rest[w] /\ Calls(work[w].request, p)
    BY <1>1, <2>2 DEF Programmed
  <2>4. 1 \in DOMAIN p
    <3>1. PICK S : p \in Seq(S)
      BY <2>3 DEF Calls
    <3>2. Len(p) \in Nat /\ Len(p) # 0 /\ DOMAIN p = 1 .. Len(p)
      BY <2>2, <2>3, <3>1, EmptySeq
    <3> QED
      BY <3>2
  <2> QED
    BY <2>2, <2>3, <2>4 DEF Calls
<1> QED
  BY <1>1, OnlyRightCode, PTL

-----------------------------------------------------------------------------
(* What was declared last.                                                 *)

(***************************************************************************)
(* The kinds of which the daemon can ask for an item by name, and for each *)
(* of them: the table, ...                                                 *)
(***************************************************************************)
Tabled == {"tools", "agent_strategies", "datasources", "triggers"}

Table(k) == CASE k = "tools"            -> tools
              [] k = "agent_strategies" -> agents
              [] k = "datasources"      -> datasources
              [] k = "triggers"         -> triggers

(***************************************************************************)
(* ... the base of its items' classes, ...                                 *)
(***************************************************************************)
Base(k, p) == CASE k = "tools"            -> "Tool"
                [] k = "agent_strategies" -> "AgentStrategy"
                [] k = "datasources"      -> DatasourceBase[p.type]
                [] k = "triggers"         -> "Event"

(***************************************************************************)
(* ... the entry's dictionary of them, ...                                 *)
(***************************************************************************)
ItemsOf(k, p, entry) == CASE k = "tools"            -> entry.items
                          [] k = "agent_strategies" -> entry
                          [] k = "datasources"      -> entry.items[p.type]
                          [] k = "triggers"         -> entry.events

(***************************************************************************)
(* ... and the classes.                                                    *)
(***************************************************************************)
ClassesOf(k, p) == item_classes(p, Base(k, p))

(***************************************************************************)
(* The table serves what p declares, and p declares what its tools do.     *)
(***************************************************************************)
Serves(k, p) ==
  /\ p.name \in DOMAIN Table(k)
  /\ ItemsOf(k, p, Table(k)[p.name]) = by_name(p.items, ClassesOf(k, p))
  /\ None \notin Elements(ClassesOf(k, p))
  /\ k = "tools" => \A i \in DOMAIN p.items :
       Tool_has_runtime_parameters(ClassesOf(k, p)[i]) => p.items[i].runtime

(***************************************************************************)
(* How many of the providers of a kind have been entered.                  *)
(***************************************************************************)
Done(k) ==
  IF stage \in {"assets", "connect", "serving"} THEN Len(configuration[k])
  ELSE IF stage # "resolve" \/ Index[k] > Index[kind] THEN 0
  ELSE IF k = kind THEN Len(configuration[k]) - Len(todo) ELSE Len(configuration[k])

(***************************************************************************)
(* No later one of the first n has the name of the i-th.                   *)
(***************************************************************************)
LastOf(s, n, i) == i \in 1 .. n /\ \A l \in i + 1 .. n : s[l].name # s[i].name

(***************************************************************************)
(* Of the providers that have been entered the last of each name is        *)
(* served.                                                                 *)
(***************************************************************************)
KindServed(k) ==
  \A i, p : LastOf(configuration[k], Done(k), i) /\ p = configuration[k][i] => Serves(k, p)

AllServed == \A k \in Tabled : KindServed(k)

(***************************************************************************)
(* These are kinds.                                                        *)
(***************************************************************************)
LEMMA TabledKinds == Tabled \subseteq DOMAIN Index
BY DEF Tabled, Index

(***************************************************************************)
(* Which classes the items have depends on the plugin only.                *)
(***************************************************************************)
LEMMA SameClasses ==
  ASSUME plugin' = plugin, NEW k, NEW p
  PROVE  ClassesOf(k, p)' = ClassesOf(k, p)
<1>1. \A parent, source :
        load_single_subclass(source, parent)' = load_single_subclass(source, parent)
  BY DEF load_single_subclass, import_fails, get_subclasses_from_module
<1>2. \A parent : item_classes(p, parent)' = item_classes(p, parent)
  BY <1>1 DEF item_classes
<1>3. Base(k, p)' = Base(k, p)
  BY DEF Base
<1> QED
  BY <1>2, <1>3 DEF ClassesOf

(***************************************************************************)
(* What is served depends on the plugin and on the table of the kind.      *)
(***************************************************************************)
LEMMA StillServed ==
  ASSUME plugin' = plugin, NEW k, Table(k)' = Table(k), NEW p, Serves(k, p)
  PROVE  Serves(k, p)'
BY SameClasses DEF Serves, ItemsOf

(***************************************************************************)
(* None have been entered while the files are read, and after a failure,   *)
(* ...                                                                     *)
(***************************************************************************)
LEMMA Reset ==
  ASSUME stage' \in {"read", "failed"}, NEW k \in Tabled
  PROVE  Done(k)' = 0
BY DEF Done

(***************************************************************************)
(* ... and then there is nothing to serve.                                 *)
(***************************************************************************)
LEMMA NothingServed ==
  ASSUME NEW k \in Tabled, Done(k) = 0 PROVE KindServed(k)
BY DEF KindServed, LastOf

(***************************************************************************)
(* No more have been entered than before.                                  *)
(***************************************************************************)
LEMMA ServedStays ==
  ASSUME plugin' = plugin, NEW k \in Tabled, Table(k)' = Table(k), KindServed(k),
         Done(k)' = 0 \/ (Done(k)' = Done(k) /\ configuration'[k] = configuration[k])
  PROVE  KindServed(k)'
<1>1. CASE Done(k)' = 0
  BY <1>1 DEF KindServed, LastOf
<1>2. CASE Done(k)' = Done(k) /\ configuration'[k] = configuration[k]
  BY <1>2, StillServed DEF KindServed, LastOf
<1> QED
  BY <1>1, <1>2

(***************************************************************************)
(* One more has been, under its name: those of other names are still       *)
(* there.                                                                  *)
(***************************************************************************)
LEMMA NextEntry ==
  ASSUME plugin' = plugin, NEW k \in Tabled, KindServed(k), NEW n \in Nat,
         Done(k) = n, Done(k)' = n + 1,
         NEW r, NEW entry, Table(k)' = Put(Table(k), r.name, entry), Serves(k, r)',
         configuration'[k][n + 1] = r,
         \A j \in 1 .. n : configuration'[k][j] = configuration[k][j]
  PROVE  KindServed(k)'
<1>1. PICK s, u : s = configuration[k] /\ u = configuration'[k]
  OBVIOUS
<1>2. SUFFICES ASSUME NEW i, LastOf(u, n + 1, i) PROVE Serves(k, u[i])'
  BY <1>1, <1>2 DEF KindServed
<1>3. CASE i = n + 1
  BY <1>1, <1>3
<1>4. CASE i # n + 1
  <2>1. i \in 1 .. n /\ u[i] = s[i] /\ u[n + 1].name # u[i].name
    BY <1>1, <1>2, <1>4 DEF LastOf
  <2>2. \A l \in i + 1 .. n : s[l].name # s[i].name
    BY <1>1, <1>2, <2>1 DEF LastOf
  <2>3. PICK p : p = s[i]
    OBVIOUS
  <2>4. Serves(k, p)
    BY <1>1, <2>1, <2>2, <2>3 DEF KindServed, LastOf
  <2>5. PICK f, g : f = Table(k) /\ g = Table(k)'
    OBVIOUS
  <2>6. g = Put(f, r.name, entry) /\ r.name # p.name
    BY <1>1, <2>1, <2>3, <2>5
  <2>7. p.name \in DOMAIN f
    BY <2>4, <2>5 DEF Serves
  <2>8. p.name \in DOMAIN g /\ g[p.name] = f[p.name]
    BY <2>6, <2>7 DEF Put
  <2>9. ClassesOf(k, p)' = ClassesOf(k, p)
    BY SameClasses
  <2>10. Serves(k, p)'
    BY <2>4, <2>5, <2>8, <2>9 DEF Serves, ItemsOf
  <2> QED
    BY <2>1, <2>3, <2>10
<1> QED
  BY <1>3, <1>4

(***************************************************************************)
(* Where another kind is entered, or none, no more of this kind are done;  *)
(* a kind is done when the next one's turn comes.                          *)
(***************************************************************************)
LEMMA DoneStays ==
  ASSUME Registered, NEW k \in Tabled, Starting, ~Resolving(k)
  PROVE  Done(k)' = 0 \/ (Done(k)' = Done(k) /\ configuration'[k] = configuration[k])
<1>0. k \in DOMAIN Index /\ kind \in DOMAIN Index
  BY TabledKinds DEF Registered
<1>1. CASE LoadManifest \/ LoadProvider
  BY <1>1, Reset DEF LoadManifest, LoadProvider, Fail, Done
<1>2. CASE LoadedKind
  <2>1. CASE kind = "triggers"
    <3>1. /\ stage' = "resolve" /\ kind' = "tools" /\ todo' = configuration["tools"]
          /\ configuration' = configuration
      BY <1>2, <2>1 DEF LoadedKind
    <3>2. CASE k = "tools"
      <4>1. configuration["tools"] \in Seq(Declarable("tools"))
        BY <1>0, <3>2 DEF Registered, Configured
      <4> QED
        BY <3>1, <3>2, <4>1 DEF Done
    <3>3. CASE k # "tools"
      <4>1. Index[k] > Index["tools"]
        BY <3>3 DEF Index, Tabled
      <4> QED
        BY <3>1, <4>1 DEF Done
    <3> QED
      BY <3>2, <3>3
  <2>2. CASE kind # "triggers"
    BY <1>2, <2>2, Reset DEF LoadedKind
  <2> QED
    BY <2>1, <2>2
<1>3. ASSUME kind # k,
             \/ Fail
             \/ UNCHANGED <<stage, kind>> /\ configuration'[k] = configuration[k]
      PROVE  Done(k)' = 0 \/ (Done(k)' = Done(k) /\ configuration'[k] = configuration[k])
  <2>1. CASE Fail
    BY <2>1, Reset DEF Fail
  <2>2. CASE UNCHANGED <<stage, kind>> /\ configuration'[k] = configuration[k]
    BY <1>3, <2>2 DEF Done
  <2> QED
    BY <1>3, <2>1, <2>2
<1>4. CASE _resolve_tool_providers
  <2>1. kind # k /\ k # "tools"
    BY <1>4 DEF _resolve_tool_providers, Resolving
  <2>2. CASE Fail
    BY <2>1, <2>2, <1>3
  <2>3. CASE ~Fail
    <3>1. /\ UNCHANGED <<stage, kind>>
          /\ \E i, r : configuration' = [configuration EXCEPT !["tools"][i] = r]
      BY <1>4, <2>3 DEF _resolve_tool_providers
    <3>2. configuration'[k] = configuration[k]
      BY <2>1, <3>1
    <3> QED
      BY <1>3, <2>1, <3>1, <3>2
  <2> QED
    BY <2>2, <2>3
<1>5. CASE _resolve_model_providers
  BY <1>3, <1>5 DEF _resolve_model_providers, Resolving
<1>6. CASE _resolve_endpoints
  BY <1>3, <1>6 DEF _resolve_endpoints, Resolving
<1>7. CASE _resolve_agent_providers
  BY <1>3, <1>7 DEF _resolve_agent_providers, Resolving
<1>8. CASE _resolve_datasource_providers
  BY <1>3, <1>8 DEF _resolve_datasource_providers, Resolving
<1>9. CASE _resolve_trigger_providers
  BY <1>3, <1>9 DEF _resolve_trigger_providers, Resolving
<1>10. CASE _resolve_plugin_cls
  <2>1. stage = "resolve" /\ todo = <<>> /\ configuration' = configuration
    BY <1>10 DEF _resolve_plugin_cls
  <2>2. PICK n \in Nat : n = Len(configuration[k])
    BY <1>0 DEF Registered, Configured
  <2>3. Len(todo) = 0
    BY <2>1
  <2>4. CASE kind = "triggers"
    <3>1. stage' = "assets"
      BY <1>10, <2>4 DEF _resolve_plugin_cls
    <3>2. Done(k)' = n
      BY <2>1, <2>2, <3>1 DEF Done
    <3>3. ~(Index[k] > Index[kind])
      BY <2>4 DEF Index, Tabled
    <3>4. Done(k) = n
      BY <2>1, <2>2, <2>3, <3>3 DEF Done
    <3> QED
      BY <2>1, <3>2, <3>4
  <2>5. CASE kind # "triggers"
    <3>1. stage' = "resolve" /\ kind' = NextKind /\ todo' = configuration[NextKind]
      BY <1>10, <2>1, <2>5 DEF _resolve_plugin_cls
    <3>2. NextKind \in DOMAIN Index /\ Index[NextKind] = Index[kind] + 1
      BY <1>0, <2>5, KindAfter
    <3>3. Index[k] \in 1 .. 6 /\ Index[kind] \in 1 .. 6 /\ (Index[k] = Index[kind] <=> k = kind)
      BY <1>0, KindsIndexed
    <3>4. CASE k = NextKind
      <4>1. Done(k)' = 0
        BY <2>1, <2>2, <3>1, <3>4 DEF Done
      <4> QED
        BY <4>1
    <3>5. CASE k # NextKind
      <4>1. Index[k] # Index[kind] + 1
        BY <1>0, <3>2, <3>5, KindsIndexed
      <4>2. CASE Index[k] > Index[kind]
        <5>1. Index[k] > Index[NextKind]
          BY <3>2, <3>3, <4>1, <4>2
        <5>2. Done(k)' = 0
          BY <3>1, <5>1 DEF Done
        <5> QED
          BY <5>2
      <4>3. CASE ~(Index[k] > Index[kind])
        <5>1. ~(Index[k] > Index[NextKind])
          BY <3>2, <3>3, <4>3
        <5>2. Done(k)' = n
          BY <2>1, <2>2, <3>1, <3>5, <5>1 DEF Done
        <5>3. Done(k) = n
          BY <2>1, <2>2, <2>3, <4>3 DEF Done
        <5> QED
          BY <2>1, <5>2, <5>3
      <4> QED
        BY <4>2, <4>3
    <3> QED
      BY <3>4, <3>5
  <2> QED
    BY <2>4, <2>5
<1>11. CASE _load_plugin_assets \/ _initialize_tcp_stream
  BY <1>11, Reset DEF _load_plugin_assets, _initialize_tcp_stream, Fail, Done
<1> QED
  BY <1>1, <1>2, <1>4, <1>5, <1>6, <1>7, <1>8, <1>9, <1>10, <1>11 DEF Starting

(***************************************************************************)
(* Each kind has its action, ...                                           *)
(***************************************************************************)
Resolver(k) == CASE k = "tools"            -> _resolve_tool_providers
                 [] k = "agent_strategies" -> _resolve_agent_providers
                 [] k = "datasources"      -> _resolve_datasource_providers
                 [] k = "triggers"         -> _resolve_trigger_providers

(***************************************************************************)
(* ... which is the only one in its turn, ...                              *)
(***************************************************************************)
LEMMA OneResolver ==
  ASSUME Starting, NEW k \in Tabled, Resolving(k) PROVE Resolver(k)
<1>1. stage = "resolve" /\ kind = k /\ todo # <<>>
  BY DEF Resolving
<1>2. /\ ~LoadManifest /\ ~LoadProvider /\ ~LoadedKind /\ ~_resolve_plugin_cls
      /\ ~_load_plugin_assets /\ ~_initialize_tcp_stream
  BY <1>1 DEF LoadManifest, LoadProvider, LoadedKind, _resolve_plugin_cls, _load_plugin_assets,
              _initialize_tcp_stream
<1>3. ~_resolve_model_providers /\ ~_resolve_endpoints
  BY <1>1 DEF _resolve_model_providers, _resolve_endpoints, Resolving, Tabled
<1>4. /\ _resolve_tool_providers => k = "tools"
      /\ _resolve_agent_providers => k = "agent_strategies"
      /\ _resolve_datasource_providers => k = "datasources"
      /\ _resolve_trigger_providers => k = "triggers"
  BY <1>1 DEF _resolve_tool_providers, _resolve_agent_providers,
              _resolve_datasource_providers, _resolve_trigger_providers, Resolving
<1> QED
  BY <1>2, <1>3, <1>4, Zenon DEF Starting, Resolver

(***************************************************************************)
(* ... and changes the table only then.                                    *)
(***************************************************************************)
LEMMA OtherTable ==
  ASSUME Starting, NEW k \in Tabled, ~Resolving(k) PROVE Table(k)' = Table(k)
<1>1. CASE k = "tools"
  BY <1>1, OneTable DEF Table, _resolve_tool_providers
<1>2. CASE k = "agent_strategies"
  BY <1>2, OneTable DEF Table, _resolve_agent_providers
<1>3. CASE k = "datasources"
  BY <1>3, OneTable DEF Table, _resolve_datasource_providers
<1>4. CASE k = "triggers"
  BY <1>4, OneTable DEF Table, _resolve_trigger_providers
<1> QED
  BY <1>1, <1>2, <1>3, <1>4 DEF Tabled

(***************************************************************************)
(* The provider that is entered is the one after those that have been.     *)
(***************************************************************************)
LEMMA AtHead ==
  ASSUME Registered, NEW k \in Tabled, Resolving(k)
  PROVE  \E n \in Nat :
           /\ Done(k) = n /\ n + 1 \in DOMAIN configuration[k]
           /\ n = Len(configuration[k]) - Len(todo)
           /\ Head(todo) \in Declarable(k) /\ Head(todo) = configuration[k][n + 1]
           /\ /\ Len(configuration'[k]) = Len(configuration[k])
              /\ UNCHANGED <<stage, kind>> /\ todo' = Tail(todo)
              => Done(k)' = n + 1
<1>1. k \in DOMAIN Index /\ stage = "resolve" /\ kind = k /\ todo # <<>>
  BY TabledKinds DEF Resolving
<1>2. PICK s \in Seq(Declarable(k)) : s = configuration[k]
  BY <1>1 DEF Registered, Configured
<1>3. todo \in Seq(Declarable(k)) /\ Left(todo, s)
  BY <1>1, <1>2 DEF Registered
<1>4. /\ Tail(todo) \in Seq(Declarable(k)) /\ Left(Tail(todo), s)
      /\ Len(s) - Len(todo) + 1 \in DOMAIN s /\ Head(todo) = s[Len(s) - Len(todo) + 1]
      /\ Len(s) - Len(Tail(todo)) = Len(s) - Len(todo) + 1
  BY <1>1, <1>3, NextLeft
<1>5. PICK n : n = Len(s) - Len(todo)
  OBVIOUS
<1>6. n \in Nat
  <2>1. Len(s) \in Nat /\ Len(todo) \in Nat /\ Len(todo) <= Len(s)
    BY <1>3 DEF Left
  <2> QED
    BY <1>5, <2>1
<1>7. Index[k] \in 1 .. 6
  BY <1>1, KindsIndexed
<1>8. Done(k) = n
  BY <1>1, <1>2, <1>5, <1>7 DEF Done
<1>9. ASSUME Len(configuration'[k]) = Len(s), UNCHANGED <<stage, kind>>, todo' = Tail(todo)
      PROVE  Done(k)' = n + 1
  BY <1>1, <1>4, <1>5, <1>7, <1>9 DEF Done
<1>10. /\ n + 1 \in DOMAIN configuration[k] /\ n = Len(configuration[k]) - Len(todo)
       /\ Head(todo) = configuration[k][n + 1]
  BY <1>2, <1>4, <1>5
<1>11. Head(todo) \in Declarable(k)
  <2>1. PICK D : D = Declarable(k)
    OBVIOUS
  <2>2. todo \in Seq(D) /\ todo # <<>>
    BY <1>1, <1>3, <2>1
  <2>3. Head(todo) \in D
    BY <2>2
  <2> QED
    BY <2>1, <2>3
<1> QED
  BY <1>2, <1>6, <1>8, <1>9, <1>10, <1>11

(***************************************************************************)
(* After a failure nothing needs to be served.                             *)
(***************************************************************************)
LEMMA Failed ==
  ASSUME Fail, NEW k \in Tabled PROVE KindServed(k)'
BY Reset DEF Fail, KindServed, LastOf

(***************************************************************************)
(* One whose declaration stays as it is, ...                               *)
(***************************************************************************)
LEMMA AsDeclared ==
  ASSUME Registered, NEW k \in Tabled, Resolving(k), KindServed(k),
         UNCHANGED <<plugin, stage, kind, configuration>>, todo' = Tail(todo),
         NEW p, p = Head(todo), NEW entry, Table(k)' = Put(Table(k), p.name, entry),
         ItemsOf(k, p, entry) = by_name(p.items, ClassesOf(k, p)),
         None \notin Elements(ClassesOf(k, p)), k # "tools"
  PROVE  KindServed(k)'
<1>1. PICK n \in Nat :
        /\ Done(k) = n /\ p = configuration[k][n + 1]
        /\ /\ Len(configuration'[k]) = Len(configuration[k])
           /\ UNCHANGED <<stage, kind>> /\ todo' = Tail(todo)
           => Done(k)' = n + 1
  BY AtHead
<1>2. Done(k)' = n + 1
  BY <1>1
<1>3. PICK f, g : f = Table(k) /\ g = Table(k)'
  OBVIOUS
<1>4. p.name \in DOMAIN g /\ g[p.name] = entry
  <2>1. g = Put(f, p.name, entry)
    BY <1>3
  <2> QED
    BY <2>1 DEF Put
<1>5. ClassesOf(k, p)' = ClassesOf(k, p)
  BY SameClasses
<1>6. Serves(k, p)'
  BY <1>3, <1>4, <1>5 DEF Serves, ItemsOf
<1>7. configuration'[k][n + 1] = p /\ \A j \in 1 .. n : configuration'[k][j] = configuration[k][j]
  BY <1>1
<1> QED
  BY <1>1, <1>2, <1>6, <1>7, NextEntry

(***************************************************************************)
(* ... as a strategy's, ...                                                *)
(***************************************************************************)
LEMMA AgentsServed ==
  ASSUME Registered, _resolve_agent_providers, KindServed("agent_strategies")
  PROVE  KindServed("agent_strategies")'
<1>0. "agent_strategies" \in Tabled /\ Resolving("agent_strategies")
  BY DEF Tabled, _resolve_agent_providers
<1>1. CASE Fail
  BY <1>0, <1>1, Failed
<1>2. CASE ~Fail
  <2>1. PICK p, loaded, entry :
          /\ p = Head(todo) /\ loaded = item_classes(p, "AgentStrategy")
          /\ None \notin Elements(loaded)
          /\ entry = by_name(p.items, loaded)
          /\ agents' = Put(agents, p.name, entry)
          /\ todo' = Tail(todo) /\ UNCHANGED <<plugin, stage, kind, configuration>>
    BY <1>2 DEF _resolve_agent_providers
  <2>2. loaded = ClassesOf("agent_strategies", p) /\ ItemsOf("agent_strategies", p, entry) = entry
    BY <2>1 DEF ClassesOf, Base, ItemsOf
  <2>3. Table("agent_strategies")' = Put(Table("agent_strategies"), p.name, entry)
    BY <2>1 DEF Table
  <2> QED
    BY <1>0, <2>1, <2>2, <2>3, AsDeclared
<1> QED
  BY <1>1, <1>2

(***************************************************************************)
(* ... a datasource's ...                                                  *)
(***************************************************************************)
LEMMA DatasourcesServed ==
  ASSUME Registered, _resolve_datasource_providers, KindServed("datasources")
  PROVE  KindServed("datasources")'
<1>0. "datasources" \in Tabled /\ Resolving("datasources")
  BY DEF Tabled, _resolve_datasource_providers
<1>1. CASE Fail
  BY <1>0, <1>1, Failed
<1>2. CASE ~Fail
  <2>1. PICK p, loaded, named, entry, cls :
          /\ p = Head(todo) /\ loaded = item_classes(p, DatasourceBase[p.type])
          /\ None \notin Elements(loaded)
          /\ named = by_name(p.items, loaded)
          /\ entry = [config |-> p, cls |-> cls,
                      items |-> [t \in DOMAIN DatasourceBase |->
                                   IF t = p.type THEN named ELSE Empty]]
          /\ datasources' = Put(datasources, p.name, entry)
          /\ todo' = Tail(todo) /\ UNCHANGED <<plugin, stage, kind, configuration>>
    BY <1>2 DEF _resolve_datasource_providers
  <2>2. p \in Declarable("datasources")
    BY <1>0, <2>1, AtHead
  <2>3. p.type \in DOMAIN DatasourceBase
    BY <2>2 DEF Declarable, Providers
  <2>4. entry.items[p.type] = named
    BY <2>1, <2>3
  <2>5. /\ loaded = ClassesOf("datasources", p)
        /\ ItemsOf("datasources", p, entry) = named
    BY <2>1, <2>4 DEF ClassesOf, Base, ItemsOf
  <2>6. Table("datasources")' = Put(Table("datasources"), p.name, entry)
    BY <2>1 DEF Table
  <2> QED
    BY <1>0, <2>1, <2>5, <2>6, AsDeclared
<1> QED
  BY <1>1, <1>2

(***************************************************************************)
(* ... and a trigger's do, ...                                             *)
(***************************************************************************)
LEMMA TriggersServed ==
  ASSUME Registered, _resolve_trigger_providers, KindServed("triggers")
  PROVE  KindServed("triggers")'
<1>0. "triggers" \in Tabled /\ Resolving("triggers")
  BY DEF Tabled, _resolve_trigger_providers
<1>1. CASE Fail
  BY <1>0, <1>1, Failed
<1>2. CASE ~Fail
  <2>1. PICK p, loaded, named, entry, cls, constructor :
          /\ p = Head(todo) /\ loaded = item_classes(p, "Event")
          /\ None \notin Elements(loaded)
          /\ named = by_name(p.items, loaded)
          /\ entry = [config |-> p, cls |-> cls, constructor |-> constructor, events |-> named]
          /\ triggers' = Put(triggers, p.name, entry)
          /\ todo' = Tail(todo) /\ UNCHANGED <<plugin, stage, kind, configuration>>
    BY <1>2 DEF _resolve_trigger_providers
  <2>2. loaded = ClassesOf("triggers", p) /\ ItemsOf("triggers", p, entry) = named
    BY <2>1 DEF ClassesOf, Base, ItemsOf
  <2>3. Table("triggers")' = Put(Table("triggers"), p.name, entry)
    BY <2>1 DEF Table
  <2> QED
    BY <1>0, <2>1, <2>2, <2>3, AsDeclared
<1> QED
  BY <1>1, <1>2

(***************************************************************************)
(* ... and one of tools, which then declares what they do.                 *)
(***************************************************************************)
LEMMA ToolsServed ==
  ASSUME Registered, _resolve_tool_providers, KindServed("tools")
  PROVE  KindServed("tools")'
<1>0. "tools" \in Tabled /\ Resolving("tools")
  BY DEF Tabled, _resolve_tool_providers
<1>1. CASE Fail
  BY <1>0, <1>1, Failed
<1>2. CASE ~Fail
  <2>1. PICK p, loaded, i, r, named, cls, entry :
          /\ p = Head(todo) /\ loaded = item_classes(p, "Tool")
          /\ None \notin Elements(loaded)
          /\ i = Len(configuration["tools"]) - Len(todo) + 1
          /\ r = with_runtime(p, loaded)
          /\ configuration' = [configuration EXCEPT !["tools"][i] = r]
          /\ named = by_name(p.items, loaded)
          /\ entry = [config |-> r, cls |-> cls, items |-> named]
          /\ tools' = Put(tools, p.name, entry)
          /\ todo' = Tail(todo) /\ UNCHANGED <<plugin, stage, kind>>
    BY <1>2 DEF _resolve_tool_providers
  <2>2. PICK n \in Nat :
          /\ Done("tools") = n /\ n + 1 \in DOMAIN configuration["tools"]
          /\ n = Len(configuration["tools"]) - Len(todo)
          /\ p \in Declarable("tools") /\ p = configuration["tools"][n + 1]
          /\ /\ Len(configuration'["tools"]) = Len(configuration["tools"])
             /\ UNCHANGED <<stage, kind>> /\ todo' = Tail(todo)
             => Done("tools")' = n + 1
    BY <1>0, <2>1, AtHead
  <2>3. PICK s \in Seq(Declarable("tools")) : s = configuration["tools"]
    BY <1>0, TabledKinds DEF Registered, Configured
  <2>4. DOMAIN loaded = DOMAIN p.items /\ plugin \in Plugins
    BY <2>1 DEF item_classes, Registered
  <2>5. /\ r \in Declarable("tools") /\ r.name = p.name /\ DOMAIN r.items = DOMAIN p.items
        /\ \A j \in DOMAIN p.items :
             /\ r.items[j].name = p.items[j].name
             /\ r.items[j].source = p.items[j].source
             /\ Tool_has_runtime_parameters(loaded[j]) => r.items[j].runtime
    BY <2>1, <2>2, <2>4, ToolRedeclared
  <2>6. PICK u : u = configuration'["tools"]
    OBVIOUS
  <2>7. u = [s EXCEPT ![n + 1] = r]
    <3>1. i = n + 1
      BY <2>1, <2>2
    <3>2. "tools" \in DOMAIN configuration
      BY <1>0, TabledKinds DEF Registered, Configured
    <3> QED
      BY <2>1, <2>3, <2>6, <3>1, <3>2
  <2>8. Len(u) = Len(s) /\ u[n + 1] = r /\ \A j \in 1 .. n : u[j] = s[j]
    <3>1. n + 1 \in DOMAIN s
      BY <2>2, <2>3
    <3> QED
      BY <2>5, <2>7, <3>1
  <2>9. Done("tools")' = n + 1
    BY <2>1, <2>2, <2>3, <2>6, <2>8
  <2>10. ClassesOf("tools", r) = loaded
    <3>1. \A j \in DOMAIN p.items : load_single_subclass(r.items[j].source, "Tool")
                                    = load_single_subclass(p.items[j].source, "Tool")
      BY <2>5
    <3>2. item_classes(r, "Tool") = item_classes(p, "Tool")
      BY <2>5, <3>1 DEF item_classes
    <3> QED
      BY <2>1, <3>2 DEF ClassesOf, Base
  <2>11. by_name(r.items, loaded) = named
    <3>1. {r.items[j].name : j \in DOMAIN r.items} = {p.items[j].name : j \in DOMAIN p.items}
      BY <2>5
    <3>2. \A m : {j \in DOMAIN r.items : r.items[j].name = m}
                 = {j \in DOMAIN p.items : p.items[j].name = m}
      BY <2>5
    <3>3. PICK N : N = {p.items[j].name : j \in DOMAIN p.items}
      OBVIOUS
    <3>4. by_name(r.items, loaded)
          = [m \in N |-> loaded[Max({j \in DOMAIN r.items : r.items[j].name = m})]]
      BY <3>1, <3>3 DEF by_name
    <3>5. named = [m \in N |-> loaded[Max({j \in DOMAIN p.items : p.items[j].name = m})]]
      BY <2>1, <3>3 DEF by_name
    <3>6. \A m \in N : loaded[Max({j \in DOMAIN r.items : r.items[j].name = m})]
                       = loaded[Max({j \in DOMAIN p.items : p.items[j].name = m})]
      BY <3>2
    <3> QED
      BY <3>4, <3>5, <3>6
  <2>12. Table("tools")' = Put(Table("tools"), r.name, entry)
    BY <2>1, <2>5 DEF Table
  <2>13. Serves("tools", r)'
    <3>1. PICK f, g : f = Table("tools") /\ g = Table("tools")'
      OBVIOUS
    <3>2. r.name \in DOMAIN g /\ g[r.name] = entry
      <4>1. g = Put(f, r.name, entry)
        BY <2>12, <3>1
      <4> QED
        BY <4>1 DEF Put
    <3>3. ClassesOf("tools", r)' = loaded
      BY <2>1, <2>10, SameClasses
    <3>4. ItemsOf("tools", r, entry) = named
      BY <2>1 DEF ItemsOf
    <3>5. \A j \in DOMAIN r.items : Tool_has_runtime_parameters(loaded[j]) => r.items[j].runtime
      BY <2>5
    <3>6. PICK v : v = ClassesOf("tools", r)'
      OBVIOUS
    <3>7. ItemsOf("tools", r, entry)' = ItemsOf("tools", r, entry)
      BY DEF ItemsOf
    <3> QED
      BY <2>1, <2>11, <3>1, <3>2, <3>3, <3>4, <3>5 DEF Serves, ItemsOf
  <2> QED
    BY <1>0, <2>1, <2>2, <2>3, <2>6, <2>8, <2>9, <2>12, <2>13, NextEntry
<1> QED
  BY <1>1, <1>2

(***************************************************************************)
(* What starts the plugin keeps serving the last of each name.             *)
(***************************************************************************)
LEMMA AllServedStays ==
  ASSUME Registered, Starting, AllServed PROVE AllServed'
<1>1. SUFFICES ASSUME NEW k \in Tabled PROVE KindServed(k)'
  BY DEF AllServed
<1>2. KindServed(k)
  BY DEF AllServed
<1>3. CASE ~Resolving(k)
  <2>1. plugin' = plugin
    BY DEF Starting, LoadManifest, LoadProvider, LoadedKind, _resolve_tool_providers,
           _resolve_model_providers, _resolve_endpoints, _resolve_agent_providers,
           _resolve_datasource_providers, _resolve_trigger_providers, _resolve_plugin_cls,
           _load_plugin_assets, _initialize_tcp_stream
  <2>2. Table(k)' = Table(k)
    BY <1>3, OtherTable
  <2>3. Done(k)' = 0 \/ (Done(k)' = Done(k) /\ configuration'[k] = configuration[k])
    BY <1>3, DoneStays
  <2> QED
    BY <1>2, <2>1, <2>2, <2>3, ServedStays
<1>4. CASE Resolving(k)
  <2>1. Resolver(k)
    BY <1>4, OneResolver
  <2>2. CASE k = "tools"
    BY <1>2, <2>1, <2>2, ToolsServed DEF Resolver
  <2>3. CASE k = "agent_strategies"
    BY <1>2, <2>1, <2>3, AgentsServed DEF Resolver
  <2>4. CASE k = "datasources"
    BY <1>2, <2>1, <2>4, DatasourcesServed DEF Resolver
  <2>5. CASE k = "triggers"
    BY <1>2, <2>1, <2>5, TriggersServed DEF Resolver
  <2> QED
    BY <2>2, <2>3, <2>4, <2>5 DEF Tabled
<1> QED
  BY <1>3, <1>4

-----------------------------------------------------------------------------
(* What was announced of it.                                               *)

(***************************************************************************)
(* These are announced under names of their own.                           *)
(***************************************************************************)
LEMMA KindsFound ==
  ASSUME NEW k \in Tabled
  PROVE  /\ \E n \in 1 .. 6 : Kinds[n] = k
         /\ k \notin {"manifest", "end", "asset_chunk"}
<1>1. /\ Kinds[1] = "tools" /\ Kinds[4] = "agent_strategies"
      /\ Kinds[5] = "datasources" /\ Kinds[6] = "triggers"
  BY DEF Kinds
<1> QED
  BY <1>1 DEF Tabled

(***************************************************************************)
(* A kind is announced once, as it was configured, if it has any           *)
(* providers.                                                              *)
(***************************************************************************)
LEMMA ToldOfKind ==
  ASSUME Told, stage = "serving", NEW k \in Tabled, NEW a
  PROVE  a \in Elements(announced) /\ a.type = k
         <=> configuration[k] # <<>> /\ a = Announcement(k, configuration[k])
<1>1. PICK O : \E m, d, e \in Seq(O) : \E c \in Seq(Chunks) :
              /\ \A b \in O : b.type # "asset_chunk"
              /\ AllOf(files, c) /\ announced = m \o d \o c \o e
              /\ m = <<Announcement("manifest", <<>>)>> /\ e = <<Announcement("end", <<>>)>>
              /\ \A b : b \in Elements(d) <=>
                   \E n \in 1 .. 6 : /\ configuration[Kinds[n]] # <<>>
                                     /\ b = Announcement(Kinds[n], configuration[Kinds[n]])
  BY Parts
<1>2. PICK m \in Seq(O), d \in Seq(O), e \in Seq(O), c \in Seq(Chunks) :
        /\ announced = m \o d \o c \o e
        /\ m = <<Announcement("manifest", <<>>)>> /\ e = <<Announcement("end", <<>>)>>
        /\ \A b : b \in Elements(d) <=>
             \E n \in 1 .. 6 : /\ configuration[Kinds[n]] # <<>>
                               /\ b = Announcement(Kinds[n], configuration[Kinds[n]])
  BY <1>1
<1>3. PICK A : A = O \cup Chunks
  OBVIOUS
<1>4. m \in Seq(A) /\ d \in Seq(A) /\ c \in Seq(A) /\ e \in Seq(A)
  BY <1>3
<1>5. PICK x \in Seq(A) : x = m \o d
  BY <1>4, ConcatProperties
<1>6. PICK y \in Seq(A) : y = x \o c /\ announced = y \o e
  <2>1. x \o c \in Seq(A)
    BY <1>4, ConcatProperties
  <2> QED
    BY <1>2, <1>5, <2>1
<1>7. a \in Elements(announced) <=> \/ a \in Elements(m) \/ a \in Elements(d)
                                    \/ a \in Elements(c) \/ a \in Elements(e)
  <2>1. a \in Elements(x) <=> a \in Elements(m) \/ a \in Elements(d)
    BY <1>4, <1>5, ConcatElements
  <2>2. a \in Elements(y) <=> a \in Elements(x) \/ a \in Elements(c)
    BY <1>4, <1>6, ConcatElements
  <2>3. a \in Elements(announced) <=> a \in Elements(y) \/ a \in Elements(e)
    BY <1>4, <1>6, ConcatElements
  <2> QED
    BY <2>1, <2>2, <2>3
<1>8. a \in Elements(m) => a.type = "manifest"
  BY <1>2 DEF Elements, Announcement
<1>9. a \in Elements(e) => a.type = "end"
  BY <1>2 DEF Elements, Announcement
<1>10. a \in Elements(c) => a.type = "asset_chunk"
  <2>1. \A i \in DOMAIN c : c[i] \in Chunks
    OBVIOUS
  <2> QED
    BY <2>1 DEF Elements, Chunks
<1>11. (a \in Elements(d) /\ a.type = k)
       <=> (configuration[k] # <<>> /\ a = Announcement(k, configuration[k]))
  <2>1. PICK n \in 1 .. 6 : Kinds[n] = k
    BY KindsFound
  <2>2. \A l : Announcement(l, configuration[l]).type = l
    BY DEF Announcement
  <2>3. ASSUME a \in Elements(d), a.type = k
        PROVE  configuration[k] # <<>> /\ a = Announcement(k, configuration[k])
    <3>1. PICK l \in 1 .. 6 : /\ configuration[Kinds[l]] # <<>>
                              /\ a = Announcement(Kinds[l], configuration[Kinds[l]])
      BY <1>2, <2>3
    <3>2. Kinds[l] = k
      BY <2>2, <2>3, <3>1
    <3> QED
      BY <3>1, <3>2
  <2>4. ASSUME configuration[k] # <<>>, a = Announcement(k, configuration[k])
        PROVE  a \in Elements(d) /\ a.type = k
    BY <1>2, <2>1, <2>2, <2>4
  <2> QED
    BY <2>3, <2>4
<1> QED
  BY <1>7, <1>8, <1>9, <1>10, <1>11, KindsFound

(***************************************************************************)
(* What counts of the announcement is the last declaration of each name.   *)
(***************************************************************************)
LEMMA DeclaredLast ==
  ASSUME Told, Registered, stage = "serving", NEW k \in Tabled, NEW p \in Declared(k)
  PROVE  /\ p \in Declarable(k)
         /\ \E i : LastOf(configuration[k], Done(k), i) /\ p = configuration[k][i]
<1>1. PICK s \in Seq(Declarable(k)) : s = configuration[k]
  BY TabledKinds DEF Registered, Configured
<1> DEFINE told == {announced[i] : i \in DOMAIN announced}
           all == IF \E a \in told : a.type = k
                  THEN (CHOOSE a \in told : a.type = k).data ELSE <<>>
<1>2. p \in {all[i] : i \in {j \in DOMAIN all :
                               \A l \in j + 1 .. Len(all) : all[l].name # all[j].name}}
  BY DEF Declared
<1>3. told = Elements(announced)
  BY DEF Elements
<1>4. all = IF \E a \in told : a.type = k THEN (CHOOSE a \in told : a.type = k).data ELSE <<>>
  OBVIOUS
<1> HIDE DEF told, all
<1>5. all = s
  <2>1. CASE s = <<>>
    <3>1. \A a \in told : a.type # k
      BY <1>1, <1>3, <2>1, ToldOfKind
    <3> QED
      BY <1>4, <2>1, <3>1
  <2>2. CASE s # <<>>
    <3>1. PICK b : b = Announcement(k, s)
      OBVIOUS
    <3>2. \A a : a \in told /\ a.type = k <=> a = b
      BY <1>1, <1>3, <2>2, <3>1, ToldOfKind
    <3>3. all = b.data
      BY <1>4, <3>2
    <3> QED
      BY <3>1, <3>3 DEF Announcement
  <2> QED
    BY <2>1, <2>2
<1>6. PICK i \in DOMAIN s : p = s[i] /\ \A l \in i + 1 .. Len(s) : s[l].name # s[i].name
  BY <1>2, <1>5
<1>7. Done(k) = Len(s)
  BY <1>1 DEF Done
<1> QED
  BY <1>1, <1>6, <1>7 DEF LastOf

(***************************************************************************)
(* What a request for an item finds.                                       *)
(***************************************************************************)
LEMMA ServedIs ==
  ASSUME NEW k \in Tabled, NEW p \in Declarable(k), p.name \in DOMAIN Table(k), NEW item
  PROVE  Served(k, p, item) = Lookup(ItemsOf(k, p, Table(k)[p.name]), item)
<1>1. CASE k = "tools"
  BY <1>1 DEF Served, get_tool_cls, ItemsOf, Table
<1>2. CASE k = "agent_strategies"
  BY <1>2 DEF Served, get_agent_strategy_cls, ItemsOf, Table
<1>3. CASE k = "triggers"
  BY <1>3 DEF Served, get_trigger_event_handler, ItemsOf, Table
<1>4. CASE k = "datasources"
  <2>1. p.name \in DOMAIN datasources
    BY <1>4 DEF Table
  <2>2. ItemsOf(k, p, Table(k)[p.name]) = datasources[p.name].items[p.type]
    BY <1>4 DEF ItemsOf, Table
  <2>3. p.type \in {"website_crawl", "online_document", "online_drive"}
    BY <1>4 DEF Declarable, Providers, DatasourceBase
  <2>4. CASE p.type = "website_crawl"
    BY <1>4, <2>1, <2>2, <2>4 DEF Served, get_website_crawl_datasource_cls
  <2>5. CASE p.type = "online_document"
    BY <1>4, <2>1, <2>2, <2>5 DEF Served, get_online_document_datasource_cls
  <2>6. CASE p.type = "online_drive"
    BY <1>4, <2>1, <2>2, <2>6 DEF Served, get_online_drive_datasource_cls
  <2> QED
    BY <2>3, <2>4, <2>5, <2>6
<1> QED
  BY <1>1, <1>2, <1>3, <1>4 DEF Tabled

(***************************************************************************)
(* The daemon was told all of it.                                          *)
(***************************************************************************)
LEMMA AnnouncedServed ==
  ASSUME Told, Registered, AllServed PROVE AnnouncedIsServed
<1>1. SUFFICES ASSUME stage = "serving",
                      NEW k \in {"tools", "agent_strategies", "datasources", "triggers"},
                      NEW p \in Declared(k), NEW item \in {q.item : q \in Requests}
               PROVE  LET c == Served(k, p, item)
                          named == {i \in DOMAIN p.items : p.items[i].name = item}
                      IN  /\ c = None <=> named = {}
                          /\ c # None => \E i \in named :
                               /\ c \in Elements(plugin.modules[p.items[i].source])
                               /\ k = "tools" /\ Tool_has_runtime_parameters(c)
                                  => p.items[i].runtime
  BY Zenon DEF AnnouncedIsServed
<1> k \in Tabled
  BY DEF Tabled
<1> DEFINE c == Served(k, p, item)
           named == {i \in DOMAIN p.items : p.items[i].name = item}
<1>2. SUFFICES /\ c = None <=> named = {}
               /\ c # None => \E i \in named :
                    /\ c \in Elements(plugin.modules[p.items[i].source])
                    /\ k = "tools" /\ Tool_has_runtime_parameters(c) => p.items[i].runtime
  OBVIOUS
<1> HIDE DEF c
<1>3. p \in Declarable(k) /\ Serves(k, p)
  <2>1. /\ p \in Declarable(k)
        /\ \E i : LastOf(configuration[k], Done(k), i) /\ p = configuration[k][i]
    BY <1>1, DeclaredLast
  <2> QED
    BY <2>1 DEF AllServed, KindServed
<1>4. PICK t : t = ItemsOf(k, p, Table(k)[p.name])
  OBVIOUS
<1>5. c = Lookup(t, item)
  BY <1>3, <1>4, ServedIs DEF Serves, c
<1>6. PICK parent : parent = Base(k, p)
  OBVIOUS
<1>7. t = by_name(p.items, item_classes(p, parent)) /\ None \notin Elements(item_classes(p, parent))
  BY <1>3, <1>4, <1>6 DEF Serves, ClassesOf
<1>8. /\ \A n \in DOMAIN t : \E i \in DOMAIN p.items :
           /\ p.items[i].name = n /\ t[n] = item_classes(p, parent)[i]
           /\ t[n] # None /\ t[n] \in Elements(plugin.modules[p.items[i].source])
      /\ \A i \in DOMAIN p.items : p.items[i].name \in DOMAIN t
  <2>1. Sound(p) /\ plugin \in Plugins
    BY <1>3 DEF Declarable, Registered
  <2>2. /\ \A n \in DOMAIN t : \E i \in DOMAIN p.items :
             /\ p.items[i].name = n /\ t[n] = item_classes(p, parent)[i]
             /\ t[n] # None /\ Own(t[n], parent, p.name)
             /\ t[n] \in Elements(plugin.modules[p.items[i].source])
        /\ \A i \in DOMAIN p.items : p.items[i].name \in DOMAIN t
    BY <1>7, <2>1, ItemsLoaded
  <2> QED
    BY <2>2
<1>9. CASE item \in DOMAIN t
  <2>1. c = t[item]
    BY <1>5, <1>9 DEF Lookup
  <2>2. PICK i \in DOMAIN p.items :
          /\ p.items[i].name = item /\ c = item_classes(p, parent)[i]
          /\ c # None /\ c \in Elements(plugin.modules[p.items[i].source])
    BY <1>8, <1>9, <2>1
  <2>3. i \in named
    BY <2>2
  <2>4. k = "tools" /\ Tool_has_runtime_parameters(c) => p.items[i].runtime
    BY <1>3, <1>6, <2>2 DEF Serves, ClassesOf
  <2> QED
    BY <2>2, <2>3, <2>4
<1>10. CASE item \notin DOMAIN t
  <2>1. c = None
    BY <1>5, <1>10 DEF Lookup
  <2>2. named = {}
    BY <1>8, <1>10
  <2> QED
    BY <2>1, <2>2
<1> QED
  BY <1>9, <1>10

(***************************************************************************)
(* This is an invariant.                                                   *)
(***************************************************************************)
LEMMA AllServedAlways == Spec => []AllServed
<1>1. Init => AllServed
  <2>1. ASSUME Init, NEW k \in Tabled PROVE Done(k) = 0
    BY <2>1 DEF Init, RegistrationInit, Done
  <2> QED
    BY <2>1, NothingServed DEF AllServed
<1>2. ASSUME RegistrationInv, AllServed, [Next]_vars PROVE AllServed'
  <2>1. CASE Starting
    BY <1>2, <2>1, AllServedStays DEF RegistrationInv
  <2>2. CASE UNCHANGED registrationVars
    <3>1. /\ UNCHANGED <<plugin, stage, kind, todo, configuration>>
          /\ UNCHANGED <<tools, models, endpoints, agents, datasources, triggers>>
      BY <2>2 DEF registrationVars, tables
    <3>2. ASSUME NEW k \in Tabled PROVE KindServed(k)'
      <4>1. Table(k)' = Table(k)
        BY <3>1 DEF Table
      <4>2. Done(k)' = Done(k)
        BY <3>1 DEF Done
      <4>3. KindServed(k)
        BY <1>2 DEF AllServed
      <4> QED
        BY <3>1, <4>1, <4>2, <4>3, ServedStays
    <3> QED
      BY <3>2 DEF AllServed
  <2>3. CASE UNCHANGED vars
    BY <2>2, <2>3 DEF vars
  <2> QED
    BY <1>2, <2>1, <2>2, <2>3, StillRegistered DEF Next
<1> QED
  BY <1>1, <1>2, RegisteredAlways, PTL DEF Spec

(***************************************************************************)
(* What the daemon of a remote plugin was told is what the plugin serves:  *)
(* of each provider, its last declaration counting, the items announced    *)
(* and no others, each by a class of the source it was declared with, and  *)
(* a tool that computes its parameters is announced to do so.              *)
(***************************************************************************)
THEOREM WhatIsAnnouncedIsServed == Spec => []AnnouncedIsServed
<1>1. Told /\ RegistrationInv /\ AllServed => AnnouncedIsServed
  BY AnnouncedServed DEF RegistrationInv
<1> QED
  BY <1>1, ToldAlways, RegisteredAlways, AllServedAlways, PTL
=============================================================================
