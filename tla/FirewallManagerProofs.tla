------------------------- MODULE FirewallManagerProofs -------------------------
(***************************************************************************)
(* What the manager of the firewall library promises its operators, for    *)
(* any number of operators, addresses, ports, calls and failures: what was *)
(* answered is in force, survives a restart of the firewall and is shown   *)
(* (AnsweredIsInForce).  The three parts have an inductive invariant each. *)
(*                                                                         *)
(* Whole: the records have their fields, and what is left of a call's      *)
(* program is well formed: a change of the permanent configuration is      *)
(* followed by a reload, a look at the status by the storing of it, and    *)
(* the deletion of a listed rule comes last.  This is all that             *)
(* RuntimeFollowsPermanent needs.                                          *)
(*                                                                         *)
(* Guarded: while no command failed and no rule was removed by its place,  *)
(* the firewall is on, so is every rule of its chain, no program that is   *)
(* under way takes away what keeps an address out (but for the address it  *)
(* unblocks), and a call that blocks an address has come as far as its     *)
(* program says.                                                           *)
(*                                                                         *)
(* Tended: while calls do not overlap and only those are made that forget  *)
(* the status before they write, the cached status is the server's, or the *)
(* call under way has it forgotten already or will do so first.            *)
(***************************************************************************)
EXTENDS MCFirewall, FiniteSetTheorems, SequenceTheorems, WellFoundedInduction, TLAPS

-----------------------------------------------------------------------------
\* Sequences.

IsSeq(s) == s \in Seq(Range(s))

\* A sequence of anything is one of what stands in it.
LEMMA SeqIsSeq == ASSUME NEW S, NEW s \in Seq(S) PROVE IsSeq(s)
  BY DEF IsSeq, Range

LEMMA SeqDomain == ASSUME NEW s, IsSeq(s) PROVE DOMAIN s = 1 .. Len(s) /\ Len(s) \in Nat
  BY DEF IsSeq

\* What is left of a program after its first command.
LEMMA TailIsSeq ==
  ASSUME NEW s, IsSeq(s), s # <<>>
  PROVE  /\ IsSeq(Tail(s)) /\ DOMAIN Tail(s) = 1 .. (Len(s) - 1) /\ Len(s) \in Nat \ {0}
         /\ \A i \in DOMAIN Tail(s) : i + 1 \in DOMAIN s /\ Tail(s)[i] = s[i + 1]
<1>1. Tail(s) \in Seq(Range(s)) /\ Len(Tail(s)) = Len(s) - 1
  BY DEF IsSeq
<1>2. IsSeq(Tail(s))
  BY <1>1, SeqIsSeq
<1> QED
  BY <1>1, <1>2, SeqDomain DEF IsSeq

\* What comes behind a first command.
LEMMA ConsIsSeq ==
  ASSUME NEW a, NEW s, IsSeq(s)
  PROVE  LET t == <<a>> \o s
         IN  /\ IsSeq(t) /\ DOMAIN t = 1 .. (Len(s) + 1) /\ t[1] = a /\ t # <<>>
             /\ \A i \in DOMAIN s : t[i + 1] = s[i]
             /\ Tail(t) = s
<1> DEFINE S == Range(s) \cup {a}
           t == <<a>> \o s
<1>1. s \in Seq(S) /\ <<a>> \in Seq(S) /\ Len(<<a>>) = 1
  BY DEF IsSeq
<1>2. t \in Seq(S) /\ Len(t) = 1 + Len(s) /\ \A i \in 1 .. 1 + Len(s) : t[i] = IF i <= 1 THEN <<a>>[i] ELSE s[i - 1]
  <2>1. /\ t \in Seq(S) /\ Len(t) = Len(<<a>>) + Len(s)
        /\ \A i \in 1 .. Len(<<a>>) + Len(s) : t[i] = IF i <= Len(<<a>>) THEN <<a>>[i] ELSE s[i - Len(<<a>>)]
    <3> HIDE DEF S
    <3> QED BY <1>1, ConcatProperties
  <2> QED
    BY <1>1, <2>1
<1>3. IsSeq(t) /\ DOMAIN t = 1 .. (Len(s) + 1) /\ t[1] = a /\ t # <<>>
  <2>1. IsSeq(t)
    <3> HIDE DEF S, t
    <3> QED BY <1>2, SeqIsSeq
  <2>2. Len(s) \in Nat /\ DOMAIN t = 1 .. Len(t)
    BY <1>1, <1>2
  <2>3. t[1] = a
    BY <1>2, <2>2
  <2> QED
    <3> HIDE DEF S, t
    <3> QED BY <1>2, <2>1, <2>2, <2>3
<1>4. \A i \in DOMAIN s : t[i + 1] = s[i]
  BY <1>1, <1>2
<1>5. Tail(t) = s
  <2>1. Tail(t) \in Seq(S) /\ Len(Tail(t)) = Len(s) /\ \A i \in 1 .. Len(s) : Tail(t)[i] = t[i + 1]
    BY <1>1, <1>2, <1>3
  <2> QED
    BY <1>1, <2>1, <1>4, SeqEqual
<1> QED
  BY <1>3, <1>4, <1>5

\* Programs of no, one, two and three commands.
LEMMA EmptyIsSeq == IsSeq(<<>>) /\ DOMAIN <<>> = {}
<1>1. <<>> \in Seq({})
  OBVIOUS
<1>2. IsSeq(<<>>)
  BY <1>1, SeqIsSeq
<1>3. DOMAIN <<>> = {}
  OBVIOUS
<1> QED
  BY <1>2, <1>3

LEMMA OneIsSeq ==
  ASSUME NEW a
  PROVE  IsSeq(<<a>>) /\ DOMAIN <<a>> = {1} /\ Tail(<<a>>) = <<>>
<1>1. <<a>> \in Seq({a})
  OBVIOUS
<1>2. IsSeq(<<a>>)
  BY <1>1, SeqIsSeq
<1>3. DOMAIN <<a>> = {1}
  OBVIOUS
<1>4. Tail(<<a>>) = <<>>
  OBVIOUS
<1> QED
  BY <1>2, <1>3, <1>4

LEMMA TwoAreSeq ==
  ASSUME NEW a, NEW b
  PROVE  IsSeq(<<a, b>>) /\ DOMAIN <<a, b>> = {1, 2} /\ Tail(<<a, b>>) = <<b>>
<1>1. <<a, b>> \in Seq({a, b})
  OBVIOUS
<1>2. IsSeq(<<a, b>>)
  BY <1>1, SeqIsSeq
<1> QED
  BY <1>2

LEMMA ThreeAreSeq ==
  ASSUME NEW a, NEW b, NEW c
  PROVE  IsSeq(<<a, b, c>>) /\ DOMAIN <<a, b, c>> = {1, 2, 3} /\ Tail(<<a, b, c>>) = <<b, c>>
<1>1. <<a, b, c>> \in Seq({a, b, c})
  OBVIOUS
<1>2. IsSeq(<<a, b, c>>)
  BY <1>1, SeqIsSeq
<1>3. DOMAIN <<a, b, c>> = {1, 2, 3}
  OBVIOUS
<1>4. Tail(<<a, b, c>>) = <<b, c>>
  <2>1. Tail(<<a, b, c>>) \in Seq({a, b, c}) /\ <<b, c>> \in Seq({a, b, c})
    OBVIOUS
  <2>2. Len(Tail(<<a, b, c>>)) = 2 /\ Len(<<b, c>>) = 2 /\ Tail(<<a, b, c>>)[1] = b /\ Tail(<<a, b, c>>)[2] = c
    OBVIOUS
  <2> QED
    BY <2>1, <2>2, SeqEqual
<1> QED
  BY <1>2, <1>3, <1>4

-----------------------------------------------------------------------------
\* A change of the permanent configuration is followed by a reload, a look at the cached
\* status by the storing of what was read.
Alters(c) == c[1] \in {"permanent", "not_permanent"}
Follows(t) ==
    /\ IsSeq(t)
    /\ \A i \in DOMAIN t :
         /\ Alters(t[i]) => \E j \in DOMAIN t : j > i /\ t[j][1] = "reload"
         /\ t[i][1] = "read" => i + 1 \in DOMAIN t /\ t[i + 1][1] = "store"
         /\ t[i][1] = "delete_listed" => i + 1 \notin DOMAIN t

\* The programs are made of such parts.
LEMMA NoneFollows == Follows(<<>>)
  BY EmptyIsSeq DEF Follows

LEMMA OneFollows ==
  ASSUME NEW a, ~ Alters(a), a[1] # "read"
  PROVE  Follows(<<a>>)
  BY OneIsSeq DEF Follows

\* Programs whose commands do not alter anything without a reload after it.
LEMMA TwoFollow ==
  ASSUME NEW a, NEW b, Alters(a) => b[1] = "reload", a[1] = "read" => b[1] = "store",
         ~ Alters(b), b[1] # "read", a[1] # "delete_listed"
  PROVE  Follows(<<a, b>>)
<1> DEFINE t == <<a, b>>
<1>1. IsSeq(t) /\ DOMAIN t = {1, 2}
  BY TwoAreSeq
<1>2. t[1] = a /\ t[2] = b
  OBVIOUS
<1> HIDE DEF t
<1>3. Alters(t[1]) => 2 \in DOMAIN t /\ 2 > 1 /\ t[2][1] = "reload"
  BY <1>1, <1>2
<1>4. t[1][1] = "read" => 1 + 1 \in DOMAIN t /\ t[1 + 1][1] = "store"
  BY <1>1, <1>2
<1>5. ~ Alters(t[2]) /\ t[2][1] # "read" /\ t[1][1] # "delete_listed" /\ 2 + 1 \notin DOMAIN t
  BY <1>1, <1>2
<1>6. ASSUME NEW i \in DOMAIN t
      PROVE  /\ Alters(t[i]) => \E j \in DOMAIN t : j > i /\ t[j][1] = "reload"
             /\ t[i][1] = "read" => i + 1 \in DOMAIN t /\ t[i + 1][1] = "store"
             /\ t[i][1] = "delete_listed" => i + 1 \notin DOMAIN t
  <2>1. i = 1 \/ i = 2
    BY <1>1
  <2> QED
    BY <1>3, <1>4, <1>5, <2>1
<1>7. Follows(t)
  BY <1>1, <1>6 DEF Follows
<1> QED
  BY <1>7 DEF t

\* A command before two others.
LEMMA ThreeFollow ==
  ASSUME NEW a, NEW b, NEW c, Follows(<<b, c>>),
         Alters(a) => b[1] = "reload" \/ c[1] = "reload", a[1] = "read" => b[1] = "store",
         a[1] # "delete_listed"
  PROVE  Follows(<<a, b, c>>)
<1> DEFINE t == <<a, b, c>>
           s == <<b, c>>
<1>1. IsSeq(t) /\ DOMAIN t = {1, 2, 3} /\ DOMAIN s = {1, 2}
  BY TwoAreSeq, ThreeAreSeq
<1>2. t[1] = a /\ t[2] = b /\ t[3] = c /\ s[1] = b /\ s[2] = c
  OBVIOUS
<1>3. Follows(s)
  OBVIOUS
<1> HIDE DEF t, s
<1>4. \A i \in {1, 2} : t[i + 1] = s[i]
  BY <1>2
<1>5. Alters(t[1]) => \E j \in DOMAIN t : j > 1 /\ t[j][1] = "reload"
  BY <1>1, <1>2
<1>6. t[1][1] # "delete_listed" /\ (t[1][1] = "read" => 1 + 1 \in DOMAIN t /\ t[1 + 1][1] = "store")
  BY <1>1, <1>2
<1>7. ASSUME NEW i \in {2, 3}
      PROVE  /\ Alters(t[i]) => \E j \in DOMAIN t : j > i /\ t[j][1] = "reload"
             /\ t[i][1] = "read" => i + 1 \in DOMAIN t /\ t[i + 1][1] = "store"
             /\ t[i][1] = "delete_listed" => i + 1 \notin DOMAIN t
  <2>1. i - 1 \in DOMAIN s /\ t[i] = s[i - 1]
    BY <1>1, <1>4
  <2>2. ASSUME Alters(t[i]) PROVE \E j \in DOMAIN t : j > i /\ t[j][1] = "reload"
    <3>1. PICK j \in DOMAIN s : j > i - 1 /\ s[j][1] = "reload"
      BY <1>3, <2>1, <2>2 DEF Follows
    <3>2. j + 1 \in DOMAIN t /\ j + 1 > i /\ t[j + 1][1] = "reload"
      BY <1>1, <1>4, <3>1
    <3> QED
      BY <3>2
  <2>3. ASSUME t[i][1] = "read" PROVE i + 1 \in DOMAIN t /\ t[i + 1][1] = "store"
    <3>1. (i - 1) + 1 \in DOMAIN s /\ s[(i - 1) + 1][1] = "store"
      BY <1>3, <2>1, <2>3 DEF Follows
    <3>2. i \in {1, 2} /\ s[i][1] = "store"
      BY <1>1, <3>1
    <3> QED
      BY <1>1, <1>4, <3>2
  <2>4. ASSUME t[i][1] = "delete_listed" PROVE i + 1 \notin DOMAIN t
    <3>1. (i - 1) + 1 \notin DOMAIN s
      BY <1>3, <2>1, <2>4 DEF Follows
    <3> QED
      BY <1>1, <3>1
  <2> QED
    BY <2>2, <2>3, <2>4
<1>8. Follows(t)
  BY <1>1, <1>5, <1>6, <1>7 DEF Follows
<1> QED
  BY <1>8 DEF t

LEMMA AlterFollows ==
  ASSUME NEW r
  PROVE  Follows(Permanently(<<"permanent", r>>)) /\ Follows(Permanently(<<"not_permanent", r>>))
<1>1. ~ Alters(<<"reload">>)
  BY DEF Alters
<1> QED
  BY <1>1, TwoFollow DEF Permanently

\* What is left of a program keeps its form.
LEMMA TailFollows ==
  ASSUME NEW t, Follows(t), t # <<>>
  PROVE  Follows(Tail(t))
<1>1. /\ IsSeq(Tail(t)) /\ DOMAIN Tail(t) = 1 .. (Len(t) - 1) /\ Len(t) \in Nat /\ DOMAIN t = 1 .. Len(t)
      /\ \A i \in 1 .. (Len(t) - 1) : Tail(t)[i] = t[i + 1]
  BY TailIsSeq, SeqDomain DEF Follows
<1>2. ASSUME NEW i \in DOMAIN Tail(t), Alters(Tail(t)[i])
      PROVE  \E j \in DOMAIN Tail(t) : j > i /\ Tail(t)[j][1] = "reload"
  <2>1. PICK j \in DOMAIN t : j > i + 1 /\ t[j][1] = "reload"
    BY <1>1, <1>2 DEF Follows
  <2>2. j - 1 \in DOMAIN Tail(t) /\ j - 1 > i /\ Tail(t)[j - 1] = t[j]
    BY <1>1, <1>2, <2>1
  <2> QED
    BY <2>1, <2>2
<1>3. ASSUME NEW i \in DOMAIN Tail(t), Tail(t)[i][1] = "read"
      PROVE  i + 1 \in DOMAIN Tail(t) /\ Tail(t)[i + 1][1] = "store"
  BY <1>1, <1>3 DEF Follows
<1>4. ASSUME NEW i \in DOMAIN Tail(t), Tail(t)[i][1] = "delete_listed"
      PROVE  i + 1 \notin DOMAIN Tail(t)
  BY <1>1, <1>4 DEF Follows
<1> QED
  BY <1>1, <1>2, <1>3, <1>4 DEF Follows

\* A program that forgets the cached status first.
LEMMA ForgetFollows ==
  ASSUME NEW t, Follows(t)
  PROVE  Follows(Forget \o t)
<1> DEFINE s == <<<<"forget">>>> \o t
<1>1. /\ IsSeq(s) /\ DOMAIN s = 1 .. (Len(t) + 1) /\ s[1] = <<"forget">> /\ Len(t) \in Nat /\ DOMAIN t = 1 .. Len(t)
      /\ \A i \in 1 .. Len(t) : s[i + 1] = t[i]
  BY ConsIsSeq, SeqDomain DEF Follows
<1> HIDE DEF s
<1>2. ASSUME NEW i \in DOMAIN s, i # 1
      PROVE  i - 1 \in DOMAIN t /\ s[i] = t[i - 1]
  <2>1. i - 1 \in 1 .. Len(t) /\ (i - 1) + 1 = i
    BY <1>1, <1>2
  <2> QED
    BY <1>1, <2>1
<1>3. ~ Alters(s[1]) /\ s[1][1] # "read"
  BY <1>1 DEF Alters
<1>4. ASSUME NEW i \in DOMAIN s, Alters(s[i])
      PROVE  \E j \in DOMAIN s : j > i /\ s[j][1] = "reload"
  <2>1. i # 1 /\ i - 1 \in DOMAIN t /\ s[i] = t[i - 1]
    BY <1>2, <1>3, <1>4
  <2>2. PICK j \in DOMAIN t : j > i - 1 /\ t[j][1] = "reload"
    BY <1>4, <2>1 DEF Follows
  <2> QED
    BY <1>1, <2>1, <2>2
<1>5. ASSUME NEW i \in DOMAIN s, s[i][1] = "read"
      PROVE  i + 1 \in DOMAIN s /\ s[i + 1][1] = "store"
  <2>1. i # 1 /\ i - 1 \in DOMAIN t /\ s[i] = t[i - 1]
    BY <1>2, <1>3, <1>5
  <2>2. i \in DOMAIN t /\ t[i][1] = "store"
    BY <1>1, <1>5, <2>1 DEF Follows
  <2> QED
    BY <1>1, <2>2
<1>6. ASSUME NEW i \in DOMAIN s, s[i][1] = "delete_listed"
      PROVE  i + 1 \notin DOMAIN s
  <2>1. i # 1 /\ i - 1 \in DOMAIN t /\ s[i] = t[i - 1]
    BY <1>1, <1>2, <1>6
  <2>2. (i - 1) + 1 \notin DOMAIN t
    BY <1>6, <2>1 DEF Follows
  <2> QED
    BY <1>1, <2>1, <2>2
<1>7. Follows(s)
  BY <1>1, <1>4, <1>5, <1>6 DEF Follows
<1> QED
  BY <1>7 DEF s, Forget

\* The programs.

\* The commands are those for the kind of firewall.
LEMMA ProgramOfKind ==
  ASSUME kind \in Kind, NEW u, NEW f, NEW e, Follows(u), Follows(f), Follows(e)
  PROVE  Follows(OnKind(u, f, e))
  BY DEF OnKind, Kind

\* Every method of the manager is a program of this form.
LEMMA ProgramsFollow ==
  ASSUME kind \in Kind
  PROVE  /\ Follows(Enable) /\ Follows(Disable) /\ Follows(GetStatus) /\ Follows(GeoBlock) /\ Follows(GeoUnblock)
         /\ \A i : Follows(DeleteRule(i)) /\ Follows(RemoveRow(i))
         /\ \A i, b : Follows(ToggleRule(i, b))
         /\ \A a, p : Follows(AddRule(a, p))
         /\ \A p : /\ Follows(AddRedirect(p)) /\ Follows(AddService(p)) /\ Follows(RemoveService(p))
                   /\ Follows(AddPortForward(p)) /\ Follows(RemovePortForward(p))
         /\ \A x : Follows(AddRow(x))
         /\ \A ip : /\ Follows(BlockIp(ip)) /\ Follows(UnblockIp(ip)) /\ Follows(AddRichRule(ip))
                    /\ Follows(RemoveRichRule(ip)) /\ Follows(BanIp(ip)) /\ Follows(UnbanIp(ip))
<1> USE NoneFollows, OneFollows, TwoFollow, ThreeFollow, ForgetFollows, ProgramOfKind DEF Alters
<1>1. Follows(Enable) /\ Follows(Disable)
  BY DEF Enable, Disable
<1>2. Follows(GetStatus)
  BY DEF GetStatus
<1>3. Follows(GeoBlock)
  BY DEF GeoBlock
<1>4. Follows(GeoUnblock)
  BY DEF GeoUnblock
<1>5. \A i : Follows(DeleteRule(i))
  BY DEF DeleteRule
<1>6. \A i : Follows(RemoveRow(i))
  BY DEF RemoveRow
<1>7. \A i, b : Follows(ToggleRule(i, b))
  BY DEF ToggleRule
<1>8. \A a, p : Follows(AddRule(a, p))
  BY DEF AddRule, Permanently
<1>9. \A p : Follows(AddRedirect(p))
  BY DEF AddRedirect
<1>10. \A p : Follows(AddService(p))
  BY DEF AddService, Permanently
<1>11. \A p : Follows(RemoveService(p))
  BY DEF RemoveService, Permanently
<1>12. \A p : Follows(AddPortForward(p))
  BY DEF AddPortForward
<1>13. \A p : Follows(RemovePortForward(p))
  BY DEF RemovePortForward, Permanently
<1>14. \A x : Follows(AddRow(x))
  BY DEF AddRow
<1>15. \A ip : Follows(BlockIp(ip))
  BY DEF BlockIp, Permanently
<1>16. \A ip : Follows(UnblockIp(ip))
  BY DEF UnblockIp, Permanently
<1>17. \A ip : Follows(AddRichRule(ip)) /\ Follows(RemoveRichRule(ip))
  BY DEF AddRichRule, RemoveRichRule, Permanently
<1>18. \A ip : Follows(BanIp(ip)) /\ Follows(UnbanIp(ip))
  BY DEF BanIp, UnbanIp
<1> QED
  BY <1>1, <1>2, <1>3, <1>4, <1>5, <1>6, <1>7, <1>8, <1>9, <1>10, <1>11, <1>12, <1>13, <1>14,
     <1>15, <1>16, <1>17, <1>18

\* c is the call n with the program t.
Is(c, n, t) == c[1] = n /\ c[2] = t

LEMMA IsPair ==
  ASSUME NEW n, NEW t
  PROVE  Is(<<n, t>>, n, t)
  BY DEF Is

LEMMA IsTriple ==
  ASSUME NEW n, NEW t, NEW u
  PROVE  Is(<<n, t, u>>, n, t) /\ <<n, t, u>>[3] = u
  BY DEF Is

\* The calls the routes make, one by one.
LEMMA CallForms ==
  ASSUME NEW c \in Call
  PROVE  \/ \E p \in Port : Is(c, "add_rule", AddRule("allow", p)) \/ Is(c, "add_rule", AddRule("deny", p))
         \/ \E p \in Port : Is(c, "add_rule", AddRedirect(p))
         \/ \E i \in 1 .. 2 : Is(c, "delete_rule", DeleteRule(i))
         \/ \E i \in 1 .. 2 : Is(c, "toggle_rule", ToggleRule(i, TRUE)) \/ Is(c, "toggle_rule", ToggleRule(i, FALSE))
         \/ Is(c, "enable", Enable)
         \/ Is(c, "disable", Disable)
         \/ Is(c, "status", GetStatus)
         \/ \E p \in Port : Is(c, "add_service", AddService(p))
         \/ \E p \in Port : Is(c, "remove_service", RemoveService(p))
         \/ \E x \in Row : Is(c, "add_row", AddRow(x))
         \/ \E i \in 1 .. 2 : Is(c, "remove_row", RemoveRow(i))
         \/ \E ip \in Ip : Is(c, "block", BlockIp(ip)) /\ c[3] = ip
         \/ \E ip \in Ip : Is(c, "unblock", UnblockIp(ip)) /\ c[3] = ip
         \/ \E p \in Port : Is(c, "forward", AddPortForward(p))
         \/ \E p \in Port : Is(c, "remove_forward", RemovePortForward(p))
         \/ \E ip \in Ip : Is(c, "rich", AddRichRule(ip))
         \/ \E ip \in Ip : Is(c, "remove_rich", RemoveRichRule(ip))
         \/ \E ip \in Ip : Is(c, "ban", BanIp(ip))
         \/ \E ip \in Ip : Is(c, "unban", UnbanIp(ip))
         \/ Is(c, "geo", GeoBlock)
         \/ Is(c, "remove_geo", GeoUnblock)
<1>1. ASSUME c \in RuleCalls
      PROVE  \/ \E p \in Port : Is(c, "add_rule", AddRule("allow", p)) \/ Is(c, "add_rule", AddRule("deny", p))
             \/ \E p \in Port : Is(c, "add_rule", AddRedirect(p))
             \/ \E i \in 1 .. 2 : Is(c, "delete_rule", DeleteRule(i))
             \/ \E i \in 1 .. 2 : Is(c, "toggle_rule", ToggleRule(i, TRUE)) \/ Is(c, "toggle_rule", ToggleRule(i, FALSE))
             \/ Is(c, "enable", Enable)
             \/ Is(c, "disable", Disable)
             \/ Is(c, "status", GetStatus)
  <2>1. \/ \E p \in Port : c = <<"add_rule", AddRule("allow", p)>>
        \/ \E p \in Port : c = <<"add_rule", AddRule("deny", p)>>
        \/ \E p \in Port : c = <<"add_rule", AddRedirect(p)>>
        \/ \E i \in 1 .. 2 : c = <<"delete_rule", DeleteRule(i)>>
        \/ \E i \in 1 .. 2 : c = <<"toggle_rule", ToggleRule(i, TRUE)>>
        \/ \E i \in 1 .. 2 : c = <<"toggle_rule", ToggleRule(i, FALSE)>>
        \/ c = <<"enable", Enable>> \/ c = <<"disable", Disable>> \/ c = <<"status", GetStatus>>
    BY <1>1 DEF RuleCalls
  <2> QED
    BY <2>1, IsPair
<1>2. ASSUME c \in ServiceCalls
      PROVE  \/ \E p \in Port : Is(c, "add_service", AddService(p))
             \/ \E p \in Port : Is(c, "remove_service", RemoveService(p))
  <2>1. \/ \E p \in Port : c = <<"add_service", AddService(p)>>
        \/ \E p \in Port : c = <<"remove_service", RemoveService(p)>>
    BY <1>2 DEF ServiceCalls
  <2> QED
    BY <2>1, IsPair, IsTriple
<1>3. ASSUME c \in TableCalls
      PROVE  \/ \E x \in Row : Is(c, "add_row", AddRow(x))
             \/ \E i \in 1 .. 2 : Is(c, "remove_row", RemoveRow(i))
  <2>1. \/ \E x \in Row : c = <<"add_row", AddRow(x)>>
        \/ \E i \in 1 .. 2 : c = <<"remove_row", RemoveRow(i)>>
    BY <1>3 DEF TableCalls
  <2> QED
    BY <2>1, IsPair, IsTriple
<1>4. ASSUME c \in AddressCalls
      PROVE  \/ \E ip \in Ip : Is(c, "block", BlockIp(ip)) /\ c[3] = ip
             \/ \E ip \in Ip : Is(c, "unblock", UnblockIp(ip)) /\ c[3] = ip
  <2>1. \/ \E ip \in Ip : c = <<"block", BlockIp(ip), ip>>
        \/ \E ip \in Ip : c = <<"unblock", UnblockIp(ip), ip>>
    BY <1>4 DEF AddressCalls
  <2> QED
    BY <2>1, IsPair, IsTriple
<1>5. ASSUME c \in ForwardCalls
      PROVE  \/ \E p \in Port : Is(c, "forward", AddPortForward(p))
             \/ \E p \in Port : Is(c, "remove_forward", RemovePortForward(p))
  <2>1. \/ \E p \in Port : c = <<"forward", AddPortForward(p)>>
        \/ \E p \in Port : c = <<"remove_forward", RemovePortForward(p)>>
    BY <1>5 DEF ForwardCalls
  <2> QED
    BY <2>1, IsPair, IsTriple
<1>6. ASSUME c \in OtherCalls
      PROVE  \/ \E ip \in Ip : Is(c, "rich", AddRichRule(ip))
             \/ \E ip \in Ip : Is(c, "remove_rich", RemoveRichRule(ip))
             \/ \E ip \in Ip : Is(c, "ban", BanIp(ip))
             \/ \E ip \in Ip : Is(c, "unban", UnbanIp(ip))
             \/ Is(c, "geo", GeoBlock)
             \/ Is(c, "remove_geo", GeoUnblock)
  <2>1. \/ \E ip \in Ip : c = <<"rich", AddRichRule(ip)>>
        \/ \E ip \in Ip : c = <<"remove_rich", RemoveRichRule(ip)>>
        \/ \E ip \in Ip : c = <<"ban", BanIp(ip)>>
        \/ \E ip \in Ip : c = <<"unban", UnbanIp(ip)>>
        \/ c = <<"geo", GeoBlock>>
        \/ c = <<"remove_geo", GeoUnblock>>
    BY <1>6 DEF OtherCalls
  <2> QED
    BY <2>1, IsPair, IsTriple
<1> QED
  BY <1>1, <1>2, <1>3, <1>4, <1>5, <1>6 DEF Call

\* Every call is a program of this form.
LEMMA CallsFollow ==
  ASSUME kind \in Kind, NEW c \in Call
  PROVE  Follows(c[2])
<1>1. \A n, t : Is(c, n, t) => t = c[2]
  BY DEF Is
<1> QED
  BY <1>1, CallForms, ProgramsFollow

-----------------------------------------------------------------------------
\* The commands of a program.

LEMMA RangeOfTail ==
  ASSUME NEW t, IsSeq(t), t # <<>>
  PROVE  /\ t[1] \in Range(t) /\ Head(t) = t[1]
         /\ Range(Tail(t)) \subseteq Range(t)
<1>1. t[1] \in Range(t) /\ Head(t) = t[1]
  BY TailIsSeq, SeqDomain DEF Range
<1>2. ASSUME NEW i \in DOMAIN Tail(t) PROVE Tail(t)[i] \in Range(t)
  BY TailIsSeq DEF Range
<1>3. Range(Tail(t)) \subseteq Range(t)
  BY <1>2 DEF Range
<1> QED
  BY <1>1, <1>3

\* The commands of a program that forgets the status first.
LEMMA RangeOfForget ==
  ASSUME NEW t, IsSeq(t)
  PROVE  /\ IsSeq(Forget \o t) /\ Range(Forget \o t) = {<<"forget">>} \cup Range(t)
         /\ (Forget \o t)[1] = <<"forget">> /\ Forget \o t # <<>> /\ Tail(Forget \o t) = t
<1> DEFINE s == <<<<"forget">>>> \o t
<1>0. /\ IsSeq(s) /\ DOMAIN s = 1 .. (Len(t) + 1) /\ s[1] = <<"forget">> /\ s # <<>> /\ Tail(s) = t
      /\ \A i \in DOMAIN t : s[i + 1] = t[i]
  BY ConsIsSeq
<1>1. /\ IsSeq(s) /\ DOMAIN s = 1 .. (Len(t) + 1) /\ s[1] = <<"forget">> /\ s # <<>> /\ Tail(s) = t
      /\ Len(t) \in Nat /\ DOMAIN t = 1 .. Len(t) /\ \A i \in DOMAIN t : s[i + 1] = t[i]
  BY <1>0, SeqDomain
<1> HIDE DEF s
<1>2. ASSUME NEW i \in DOMAIN s PROVE s[i] \in {<<"forget">>} \cup Range(t)
  <2>1. CASE i = 1
    BY <1>1, <2>1
  <2>2. CASE i # 1
    <3>1. i - 1 \in 1 .. Len(t) /\ (i - 1) + 1 = i
      BY <1>1, <2>2
    <3>2. i - 1 \in DOMAIN t /\ s[i] = t[i - 1]
      BY <1>1, <3>1
    <3> QED
      BY <3>2 DEF Range
  <2> QED
    BY <2>1, <2>2
<1>3. ASSUME NEW i \in DOMAIN t PROVE t[i] \in Range(s)
  <2>1. i + 1 \in DOMAIN s /\ s[i + 1] = t[i]
    BY <1>1
  <2> QED
    BY <2>1 DEF Range
<1>4. <<"forget">> \in Range(s)
  BY <1>1 DEF Range
<1>5. Range(s) = {<<"forget">>} \cup Range(t)
  BY <1>2, <1>3, <1>4 DEF Range
<1> QED
  BY <1>1, <1>5 DEF s, Forget

-----------------------------------------------------------------------------
\* The records.

IsCall(r) ==
    /\ r = [name |-> r.name, ip |-> r.ip, todo |-> r.todo, ok |-> r.ok, read |-> r.read,
            found |-> r.found, crossed |-> r.crossed]
    /\ Follows(r.todo)

IsFw(g) == g = [active |-> g.active, chain |-> g.chain, permanent |-> g.permanent,
                runtime |-> g.runtime, lists |-> g.lists, nat |-> g.nat, rows |-> g.rows]

Whole ==
    /\ kind \in Kind /\ failures \in Nat /\ IsFw(fw)
    /\ op = [o \in Operator |-> op[o]]
    /\ \A o \in Operator : IsCall(op[o])

LEMMA IdleIsCall == IsCall(Idle) /\ Idle.name = None
  BY NoneFollows DEF IsCall, Idle

LEMMA InitWhole == Init => Whole
  BY IdleIsCall DEF Init, Whole, IsFw

-----------------------------------------------------------------------------
\* What each command leaves of the firewall.

OnChain == {"switch_all", "switch", "append", "append_unless_found", "delete", "delete_all", "chain_at"}

\* A command leaves the fields of the firewall.
LEMMA ChangedWhole ==
  ASSUME IsFw(fw), NEW c, NEW found
  PROVE  IsFw(Changed(c, found))
  BY DEF Changed, IsFw

\* Only two commands start and stop the firewall.
LEMMA ChangedActive ==
  ASSUME IsFw(fw), NEW c, NEW found
  PROVE  LET g == Changed(c, found)
         IN  /\ c[1] \notin {"activate", "stop"} => g.active = fw.active
             /\ c[1] = "activate" => /\ g.active = TRUE
                                     /\ g.runtime = IF fw.active THEN fw.runtime ELSE fw.permanent
             /\ c[1] = "stop" => g.active = FALSE
  BY DEF Changed, IsFw

\* Commands that write the permanent and the running configuration.
LEMMA ChangedStored ==
  ASSUME IsFw(fw), NEW c, NEW found
  PROVE  LET g == Changed(c, found)
         IN  /\ ~ Alters(c) => g.permanent = fw.permanent
             /\ c[1] = "permanent" => g.permanent = fw.permanent \cup {c[2]}
             /\ c[1] = "not_permanent" => g.permanent = fw.permanent \ {c[2]}
             /\ c[1] \notin {"activate", "stop", "reload"} => g.runtime = fw.runtime
             /\ c[1] = "reload" => g.runtime = fw.permanent
  BY DEF Changed, IsFw, Alters

-----------------------------------------------------------------------------
\* What each action does to the calls.

\* The fields of a call, and the call with other fields.
Same(r, s) ==
    /\ r.name = s.name /\ r.ip = s.ip /\ r.todo = s.todo /\ r.ok = s.ok /\ r.read = s.read
    /\ r.found = s.found

\* A route calls a method.
LEMMA BeginStep ==
  ASSUME Whole, NEW o \in Operator, NEW c \in Call, Begin(o, c)
  PROVE  /\ Whole' /\ kind' = kind /\ fw' = fw /\ cache' = cache /\ failures' = failures
         /\ history \subseteq history'
         /\ c[1] \in Removing => "removing" \in history'
         /\ c[1] \in Unforgotten => "unforgotten" \in history'
         /\ (\E q \in Operator : Busy(q)) => "overlap" \in history'
         /\ promised' = IF c[1] = "unblock" THEN promised \ {c[3]} ELSE promised
         /\ \A q \in Operator \ {o} :
              /\ Same(op'[q], op[q])
              /\ op'[q].crossed = IF c[1] = "unblock" /\ Concerns(q, "block", c[3]) THEN TRUE ELSE op[q].crossed
         /\ ~ Busy(o)
         /\ \/ c[2] = <<>> /\ op'[o] = Idle
            \/ c[2] # <<>> /\ op'[o].name = c[1] /\ op'[o].todo = c[2] /\ op'[o].found = 0
               /\ (c[1] \in {"block", "unblock"} => op'[o].ip = c[3])
               /\ (c[1] = "block" /\ ~ op'[o].crossed => \A q \in Operator : ~ Concerns(q, "unblock", c[3]))
<1> DEFINE ip == IF c[1] \in {"block", "unblock"} THEN c[3] ELSE None
           meets == c[1] = "block" /\ \E q \in Operator : Concerns(q, "unblock", ip)
           new == [name |-> c[1], ip |-> ip, todo |-> c[2], ok |-> IF Careless(c) THEN "yes" ELSE "open",
                   read |-> None, found |-> 0, crossed |-> meets]
           crossed == [q \in Operator |-> IF c[1] = "unblock" /\ Concerns(q, "block", ip)
                                            THEN [op[q] EXCEPT !.crossed = TRUE] ELSE op[q]]
           mine == IF c[2] = <<>> THEN Idle ELSE new
<1>1. op' = [crossed EXCEPT ![o] = mine]
  BY DEF Begin
<1>2. op'[o] = mine /\ op' = [q \in Operator |-> op'[q]]
  BY <1>1
<1>3. Follows(c[2])
  BY CallsFollow DEF Whole
<1>4. IsCall(mine)
  BY <1>3, IdleIsCall DEF IsCall
<1>5. ASSUME NEW q \in Operator \ {o}
      PROVE  /\ Same(op'[q], op[q]) /\ IsCall(op'[q])
             /\ op'[q].crossed = IF c[1] = "unblock" /\ Concerns(q, "block", c[3]) THEN TRUE ELSE op[q].crossed
  <2>1. op'[q] = IF c[1] = "unblock" /\ Concerns(q, "block", ip) THEN [op[q] EXCEPT !.crossed = TRUE] ELSE op[q]
    BY <1>1
  <2>2. IsCall(op[q])
    BY DEF Whole
  <2> QED
    BY <2>1, <2>2 DEF IsCall, Same
<1>6. kind' = kind /\ fw' = fw /\ cache' = cache /\ failures' = failures /\ ~ Busy(o)
  BY DEF Begin
<1>7. Whole'
  BY <1>2, <1>4, <1>5, <1>6 DEF Whole, IsFw
<1>9. /\ history \subseteq history'
      /\ c[1] \in Removing => "removing" \in history'
      /\ c[1] \in Unforgotten => "unforgotten" \in history'
      /\ (\E q \in Operator : Busy(q)) => "overlap" \in history'
  BY DEF Begin
<1>10. promised' = IF c[1] = "unblock" THEN promised \ {c[3]} ELSE promised
  BY DEF Begin
<1>8. \/ c[2] = <<>> /\ op'[o] = Idle
      \/ c[2] # <<>> /\ op'[o].name = c[1] /\ op'[o].todo = c[2] /\ op'[o].found = 0
         /\ (c[1] \in {"block", "unblock"} => op'[o].ip = c[3])
         /\ (c[1] = "block" /\ ~ op'[o].crossed => \A q \in Operator : ~ Concerns(q, "unblock", c[3]))
  <2>1. CASE c[2] = <<>>
    BY <1>2, <2>1
  <2>2. CASE c[2] # <<>>
    <3>1. op'[o] = new
      BY <1>2, <2>2
    <3>2. /\ op'[o].name = c[1] /\ op'[o].todo = c[2] /\ op'[o].found = 0
          /\ c[1] \in {"block", "unblock"} => op'[o].ip = c[3]
      BY <3>1
    <3>3. op'[o].crossed = meets
      <4> HIDE DEF meets
      <4> QED BY <3>1
    <3>4. ASSUME c[1] = "block", ~ op'[o].crossed, NEW q \in Operator
          PROVE  ~ Concerns(q, "unblock", c[3])
      <4>1. ~ meets
        BY <3>3, <3>4, Zenon
      <4>2. ip = c[3]
        BY <3>4
      <4> QED
        BY <3>4, <4>1, <4>2
    <3> QED
      BY <2>2, <3>2, <3>4
  <2> QED
    BY <2>1, <2>2
<1> QED
  BY <1>5, <1>6, <1>7, <1>8, <1>9, <1>10

\* The command that is next is the first that is left.
LEMMA NextCommand ==
  ASSUME Whole, NEW o \in Operator, op[o].todo # <<>>
  PROVE  /\ Command(o) = op[o].todo[1] /\ Command(o) \in Range(op[o].todo)
         /\ Follows(op[o].todo) /\ Follows(Tail(op[o].todo)) /\ Range(Tail(op[o].todo)) \subseteq Range(op[o].todo)
<1>1. Follows(op[o].todo)
  BY DEF Whole, IsCall
<1>2. IsSeq(op[o].todo)
  BY <1>1 DEF Follows
<1> QED
  BY <1>1, <1>2, RangeOfTail, TailFollows DEF Command

\* A call that goes on to what follows its next command.
GoesOn(o) ==
    /\ op'[o].name = op[o].name /\ op'[o].ip = op[o].ip /\ op'[o].crossed = op[o].crossed
    /\ op[o].todo # <<>> /\ op'[o].todo = Tail(op[o].todo)

Others(o) == \A q \in Operator \ {o} : op'[q] = op[q]

\* A command reaches the server.
LEMMA SucceedStep ==
  ASSUME Whole, NEW o \in Operator, Succeed(o)
  PROVE  /\ Whole' /\ UNCHANGED <<kind, cache, promised, history, calls, failures>>
         /\ fw' = Changed(Command(o), op[o].found) /\ IsFw(fw')
         /\ Command(o)[1] \notin Local /\ Possible(Command(o)) /\ Busy(o)
         /\ Others(o) /\ GoesOn(o)
         /\ op'[o].found = Found(Command(o), op[o].found)
         /\ op'[o].read = IF Command(o)[1] = "read" THEN Status ELSE op[o].read
<1>1. op' = [op EXCEPT ![o].todo = Tail(@), ![o].ok = IF @ = "open" THEN "yes" ELSE @,
                       ![o].found = Found(Command(o), @),
                       ![o].read = IF Command(o)[1] = "read" THEN Status ELSE @]
  BY DEF Succeed
<1>2. op[o].todo # <<>> /\ Busy(o) /\ Command(o)[1] \notin Local /\ Possible(Command(o))
  BY DEF Succeed, Remote
<1>3. IsCall(op[o]) /\ op = [q \in Operator |-> op[q]]
  BY DEF Whole
<1>4. op' = [op EXCEPT ![o] = [op[o] EXCEPT !.todo = Tail(@), !.ok = IF @ = "open" THEN "yes" ELSE @,
                                 !.found = Found(Command(o), @),
                                 !.read = IF Command(o)[1] = "read" THEN Status ELSE @]]
  BY <1>1, <1>3
<1>5. op'[o] = [op[o] EXCEPT !.todo = Tail(@), !.ok = IF @ = "open" THEN "yes" ELSE @,
                             !.found = Found(Command(o), @),
                             !.read = IF Command(o)[1] = "read" THEN Status ELSE @]
  BY <1>3, <1>4
<1>6. /\ op'[o].name = op[o].name /\ op'[o].ip = op[o].ip /\ op'[o].crossed = op[o].crossed
      /\ op'[o].todo = Tail(op[o].todo)
      /\ op'[o].found = Found(Command(o), op[o].found)
      /\ op'[o].read = IF Command(o)[1] = "read" THEN Status ELSE op[o].read
  BY <1>3, <1>5 DEF IsCall
<1>7. Follows(Tail(op[o].todo))
  BY <1>2, NextCommand
<1>8. IsCall(op'[o])
  BY <1>3, <1>5, <1>7 DEF IsCall
<1>9. Others(o) /\ op' = [q \in Operator |-> op'[q]]
  BY <1>3, <1>4 DEF Others
<1>10. fw' = Changed(Command(o), op[o].found) /\ UNCHANGED <<kind, cache, promised, history, calls, failures>>
  BY DEF Succeed
<1>11. IsFw(fw')
  BY <1>10, ChangedWhole DEF Whole
<1>12. Whole'
  BY <1>3, <1>8, <1>9, <1>10, <1>11 DEF Whole, Others, IsFw
<1> QED
  BY <1>2, <1>6, <1>9, <1>10, <1>11, <1>12 DEF GoesOn

\* A command fails: without a failure that counts, only one that firewalld refuses.
LEMMA FailStep ==
  ASSUME Whole, NEW o \in Operator, Fail(o)
  PROVE  /\ Whole' /\ UNCHANGED <<kind, fw, cache, promised, history, calls>>
         /\ failures' = 0 => failures = 0 /\ ~ Possible(Command(o)) /\ (op'[o] = Idle \/ GoesOn(o))
         /\ Others(o) /\ Command(o)[1] \notin Local
<1>1. op[o].todo # <<>> /\ Busy(o) /\ Command(o)[1] \notin Local
  BY DEF Fail, Remote
<1>2. IsCall(op[o]) /\ op = [q \in Operator |-> op[q]] /\ kind \in Kind
  BY DEF Whole
<1>3. Follows(Tail(op[o].todo))
  BY <1>1, NextCommand
<1>4. Others(o) /\ op' = [q \in Operator |-> op'[q]]
  BY <1>2 DEF Others, Fail
<1>5. UNCHANGED <<kind, fw, cache, promised, history, calls>>
  BY DEF Fail
<1>6. failures' \in Nat /\ (failures' = 0 => failures = 0 /\ ~ Possible(Command(o)))
  <2>1. failures' = failures + (IF Possible(Command(o)) THEN 1 ELSE 0)
    BY DEF Fail
  <2> QED
    BY <2>1 DEF Whole
<1>7. CASE Command(o)[1] = "enable_service"
  <2>1. op'[o] = [op[o] EXCEPT !.todo = AddRule("allow", Command(o)[2])]
    BY <1>2, <1>7 DEF Fail
  <2>2. Follows(AddRule("allow", Command(o)[2]))
    BY <1>2, ProgramsFollow
  <2>3. IsCall(op'[o])
    BY <1>2, <2>1, <2>2 DEF IsCall
  <2>4. Possible(Command(o))
    BY <1>7 DEF Possible
  <2> QED
    BY <1>1, <1>2, <1>4, <1>5, <1>6, <2>3, <2>4 DEF Whole, Others, IsFw
<1>8. CASE Command(o)[1] = "read"
  <2>1. op'[o] = [op[o] EXCEPT !.todo = Tail(@), !.read = Unknown]
    BY <1>2, <1>8 DEF Fail
  <2>2. IsCall(op'[o])
    BY <1>2, <1>3, <2>1 DEF IsCall
  <2>3. Possible(Command(o))
    BY <1>8 DEF Possible
  <2> QED
    BY <1>1, <1>2, <1>4, <1>5, <1>6, <2>2, <2>3 DEF Whole, Others, IsFw
<1>9. CASE Command(o)[1] \notin {"enable_service", "read"} /\ op[o].ok = "open"
  <2>1. op'[o] = Idle
    BY <1>2, <1>9 DEF Fail
  <2> QED
    BY <1>1, <1>2, <1>4, <1>5, <1>6, <2>1, IdleIsCall DEF Whole, Others, IsFw
<1>10. CASE Command(o)[1] \notin {"enable_service", "read"} /\ op[o].ok # "open"
  <2> DEFINE n == IF Command(o)[1] \in {"look", "look_nat"} THEN 0 ELSE op[o].found
  <2>1. op'[o] = [op[o] EXCEPT !.todo = Tail(@), !.found = n]
    BY <1>2, <1>10 DEF Fail
  <2> HIDE DEF n
  <2>2. /\ IsCall(op'[o]) /\ op'[o].name = op[o].name /\ op'[o].ip = op[o].ip
        /\ op'[o].crossed = op[o].crossed /\ op'[o].todo = Tail(op[o].todo)
    BY <1>2, <1>3, <2>1 DEF IsCall
  <2> QED
    BY <1>1, <1>2, <1>4, <1>5, <1>6, <2>2 DEF Whole, Others, IsFw, GoesOn
<1> QED
  BY <1>7, <1>8, <1>9, <1>10

\* _invalidate_cache.
LEMMA InvalidateStep ==
  ASSUME Whole, NEW o \in Operator, Invalidate(o)
  PROVE  /\ Whole' /\ UNCHANGED <<kind, fw, promised, history, calls, failures>> /\ cache' = None
         /\ Others(o) /\ GoesOn(o) /\ op'[o].found = op[o].found /\ op[o].todo[1][1] = "forget"
<1>1. op[o].todo # <<>> /\ IsCall(op[o]) /\ op = [q \in Operator |-> op[q]] /\ Command(o)[1] = "forget"
  BY DEF Invalidate, Runs, Whole
<1>2. Follows(Tail(op[o].todo)) /\ Command(o) = op[o].todo[1]
  BY <1>1, NextCommand
<1>3. op'[o] = [op[o] EXCEPT !.todo = Tail(@)] /\ Others(o) /\ op' = [q \in Operator |-> op'[q]]
  BY <1>1 DEF Invalidate, Others
<1>4. GoesOn(o) /\ op'[o].found = op[o].found /\ IsCall(op'[o])
  BY <1>1, <1>2, <1>3 DEF IsCall, GoesOn
<1>5. UNCHANGED <<kind, fw, promised, history, calls, failures>> /\ cache' = None
  BY DEF Invalidate
<1>6. Whole'
  BY <1>3, <1>4, <1>5 DEF Whole, Others, IsFw
<1> QED
  BY <1>1, <1>2, <1>3, <1>4, <1>5, <1>6

\* The status that was read is cached.
LEMMA StoreStep ==
  ASSUME Whole, NEW o \in Operator, Store(o)
  PROVE  /\ Whole' /\ UNCHANGED <<kind, fw, promised, history, calls, failures>> /\ cache' = op[o].read
         /\ Others(o) /\ GoesOn(o) /\ op[o].todo[1][1] = "store"
<1>1. op[o].todo # <<>> /\ IsCall(op[o]) /\ op = [q \in Operator |-> op[q]] /\ Command(o)[1] = "store"
  BY DEF Store, Runs, Whole
<1>2. Follows(Tail(op[o].todo)) /\ Command(o) = op[o].todo[1]
  BY <1>1, NextCommand
<1>3. op'[o] = [op[o] EXCEPT !.todo = Tail(@)] /\ Others(o) /\ op' = [q \in Operator |-> op'[q]]
  BY <1>1 DEF Store, Others
<1>4. GoesOn(o) /\ IsCall(op'[o])
  BY <1>1, <1>2, <1>3 DEF IsCall, GoesOn
<1>5. UNCHANGED <<kind, fw, promised, history, calls, failures>> /\ cache' = op[o].read
  BY DEF Store
<1>6. Whole'
  BY <1>3, <1>4, <1>5 DEF Whole, Others, IsFw
<1> QED
  BY <1>1, <1>2, <1>3, <1>4, <1>5, <1>6

\* A cached status ends the reading and the storing that follows it.
LEMMA ReadCachedStep ==
  ASSUME Whole, NEW o \in Operator, ReadCached(o)
  PROVE  /\ Whole' /\ UNCHANGED <<kind, fw, cache, promised, history, calls, failures>> /\ cache # None
         /\ Others(o) /\ op[o].todo # <<>> /\ op[o].todo[1][1] = "read"
         /\ op'[o].name = op[o].name /\ op'[o].ip = op[o].ip /\ op'[o].crossed = op[o].crossed
         /\ op'[o].todo = Tail(Tail(op[o].todo)) /\ op'[o].read = cache
         /\ op[o].todo[2][1] = "store" /\ Tail(op[o].todo) # <<>>
<1>1. op[o].todo # <<>> /\ IsCall(op[o]) /\ op = [q \in Operator |-> op[q]] /\ Command(o)[1] = "read"
  BY DEF ReadCached, Runs, Whole
<1>2. Follows(Tail(op[o].todo)) /\ Command(o) = op[o].todo[1]
  BY <1>1, NextCommand
<1>3. Follows(Tail(Tail(op[o].todo))) /\ Tail(op[o].todo) # <<>> /\ op[o].todo[2][1] = "store"
  <2> DEFINE t == op[o].todo
  <2>1. Follows(t) /\ IsSeq(t) /\ t # <<>> /\ t[1][1] = "read"
    BY <1>1, <1>2 DEF IsCall, Follows
  <2> HIDE DEF t
  <2>2. DOMAIN t = 1 .. Len(t) /\ Len(t) \in Nat /\ DOMAIN Tail(t) = 1 .. (Len(t) - 1) /\ Len(t) # 0
    BY <2>1, SeqDomain, TailIsSeq
  <2>3. 1 \in DOMAIN t
    BY <2>2
  <2>4. 1 + 1 \in DOMAIN t /\ t[1 + 1][1] = "store"
    BY <2>1, <2>3 DEF Follows
  <2>5. 1 \in DOMAIN Tail(t)
    BY <2>2, <2>4
  <2>6. Tail(t) # <<>>
    BY <2>5, EmptyIsSeq
  <2>7. Follows(Tail(Tail(t)))
    BY <2>1, <2>6, TailFollows
  <2>8. t[2][1] = "store"
    BY <2>4
  <2> QED
    BY <2>6, <2>7, <2>8 DEF t
<1>4. op' = [op EXCEPT ![o] = [op[o] EXCEPT !.todo = Tail(Tail(@)), !.read = cache]]
  BY <1>1 DEF ReadCached
<1>5. op'[o] = [op[o] EXCEPT !.todo = Tail(Tail(@)), !.read = cache]
      /\ Others(o) /\ op' = [q \in Operator |-> op'[q]]
  BY <1>1, <1>4 DEF Others
<1>6. /\ op'[o].name = op[o].name /\ op'[o].ip = op[o].ip /\ op'[o].crossed = op[o].crossed
      /\ op'[o].todo = Tail(Tail(op[o].todo)) /\ op'[o].read = cache /\ IsCall(op'[o])
  BY <1>1, <1>3, <1>5 DEF IsCall
<1>7. UNCHANGED <<kind, fw, cache, promised, history, calls, failures>> /\ cache # None
  BY DEF ReadCached
<1>8. Whole'
  BY <1>5, <1>6, <1>7 DEF Whole, Others, IsFw
<1> QED
  BY <1>1, <1>2, <1>3, <1>5, <1>6, <1>7, <1>8

\* delete_rule has a status.
LEMMA DeleteStep ==
  ASSUME Whole, NEW o \in Operator, Delete(o)
  PROVE  /\ Whole' /\ UNCHANGED <<kind, fw, cache, promised, history, calls, failures>>
         /\ Others(o) /\ op[o].todo # <<>> /\ op[o].todo[1][1] = "delete_listed"
         /\ \/ op'[o] = Idle
            \/ /\ kind = "firewalld" => \E r : op'[o].todo = Permanently(<<"not_permanent", r>>)
               /\ op'[o].name = op[o].name
<1> DEFINE i == Command(o)[2]
           rules == op[o].read.rules
           todo == OnKind(<<<<"chain_at", i>>>>,
                          IF i \in DOMAIN rules THEN Permanently(<<"not_permanent", rules[i]>>) ELSE <<>>,
                          <<<<"chain_at", i>>>>)
<1>1. /\ op[o].todo # <<>> /\ IsCall(op[o]) /\ op = [q \in Operator |-> op[q]]
      /\ Command(o)[1] = "delete_listed" /\ kind \in Kind
  BY DEF Delete, Runs, Whole
<1>2. Command(o) = op[o].todo[1]
  BY <1>1, NextCommand
<1>3. Follows(todo)
  <2>1. \A r : Follows(Permanently(<<"not_permanent", r>>))
    BY AlterFollows
  <2>2. Follows(<<<<"chain_at", i>>>>) /\ Follows(<<>>)
    BY OneFollows, NoneFollows DEF Alters
  <2> QED
    BY <1>1, <2>1, <2>2, ProgramOfKind
<1>4. kind = "firewalld" /\ todo # <<>> => \E r : todo = Permanently(<<"not_permanent", r>>)
  BY DEF OnKind
<1> HIDE DEF todo
<1>5. op' = [op EXCEPT ![o] = IF todo = <<>> \/ op[o].read = Unknown THEN Idle
                              ELSE [op[o] EXCEPT !.todo = todo, !.ok = "open"]]
  BY <1>1 DEF Delete, todo
<1>6. Others(o) /\ op' = [q \in Operator |-> op'[q]]
      /\ op'[o] = IF todo = <<>> \/ op[o].read = Unknown THEN Idle
                  ELSE [op[o] EXCEPT !.todo = todo, !.ok = "open"]
  BY <1>1, <1>5 DEF Others
<1>7. \/ op'[o] = Idle
      \/ IsCall(op'[o]) /\ op'[o].todo = todo /\ todo # <<>> /\ op'[o].name = op[o].name
  BY <1>1, <1>3, <1>6 DEF IsCall
<1>8. UNCHANGED <<kind, fw, cache, promised, history, calls, failures>>
  BY DEF Delete
<1>9. Whole'
  BY <1>6, <1>7, <1>8, IdleIsCall DEF Whole, Others, IsFw
<1> QED
  BY <1>1, <1>2, <1>4, <1>6, <1>7, <1>8, <1>9

\* The answer goes to the operator.
LEMMA AnswerStep ==
  ASSUME Whole, NEW o \in Operator, Answer(o)
  PROVE  /\ Whole' /\ UNCHANGED <<kind, fw, cache, history, calls, failures>>
         /\ Others(o) /\ Busy(o) /\ op[o].todo = <<>> /\ op'[o] = Idle
         /\ promised' = IF op[o].name = "block" /\ ~op[o].crossed THEN promised \cup {op[o].ip} ELSE promised
<1>1. op = [q \in Operator |-> op[q]]
  BY DEF Whole
<1>2. Others(o) /\ op' = [q \in Operator |-> op'[q]] /\ op'[o] = Idle
  BY <1>1 DEF Answer, Others
<1>3. Whole'
  BY <1>2, IdleIsCall DEF Whole, Others, IsFw, Answer
<1> QED
  BY <1>2, <1>3 DEF Answer

-----------------------------------------------------------------------------
\* The running configuration of firewalld.

\* A reload that is still to come.
LEMMA LaterReload ==
  ASSUME Whole, NEW o \in Operator, Busy(o), GoesOn(o), NEW j \in DOMAIN op[o].todo, j > 1,
         op[o].todo[j][1] = "reload"
  PROVE  Reloading(o)'
<1> DEFINE t == op[o].todo
<1>1. IsSeq(t) /\ t # <<>> /\ op'[o].todo = Tail(t) /\ op'[o].name # None
  BY DEF Whole, IsCall, Follows, GoesOn, Busy
<1>2. j \in DOMAIN t /\ t[j][1] = "reload"
  OBVIOUS
<1> HIDE DEF t
<1>3. DOMAIN t = 1 .. Len(t) /\ Len(t) \in Nat /\ DOMAIN Tail(t) = 1 .. (Len(t) - 1)
      /\ \A i \in DOMAIN Tail(t) : Tail(t)[i] = t[i + 1]
  BY <1>1, SeqDomain, TailIsSeq
<1>4. j - 1 \in DOMAIN Tail(t) /\ (j - 1) + 1 = j
  BY <1>2, <1>3
<1>5. Tail(t)[j - 1][1] = "reload"
  BY <1>2, <1>3, <1>4
<1> QED
  BY <1>1, <1>4, <1>5 DEF Reloading, Busy

\* Whoever has a reload to make still has it after another command.
LEMMA ReloadStays ==
  ASSUME Whole, NEW o \in Operator, GoesOn(o), Reloading(o), op[o].todo[1][1] # "reload"
  PROVE  Reloading(o)'
<1>1. PICK j \in DOMAIN op[o].todo : op[o].todo[j][1] = "reload"
  BY DEF Reloading
<1>2. IsSeq(op[o].todo)
  BY DEF Whole, IsCall, Follows
<1>3. j > 1
  BY <1>1, <1>2, SeqDomain
<1> QED
  BY <1>1, <1>3, LaterReload DEF Reloading

\* A change is made by somebody who has a reload to make.
LEMMA AlterIsReloaded ==
  ASSUME Whole, NEW o \in Operator, Busy(o), GoesOn(o), Alters(op[o].todo[1])
  PROVE  Reloading(o)'
<1>1. Follows(op[o].todo) /\ op[o].todo # <<>>
  BY DEF Whole, IsCall, GoesOn
<1>2. 1 \in DOMAIN op[o].todo
  BY <1>1, TailIsSeq, SeqDomain DEF Follows
<1>3. PICK j \in DOMAIN op[o].todo : j > 1 /\ op[o].todo[j][1] = "reload"
  BY <1>1, <1>2 DEF Follows
<1> QED
  BY <1>3, LaterReload

\* The other operators have what they had to do.
LEMMA OthersReload ==
  ASSUME NEW o \in Operator, Others(o), NEW q \in Operator \ {o}
  PROVE  Reloading(q)' <=> Reloading(q)
  BY DEF Others, Reloading, Busy

\* A step past another command than a reload leaves whoever reloads.
LEMMA NobodyReloads ==
  ASSUME Whole, NEW o \in Operator, GoesOn(o), Others(o), op[o].todo[1][1] # "reload",
         \A q \in Operator : ~ Reloading(q)'
  PROVE  \A q \in Operator : ~ Reloading(q)
<1>1. ~ Reloading(o)
  BY ReloadStays
<1>2. ASSUME NEW q \in Operator \ {o} PROVE ~ Reloading(q)
  BY OthersReload
<1> QED
  BY <1>1, <1>2

\* A cached status leaves the reload that is to come.
LEMMA ReadCachedReload ==
  ASSUME Whole, NEW o \in Operator, ReadCached(o), Reloading(o)
  PROVE  Reloading(o)'
<1> DEFINE t == op[o].todo
<1>1. PICK j \in DOMAIN t : t[j][1] = "reload"
  BY DEF Reloading
<1>2. IsSeq(t) /\ t # <<>> /\ Tail(t) # <<>> /\ t[1][1] = "read" /\ t[2][1] = "store"
      /\ op'[o].todo = Tail(Tail(t)) /\ op'[o].name = op[o].name
  BY ReadCachedStep DEF Whole, IsCall, Follows
<1> HIDE DEF t
<1>3. /\ IsSeq(Tail(t)) /\ DOMAIN t = 1 .. Len(t) /\ Len(t) \in Nat /\ DOMAIN Tail(t) = 1 .. (Len(t) - 1)
      /\ \A i \in DOMAIN Tail(t) : Tail(t)[i] = t[i + 1]
  BY <1>2, SeqDomain, TailIsSeq
<1>4. /\ DOMAIN Tail(Tail(t)) = 1 .. (Len(Tail(t)) - 1) /\ DOMAIN Tail(t) = 1 .. Len(Tail(t)) /\ Len(Tail(t)) \in Nat
      /\ \A i \in DOMAIN Tail(Tail(t)) : Tail(Tail(t))[i] = Tail(t)[i + 1]
  BY <1>2, <1>3, SeqDomain, TailIsSeq
<1>5. j # 1 /\ j # 2
  BY <1>1, <1>2
<1>6. j - 1 \in DOMAIN Tail(t) /\ Tail(t)[j - 1] = t[j]
  <2>1. j - 1 \in DOMAIN Tail(t) /\ (j - 1) + 1 = j
    BY <1>1, <1>3, <1>5
  <2> QED
    BY <1>3, <2>1
<1>7. j - 2 \in DOMAIN Tail(Tail(t)) /\ Tail(Tail(t))[j - 2] = t[j]
  <2>1. j - 2 \in DOMAIN Tail(Tail(t)) /\ (j - 2) + 1 = j - 1
    BY <1>1, <1>3, <1>4, <1>5, <1>6
  <2> QED
    BY <1>4, <1>6, <2>1
<1> QED
  BY <1>1, <1>2, <1>7 DEF Reloading, Busy

\* delete_rule decides at its end what is to be done.
LEMMA DeleteIsLast ==
  ASSUME Whole, NEW o \in Operator, Delete(o)
  PROVE  ~ Reloading(o)
<1> DEFINE t == op[o].todo
<1>1. Follows(t) /\ IsSeq(t) /\ t # <<>> /\ t[1][1] = "delete_listed"
  BY DeleteStep DEF Whole, IsCall, Follows
<1> HIDE DEF t
<1>2. DOMAIN t = 1 .. Len(t) /\ Len(t) \in Nat \ {0}
  BY <1>1, SeqDomain, TailIsSeq
<1>3. 1 + 1 \notin DOMAIN t
  BY <1>1, <1>2 DEF Follows
<1>4. DOMAIN t = {1}
  BY <1>2, <1>3
<1> QED
  BY <1>1, <1>4 DEF Reloading, t

\* It reloads what it takes away.
LEMMA DeleteReloads ==
  ASSUME Whole, NEW o \in Operator, Delete(o), op'[o] # Idle, NEW r, op'[o].todo = Permanently(<<"not_permanent", r>>)
  PROVE  Reloading(o)'
<1> DEFINE t == Permanently(<<"not_permanent", r>>)
<1>1. DOMAIN t = {1, 2} /\ t[2][1] = "reload"
  BY TwoAreSeq DEF Permanently
<1> HIDE DEF t
<1>2. op'[o].todo = t
  BY DEF t
<1>4. Busy(o)
  BY DEF Delete, Runs
<1>3. op'[o].name # None
  BY <1>4, DeleteStep DEF Busy
<1> QED
  BY <1>1, <1>2, <1>3 DEF Reloading, Busy

\* What is left when the property is not yet known: somebody is reloading.
LEMMA RuntimeStep ==
  ASSUME Whole, RuntimeFollowsPermanent, [Next]_vars
  PROVE  RuntimeFollowsPermanent'
<1> SUFFICES ASSUME kind' = "firewalld", fw'.active, failures' = 0, \A o \in Operator : ~ Reloading(o)'
             PROVE  fw'.runtime = fw'.permanent
  BY DEF RuntimeFollowsPermanent
<1> USE DEF RuntimeFollowsPermanent
<1>1. ASSUME NEW o \in Operator, NEW c \in Call, Begin(o, c)
      PROVE  fw'.runtime = fw'.permanent
  <2>1. ~ Reloading(o)
    BY <1>1, BeginStep DEF Reloading
  <2>2. ASSUME NEW q \in Operator \ {o} PROVE ~ Reloading(q)
    <3>0. Same(op'[q], op[q])
      BY <1>1, BeginStep
    <3>1. op'[q].name = op[q].name /\ op'[q].todo = op[q].todo
      BY <3>0 DEF Same
    <3>2. ~ Reloading(q)'
      OBVIOUS
    <3> QED
      BY <3>1, <3>2 DEF Reloading, Busy
  <2>3. \A q \in Operator : ~ Reloading(q)
    BY <2>1, <2>2
  <2> QED
    BY <1>1, <2>3, BeginStep
<1>2. ASSUME NEW o \in Operator, Succeed(o)
      PROVE  fw'.runtime = fw'.permanent
  <2> DEFINE c == Command(o)
  <2>1. /\ fw' = Changed(c, op[o].found) /\ kind' = kind /\ failures' = failures /\ Others(o) /\ GoesOn(o) /\ Busy(o)
        /\ c = op[o].todo[1] /\ Possible(c) /\ IsFw(fw)
    BY <1>2, SucceedStep, NextCommand DEF GoesOn, Whole
  <2> HIDE DEF c
  <2>2. ~ Alters(c)
    <3> SUFFICES ASSUME Alters(c) PROVE FALSE
      OBVIOUS
    <3>1. Reloading(o)'
      BY <2>1, AlterIsReloaded
    <3> QED
      BY <3>1
  <2>3. CASE c[1] = "reload"
    BY <2>1, <2>2, <2>3, ChangedStored
  <2>4. CASE c[1] # "reload"
    <3>1. \A q \in Operator : ~ Reloading(q)
      BY <2>1, <2>4, NobodyReloads
    <3>2. c[1] # "stop"
      <4> SUFFICES ASSUME c[1] = "stop" PROVE FALSE
        OBVIOUS
      <4>1. fw'.active = FALSE
        BY <2>1, ChangedActive
      <4> QED
        BY <4>1
    <3>3. CASE c[1] = "activate"
      <4>1. fw'.permanent = fw.permanent
        BY <2>1, <2>2, ChangedStored
      <4>2. fw'.runtime = IF fw.active THEN fw.runtime ELSE fw.permanent
        BY <2>1, <3>3, ChangedActive
      <4> QED
        BY <2>1, <3>1, <4>1, <4>2
    <3>4. CASE c[1] # "activate"
      BY <2>1, <2>2, <2>4, <3>1, <3>2, <3>4, ChangedActive, ChangedStored
    <3> QED
      BY <3>3, <3>4
  <2> QED
    BY <2>3, <2>4
<1>3. ASSUME NEW o \in Operator, Fail(o)
      PROVE  fw'.runtime = fw'.permanent
  BY <1>3, FailStep DEF Possible
<1>4. ASSUME NEW o \in Operator, Invalidate(o)
      PROVE  fw'.runtime = fw'.permanent
  <2>1. \A q \in Operator : ~ Reloading(q)
    BY <1>4, InvalidateStep, NobodyReloads
  <2> QED
    BY <1>4, <2>1, InvalidateStep
<1>5. ASSUME NEW o \in Operator, ReadCached(o)
      PROVE  fw'.runtime = fw'.permanent
  <2>1. \A q \in Operator : ~ Reloading(q)
    BY <1>5, ReadCachedReload, ReadCachedStep, OthersReload
  <2> QED
    BY <1>5, <2>1, ReadCachedStep
<1>6. ASSUME NEW o \in Operator, Store(o)
      PROVE  fw'.runtime = fw'.permanent
  <2>1. \A q \in Operator : ~ Reloading(q)
    BY <1>6, StoreStep, NobodyReloads
  <2> QED
    BY <1>6, <2>1, StoreStep
<1>7. ASSUME NEW o \in Operator, Delete(o)
      PROVE  fw'.runtime = fw'.permanent
  <2>1. CASE op'[o] = Idle
    <3>1. ~ Reloading(o)
      BY <1>7, DeleteIsLast
    <3>2. \A q \in Operator : ~ Reloading(q)
      BY <1>7, <3>1, DeleteStep, OthersReload
    <3> QED
      BY <1>7, <3>2, DeleteStep
  <2>2. CASE op'[o] # Idle
    <3>1. PICK r : op'[o].todo = Permanently(<<"not_permanent", r>>)
      BY <1>7, <2>2, DeleteStep
    <3>2. Reloading(o)'
      BY <1>7, <2>2, <3>1, DeleteReloads
    <3> QED
      BY <3>2
  <2> QED
    BY <2>1, <2>2
<1>8. ASSUME NEW o \in Operator, Answer(o)
      PROVE  fw'.runtime = fw'.permanent
  <2>1. \A q \in Operator : ~ Reloading(q)
    BY <1>8, AnswerStep, OthersReload, EmptyIsSeq DEF Reloading
  <2> QED
    BY <1>8, <2>1, AnswerStep
<1>9. CASE Expire
  BY <1>9 DEF Expire, Reloading, Busy
<1>10. CASE UNCHANGED vars
  BY <1>10 DEF vars, Reloading, Busy
<1> QED
  BY <1>1, <1>2, <1>3, <1>4, <1>5, <1>6, <1>7, <1>8, <1>9, <1>10 DEF Next

\* The records keep their fields and the programs their form.
THEOREM WholeAlways == Spec => []Whole
<1>1. Init => Whole
  BY InitWhole
<1>2. ASSUME Whole, [Next]_vars PROVE Whole'
  <2>1. ASSUME NEW o \in Operator, NEW c \in Call, Begin(o, c) PROVE Whole'
    BY <1>2, <2>1, BeginStep
  <2>2. ASSUME NEW o \in Operator, Succeed(o) \/ Fail(o) \/ Invalidate(o) PROVE Whole'
    BY <1>2, <2>2, SucceedStep, FailStep, InvalidateStep
  <2>3. ASSUME NEW o \in Operator, ReadCached(o) \/ Store(o) \/ Delete(o) \/ Answer(o) PROVE Whole'
    BY <1>2, <2>3, ReadCachedStep, StoreStep, DeleteStep, AnswerStep
  <2>4. CASE Expire
    BY <1>2, <2>4 DEF Expire, Whole, IsFw
  <2>5. CASE UNCHANGED vars
    BY <1>2, <2>5 DEF vars, Whole, IsFw
  <2> QED
    BY <1>2, <2>1, <2>2, <2>3, <2>4, <2>5 DEF Next
<1> QED
  BY <1>1, <1>2, PTL DEF Spec

\* With firewalld, what is running is what is stored, once every reload was made: the
\* commands of several operators may come between a change and its reload.
THEOREM RuntimeIsPermanent == Spec => []RuntimeFollowsPermanent
<1>1. Init => RuntimeFollowsPermanent
  BY DEF Init, RuntimeFollowsPermanent
<1> QED
  BY <1>1, WholeAlways, RuntimeStep, PTL DEF Spec

-----------------------------------------------------------------------------
\* The rules of ufw and Emare OS, as long as nothing takes them away by their place.

\* A set of numbers has a least one.
LEMMA LeastNumber ==
  ASSUME NEW I \in SUBSET Nat, I # {}
  PROVE  \E x \in I : \A y \in I : x <= y
<1> DEFINE less == OpToRel(<, Nat)
<1>1. IsWellFoundedOn(less, Nat)
  BY NatLessThanWellFounded
<1>2. \A x \in Nat, y \in Nat : y < x => <<y, x>> \in less
  BY DEF OpToRel
<1> HIDE DEF less
<1>3. PICK x \in I : \A y \in I : ~ (<<y, x>> \in less)
  BY <1>1, WFMin
<1>4. \A y \in I : ~ (y < x)
  BY <1>2, <1>3
<1> QED
  BY <1>4

LEMMA MinIsIn ==
  ASSUME NEW I \in SUBSET Nat, I # {}
  PROVE  Min(I) \in I
  BY LeastNumber DEF Min

\* The first place of a value is one where it stands.
LEMMA FirstPlace ==
  ASSUME NEW s, NEW r, Len(s) \in Nat, First(s, r) # 0
  PROVE  First(s, r) \in 1 .. Len(s) /\ s[First(s, r)] = r
<1> DEFINE I == {i \in 1 .. Len(s) : s[i] = r}
<1>1. First(s, r) = IF I # {} THEN Min(I) ELSE 0
  BY DEF First, SelectInSeq
<1>2. I # {} /\ I \in SUBSET Nat
  BY <1>1
<1> QED
  BY <1>1, <1>2, MinIsIn

\* Every rule of the chain is on.
Chained(chain) == IsSeq(chain) /\ \A e \in Range(chain) : e = Entry(e.rule)
ChainIsOn == Chained(fw.chain)
HasRule(r) == Entry(r) \in Range(fw.chain)

\* A rule is in the chain when it has a place there.
LEMMA PlacesOfRule ==
  ASSUME NEW r
  PROVE  Places(fw.chain, Entry(r)) # {} <=> HasRule(r)
  BY DEF Places, HasRule, Range

\* A rule that is on stays as it is when it is switched on.
LEMMA EntryIsOn ==
  ASSUME NEW r
  PROVE  Entry(r).rule = r /\ Entry(r).on = TRUE /\ [Entry(r) EXCEPT !.on = TRUE] = Entry(r)
<1>1. Entry(r).rule = r /\ Entry(r).on = TRUE
  BY DEF Entry
<1> DEFINE b == TRUE
           e == Entry(r)
<1>2. e = [rule |-> r, on |-> b]
  BY DEF Entry
<1> HIDE DEF b, e
<1>3. [e EXCEPT !.on = b] = e
  BY <1>2
<1>4. [Entry(r) EXCEPT !.on = TRUE] = Entry(r)
  BY <1>3 DEF b, e
<1> QED
  BY <1>1, <1>4

\* What First finds in the texts of the chain.
LEMMA FirstRule ==
  ASSUME ChainIsOn, NEW r, First(Texts(fw.chain), r) # 0
  PROVE  /\ First(Texts(fw.chain), r) \in DOMAIN fw.chain
         /\ fw.chain[First(Texts(fw.chain), r)] = Entry(r)
<1> DEFINE s == Texts(fw.chain)
<1>1. DOMAIN fw.chain = 1 .. Len(fw.chain) /\ Len(fw.chain) \in Nat
  BY SeqDomain DEF ChainIsOn, Chained
<1>2. s = [i \in 1 .. Len(fw.chain) |-> fw.chain[i].rule]
  BY <1>1 DEF Texts
<1>3. s \in Seq(Range(s)) /\ Len(s) = Len(fw.chain)
  BY <1>1, <1>2 DEF Range
<1> HIDE DEF s
<1>4. First(s, r) \in 1 .. Len(s) /\ s[First(s, r)] = r
  BY <1>1, <1>3, FirstPlace DEF s
<1>5. fw.chain[First(s, r)].rule = r
  BY <1>1, <1>2, <1>3, <1>4
<1> QED
  BY <1>1, <1>3, <1>4, <1>5 DEF s, ChainIsOn, Chained, Range

\* Places behind one that is taken out.
LEMMA AfterPlace ==
  ASSUME NEW n \in Nat, NEW i \in 1 .. n, NEW j \in 1 .. (n - i)
  PROVE  j \in 1 .. n - (i + 1) + 1 /\ (i + 1) + j - 1 = i + j
  OBVIOUS

\* What remains when a place is taken out of a sequence.
LEMMA AtKeeps ==
  ASSUME NEW s, IsSeq(s), NEW i
  PROVE  /\ IsSeq(At(s, i)) /\ Range(At(s, i)) \subseteq Range(s)
         /\ \A j \in DOMAIN s : j # i => s[j] \in Range(At(s, i))
<1>1. DOMAIN s = 1 .. Len(s) /\ Len(s) \in Nat /\ s \in Seq(Range(s))
  BY SeqDomain DEF IsSeq
<1>2. CASE i \notin DOMAIN s
  BY <1>2 DEF At, Range
<1>3. CASE i \in DOMAIN s
  <2> DEFINE a == SubSeq(s, 1, i - 1)
             b == SubSeq(s, i + 1, Len(s))
             t == a \o b
  <2>1. At(s, i) = t
    BY <1>3 DEF At, RemoveAt
  <2>2. i \in 1 .. Len(s)
    BY <1>1, <1>3
  <2>9. /\ \A k \in 1 .. (i - 1) : s[k] \in Range(s)
        /\ \A k \in (i + 1) .. Len(s) : s[k] \in Range(s)
    BY <1>1, <2>2 DEF Range
  <2>10. /\ a \in Seq(Range(s)) /\ Len(a) = IF 1 <= i - 1 THEN (i - 1) - 1 + 1 ELSE 0
         /\ \A j \in 1 .. (i - 1) - 1 + 1 : a[j] = s[1 + j - 1]
    BY <1>1, <2>2, <2>9, SubSeqProperties
  <2>11. /\ b \in Seq(Range(s)) /\ Len(b) = IF i + 1 <= Len(s) THEN Len(s) - (i + 1) + 1 ELSE 0
         /\ \A j \in 1 .. Len(s) - (i + 1) + 1 : b[j] = s[(i + 1) + j - 1]
    BY <1>1, <2>2, <2>9, SubSeqProperties
  <2> HIDE DEF a, b
  <2>3. /\ a \in Seq(Range(s)) /\ Len(a) = i - 1 /\ \A j \in 1 .. (i - 1) : a[j] = s[j]
    BY <1>1, <2>2, <2>10
  <2>4. /\ b \in Seq(Range(s)) /\ Len(b) = Len(s) - i /\ \A j \in 1 .. (Len(s) - i) : b[j] = s[i + j]
    <3> DEFINE n == Len(s)
    <3>0. n \in Nat /\ i \in 1 .. n
      BY <1>1, <2>2
    <3> HIDE DEF n
    <3>3. \A j \in 1 .. (n - i) : j \in 1 .. n - (i + 1) + 1 /\ (i + 1) + j - 1 = i + j
      BY <3>0, AfterPlace
    <3>1. \A j \in 1 .. (Len(s) - i) : j \in 1 .. Len(s) - (i + 1) + 1 /\ (i + 1) + j - 1 = i + j
      BY <3>3 DEF n
    <3>6. n - i = IF i + 1 <= n THEN n - (i + 1) + 1 ELSE 0
      BY <3>0
    <3>2. Len(b) = Len(s) - i
      BY <2>11, <3>6 DEF n
    <3>4. ASSUME NEW j \in 1 .. (Len(s) - i) PROVE b[j] = s[i + j]
      <4>1. j \in 1 .. Len(s) - (i + 1) + 1 /\ (i + 1) + j - 1 = i + j
        BY <3>1
      <4>2. b[j] = s[(i + 1) + j - 1]
        BY <2>11, <4>1
      <4> QED
        BY <4>1, <4>2
    <3>5. b \in Seq(Range(s))
      BY <2>11
    <3> QED
      BY <3>2, <3>4, <3>5
  <2>5. /\ t \in Seq(Range(s)) /\ Len(t) = Len(a) + Len(b)
        /\ \A j \in 1 .. Len(a) + Len(b) : t[j] = IF j <= Len(a) THEN a[j] ELSE b[j - Len(a)]
    BY <2>3, <2>4, ConcatProperties
  <2> HIDE DEF t
  <2>6. /\ DOMAIN t = 1 .. (Len(s) - 1)
        /\ \A j \in 1 .. (Len(s) - 1) : t[j] = IF j <= i - 1 THEN a[j] ELSE b[j - (i - 1)]
    BY <1>1, <2>2, <2>3, <2>4, <2>5
  <2>7. ASSUME NEW j \in DOMAIN s, j # i PROVE s[j] \in Range(t)
    <3>1. CASE j < i
      <4>1. j \in 1 .. (Len(s) - 1) /\ j \in 1 .. (i - 1)
        BY <1>1, <2>2, <2>7, <3>1
      <4>2. t[j] = s[j]
        BY <2>3, <2>6, <4>1
      <4> QED
        BY <2>6, <4>1, <4>2 DEF Range
    <3>2. CASE j > i
      <4>1. j - 1 \in 1 .. (Len(s) - 1) /\ ~ (j - 1 <= i - 1) /\ (j - 1) - (i - 1) = j - i
            /\ j - i \in 1 .. (Len(s) - i) /\ i + (j - i) = j
        BY <1>1, <2>2, <2>7, <3>2
      <4>2. t[j - 1] = b[j - i]
        BY <2>6, <4>1
      <4>3. t[j - 1] = s[j]
        BY <2>4, <4>1, <4>2
      <4> QED
        BY <2>6, <4>1, <4>3 DEF Range
    <3> QED
      BY <1>1, <2>2, <2>7, <3>1, <3>2
  <2>8. IsSeq(t) /\ Range(t) \subseteq Range(s)
    BY <2>5, SeqIsSeq DEF Range
  <2> QED
    BY <2>1, <2>7, <2>8
<1> QED
  BY <1>2, <1>3

\* A rule that is appended is there, and so are the others.
LEMMA AppendKeeps ==
  ASSUME ChainIsOn, NEW r
  PROVE  LET chain == Append1(fw.chain, r)
         IN  Chained(chain) /\ Range(fw.chain) \subseteq Range(chain) /\ Entry(r) \in Range(chain)
<1>1. CASE kind = "ufw" /\ Places(fw.chain, Entry(r)) # {}
  BY <1>1, PlacesOfRule DEF Append1, ChainIsOn, HasRule
<1>2. CASE ~ (kind = "ufw" /\ Places(fw.chain, Entry(r)) # {})
  <2> DEFINE e == Entry(r)
             chain == Append(fw.chain, e)
  <2>1. Append1(fw.chain, r) = chain
    BY <1>2 DEF Append1
  <2>2. /\ DOMAIN fw.chain = 1 .. Len(fw.chain) /\ Len(fw.chain) \in Nat
        /\ fw.chain \in Seq(Range(fw.chain) \cup {e})
    BY SeqDomain DEF ChainIsOn, Chained, IsSeq
  <2> HIDE DEF e
  <2>3. /\ chain \in Seq(Range(fw.chain) \cup {e}) /\ DOMAIN chain = 1 .. (Len(fw.chain) + 1)
        /\ chain[Len(fw.chain) + 1] = e
        /\ \A i \in DOMAIN fw.chain : chain[i] = fw.chain[i]
    BY <2>2
  <2> HIDE DEF chain
  <2>4. IsSeq(chain)
    BY <2>3, SeqIsSeq
  <2>5. Range(chain) \subseteq Range(fw.chain) \cup {e}
    BY <2>3, <2>4 DEF Range
  <2>6. e \in Range(chain)
    BY <2>2, <2>3 DEF Range
  <2>7. Range(fw.chain) \subseteq Range(chain)
    BY <2>2, <2>3 DEF Range
  <2>8. e = Entry(e.rule)
    BY EntryIsOn DEF e
  <2>9. Chained(chain)
    BY <2>4, <2>5, <2>8 DEF Chained, ChainIsOn
  <2> QED
    BY <2>1, <2>6, <2>7, <2>9 DEF e
<1> QED
  BY <1>1, <1>2

\* Only the rule that is deleted is gone.
LEMMA DeleteKeeps ==
  ASSUME ChainIsOn, NEW r
  PROVE  LET chain == At(fw.chain, First(Texts(fw.chain), r))
         IN  Chained(chain) /\ \A q : q # r /\ HasRule(q) => Entry(q) \in Range(chain)
<1> DEFINE n == First(Texts(fw.chain), r)
           chain == At(fw.chain, n)
<1>1. IsSeq(fw.chain) /\ DOMAIN fw.chain = 1 .. Len(fw.chain)
  BY SeqDomain DEF ChainIsOn, Chained
<1>2. /\ IsSeq(chain) /\ Range(chain) \subseteq Range(fw.chain)
      /\ \A j \in DOMAIN fw.chain : j # n => fw.chain[j] \in Range(chain)
  BY <1>1, AtKeeps
<1>3. n # 0 => fw.chain[n] = Entry(r)
  BY FirstRule
<1> HIDE DEF n, chain
<1>4. Chained(chain)
  BY <1>2 DEF Chained, ChainIsOn
<1>5. ASSUME NEW q, q # r, HasRule(q) PROVE Entry(q) \in Range(chain)
  <2>1. PICK j \in DOMAIN fw.chain : fw.chain[j] = Entry(q)
    BY <1>5 DEF HasRule, Range
  <2>2. Entry(q) # Entry(r)
    <3>1. Entry(q).rule = q /\ Entry(r).rule = r
      BY EntryIsOn
    <3> QED
      BY <1>5, <3>1
  <2>3. j # n
    BY <1>1, <1>3, <2>1, <2>2
  <2> QED
    BY <1>2, <2>1, <2>3
<1> QED
  BY <1>4, <1>5 DEF chain, n

\* With rules that are all on, switching all on changes nothing.
LEMMA SwitchKeeps ==
  ASSUME ChainIsOn
  PROVE  [i \in DOMAIN fw.chain |-> [fw.chain[i] EXCEPT !.on = TRUE]] = fw.chain
<1> DEFINE s == fw.chain
<1>1. ASSUME NEW i \in DOMAIN s PROVE [s[i] EXCEPT !.on = TRUE] = s[i]
  <2>1. s[i] = Entry(s[i].rule)
    BY DEF ChainIsOn, Chained, Range
  <2> QED
    BY <2>1, EntryIsOn
<1>2. s = [i \in DOMAIN s |-> s[i]]
  BY DEF ChainIsOn, Chained, IsSeq
<1> QED
  BY <1>1, <1>2


-----------------------------------------------------------------------------
\* The blocking of an address.

\* What keeps an address out, and how far a call that blocks one has come.
BlockRule(ip) == <<"block", ip>>
BlockMember(ip) == <<"blocked", ip>>
DropRule == <<"drop", "blocked">>

Stands(ip) ==
    /\ kind = "ufw" => HasRule(BlockRule(ip))
    /\ kind = "firewalld" => BlockRule(ip) \in fw.permanent /\ BlockRule(ip) \in fw.runtime
    /\ kind = "emareos" => BlockMember(ip) \in fw.lists /\ HasRule(DropRule)

AtStart(t, ip) ==
    \/ t = BlockIp(ip)
    \/ kind = "ufw" /\ t = <<<<"append", BlockRule(ip)>>>>
    \/ kind = "firewalld" /\ t = <<<<"permanent", BlockRule(ip)>>, <<"reload">>>>
    \/ /\ kind = "emareos"
       /\ t = <<<<"list", BlockMember(ip)>>, <<"look", DropRule>>, <<"append_unless_found", DropRule>>>>

HalfWay(t, ip, found) ==
    \/ kind = "firewalld" /\ t = <<<<"reload">>>> /\ BlockRule(ip) \in fw.permanent
    \/ /\ kind = "emareos" /\ BlockMember(ip) \in fw.lists
       /\ t = <<<<"look", DropRule>>, <<"append_unless_found", DropRule>>>>
    \/ /\ kind = "emareos" /\ BlockMember(ip) \in fw.lists
       /\ t = <<<<"append_unless_found", DropRule>>>>
       /\ found # 0 => HasRule(DropRule)

Underway(r) ==
    AtStart(r.todo, r.ip) \/ HalfWay(r.todo, r.ip, r.found) \/ (r.todo = <<>> /\ Stands(r.ip))

\* A command that takes nothing away that keeps an address out, but for the address that
\* the call unblocks.
Spares(c, name, ip) ==
    /\ c[1] \notin {"stop", "switch", "chain_at", "delete_listed", "delete_all"}
    /\ c[1] = "switch_all" => c[2] = TRUE
    /\ c[1] \in {"delete", "not_permanent", "unlist"} =>
         \/ c[2][1] \notin {"block", "blocked", "drop"}
         \/ name = "unblock" /\ c[2] \in {BlockRule(ip), BlockMember(ip)}
AllSpare(t, name, ip) == IsSeq(t) /\ \A c \in Range(t) : Spares(c, name, ip)

NobodyUnblocks(ip) == \A q \in Operator : ~ Concerns(q, "unblock", ip)
Undisturbed == failures = 0 /\ "removing" \notin history

\* What a sparing command leaves.
LEMMA SpareChange ==
  ASSUME Whole, ChainIsOn, fw.active = TRUE,
         NEW c, NEW name, NEW ip, Spares(c, name, ip), NEW found, fw' = Changed(c, found)
  PROVE  /\ fw'.active = TRUE /\ Chained(fw'.chain)
         /\ \A q : HasRule(q) /\ q[1] \in {"block", "drop"} =>
              HasRule(q)' \/ (name = "unblock" /\ q \in {BlockRule(ip), BlockMember(ip)})
         /\ \A q : q[1] = "block" /\ q \in fw.permanent =>
              q \in fw'.permanent \/ (name = "unblock" /\ q \in {BlockRule(ip), BlockMember(ip)})
         /\ \A q : q \in fw.permanent /\ q \in fw.runtime => q \in fw'.runtime
         /\ \A q : q[1] = "blocked" /\ q \in fw.lists =>
              q \in fw'.lists \/ (name = "unblock" /\ q \in {BlockRule(ip), BlockMember(ip)})
<1> DEFINE gone == {BlockRule(ip), BlockMember(ip)}
<1>0. IsFw(fw)
  BY DEF Whole
<1>1. c[1] \notin {"stop", "switch", "chain_at", "delete_all"} /\ (c[1] = "switch_all" => c[2] = TRUE)
  BY DEF Spares
<1>2. c[1] \in {"delete", "not_permanent", "unlist"} =>
        c[2][1] \notin {"block", "blocked", "drop"} \/ (name = "unblock" /\ c[2] \in gone)
  BY DEF Spares
<1> HIDE DEF gone
<1>3. fw'.active = TRUE
  <2>1. c[1] # "activate" => fw'.active = fw.active
    BY <1>0, <1>1, ChangedActive
  <2>2. c[1] = "activate" => fw'.active = TRUE
    BY <1>0, ChangedActive
  <2> QED
    BY <2>1, <2>2
<1>4. Chained(fw'.chain) /\ \A q : HasRule(q) /\ q[1] \in {"block", "drop"} =>
        HasRule(q)' \/ (name = "unblock" /\ q \in gone)
  <2>1. CASE c[1] \notin OnChain
    <3>1. fw'.chain = fw.chain
      BY <1>0, <2>1 DEF Changed, OnChain, IsFw
    <3> QED
      BY <3>1 DEF ChainIsOn, HasRule
  <2>2. CASE c[1] = "switch_all"
    <3>1. c[2] = TRUE
      BY <1>1, <2>2
    <3>2. fw'.chain = [i \in DOMAIN fw.chain |-> [fw.chain[i] EXCEPT !.on = c[2]]]
      BY <1>0, <2>2 DEF Changed, IsFw
    <3>3. fw'.chain = fw.chain
      BY <3>1, <3>2, SwitchKeeps
    <3> QED
      BY <3>3 DEF ChainIsOn, HasRule
  <2>3. CASE c[1] = "append" \/ (c[1] = "append_unless_found" /\ found = 0)
    <3>1. fw'.chain = Append1(fw.chain, c[2])
      BY <1>0, <2>3 DEF Changed, IsFw
    <3> QED
      BY <3>1, AppendKeeps DEF HasRule
  <2>4. CASE c[1] = "append_unless_found" /\ found # 0
    <3>1. fw'.chain = fw.chain
      BY <1>0, <2>4 DEF Changed, IsFw
    <3> QED
      BY <3>1 DEF ChainIsOn, HasRule
  <2>5. CASE c[1] = "delete"
    <3>1. fw'.chain = At(fw.chain, First(Texts(fw.chain), c[2]))
      BY <1>0, <2>5 DEF Changed, IsFw
    <3>2. Chained(fw'.chain) /\ \A q : q # c[2] /\ HasRule(q) => HasRule(q)'
      BY <3>1, DeleteKeeps DEF HasRule
    <3>3. c[2][1] \notin {"block", "blocked", "drop"} \/ (name = "unblock" /\ c[2] \in gone)
      BY <1>2, <2>5
    <3> QED
      BY <3>2, <3>3
  <2> QED
    BY <1>1, <2>1, <2>2, <2>3, <2>4, <2>5 DEF OnChain
<1>5. \A q : q[1] = "block" /\ q \in fw.permanent => q \in fw'.permanent \/ (name = "unblock" /\ q \in gone)
  <2>1. CASE c[1] = "not_permanent"
    <3>1. fw'.permanent = fw.permanent \ {c[2]}
      BY <1>0, <2>1, ChangedStored
    <3>2. c[2][1] \notin {"block", "blocked", "drop"} \/ (name = "unblock" /\ c[2] \in gone)
      BY <1>2, <2>1
    <3> QED
      BY <3>1, <3>2
  <2>2. CASE c[1] = "permanent"
    <3>1. fw'.permanent = fw.permanent \cup {c[2]}
      BY <1>0, <2>2, ChangedStored
    <3> QED
      BY <3>1
  <2>3. CASE c[1] \notin {"permanent", "not_permanent"}
    <3>1. fw'.permanent = fw.permanent
      BY <1>0, <2>3, ChangedStored DEF Alters
    <3> QED
      BY <3>1
  <2> QED
    BY <2>1, <2>2, <2>3
<1>6. \A q : q \in fw.permanent /\ q \in fw.runtime => q \in fw'.runtime
  <2>1. c[1] \notin {"activate", "stop", "reload"} => fw'.runtime = fw.runtime
    BY <1>0, ChangedStored
  <2>2. c[1] = "reload" => fw'.runtime = fw.permanent
    BY <1>0, ChangedStored
  <2>3. c[1] = "activate" => fw'.runtime = fw.runtime
    BY <1>0, ChangedActive
  <2> QED
    BY <1>1, <2>1, <2>2, <2>3
<1>7. \A q : q[1] = "blocked" /\ q \in fw.lists => q \in fw'.lists \/ (name = "unblock" /\ q \in gone)
  <2>1. CASE c[1] = "unlist"
    <3>1. fw'.lists = fw.lists \ {c[2]}
      BY <1>0, <2>1 DEF Changed, IsFw
    <3>2. c[2][1] \notin {"block", "blocked", "drop"} \/ (name = "unblock" /\ c[2] \in gone)
      BY <1>2, <2>1
    <3> QED
      BY <3>1, <3>2
  <2>2. CASE c[1] # "unlist"
    <3>1. fw.lists \subseteq fw'.lists
      BY <1>0, <2>2 DEF Changed, IsFw
    <3> QED
      BY <3>1
  <2> QED
    BY <2>1, <2>2
<1> QED
  BY <1>3, <1>4, <1>5, <1>6, <1>7 DEF gone


\* Whoever unblocks another address leaves what keeps this one out.
LEMMA StandsStays ==
  ASSUME Whole, ChainIsOn, fw.active = TRUE, kind' = kind,
         NEW c, NEW name, NEW ip, Spares(c, name, ip), NEW found, fw' = Changed(c, found),
         NEW x, ~ (name = "unblock" /\ ip = x)
  PROVE  /\ HasRule(BlockRule(x)) => HasRule(BlockRule(x))'
         /\ HasRule(DropRule) => HasRule(DropRule)'
         /\ BlockRule(x) \in fw.permanent => BlockRule(x) \in fw'.permanent
         /\ BlockRule(x) \in fw.permanent /\ BlockRule(x) \in fw.runtime => BlockRule(x) \in fw'.runtime
         /\ BlockMember(x) \in fw.lists => BlockMember(x) \in fw'.lists
<1>1. BlockRule(x)[1] = "block" /\ BlockMember(x)[1] = "blocked" /\ DropRule[1] = "drop"
  BY DEF BlockRule, BlockMember, DropRule
<1>2. /\ name = "unblock" => BlockRule(x) \notin {BlockRule(ip), BlockMember(ip)}
      /\ name = "unblock" => BlockMember(x) \notin {BlockRule(ip), BlockMember(ip)}
      /\ DropRule \notin {BlockRule(ip), BlockMember(ip)}
  BY DEF BlockRule, BlockMember, DropRule
<1> HIDE DEF BlockRule, BlockMember, DropRule
<1>3. \A q : HasRule(q) /\ q[1] \in {"block", "drop"} =>
             HasRule(q)' \/ (name = "unblock" /\ q \in {BlockRule(ip), BlockMember(ip)})
  BY SpareChange
<1>9. \A q : q[1] = "block" /\ q \in fw.permanent =>
             q \in fw'.permanent \/ (name = "unblock" /\ q \in {BlockRule(ip), BlockMember(ip)})
  BY SpareChange
<1>10. \A q : q[1] = "blocked" /\ q \in fw.lists =>
             q \in fw'.lists \/ (name = "unblock" /\ q \in {BlockRule(ip), BlockMember(ip)})
  BY SpareChange
<1>4. HasRule(BlockRule(x)) => HasRule(BlockRule(x))'
  BY <1>1, <1>2, <1>3 DEF HasRule
<1>5. HasRule(DropRule) => HasRule(DropRule)'
  BY <1>1, <1>2, <1>3 DEF HasRule
<1>6. BlockRule(x) \in fw.permanent => BlockRule(x) \in fw'.permanent
  BY <1>1, <1>2, <1>9
<1>7. BlockRule(x) \in fw.permanent /\ BlockRule(x) \in fw.runtime => BlockRule(x) \in fw'.runtime
  BY SpareChange
<1>8. BlockMember(x) \in fw.lists => BlockMember(x) \in fw'.lists
  BY <1>1, <1>2, <1>10
<1> QED
  BY <1>4, <1>5, <1>6, <1>7, <1>8

\* A call that blocks an address goes on while another call changes the firewall.
LEMMA UnderwayStays ==
  ASSUME Whole, ChainIsOn, fw.active = TRUE, kind' = kind,
         NEW c, NEW name, NEW ip, Spares(c, name, ip), NEW found, fw' = Changed(c, found),
         NEW q \in Operator, op'[q].todo = op[q].todo, op'[q].ip = op[q].ip, op'[q].found = op[q].found,
         ~ (name = "unblock" /\ ip = op[q].ip), Underway(op[q])
  PROVE  Underway(op[q])'
<1> DEFINE x == op[q].ip
           t == op[q].todo
<1>1. /\ HasRule(BlockRule(x)) => Entry(BlockRule(x)) \in Range(fw'.chain)
      /\ HasRule(DropRule) => HasRule(DropRule)'
      /\ BlockRule(x) \in fw.permanent => BlockRule(x) \in fw'.permanent
      /\ BlockRule(x) \in fw.permanent /\ BlockRule(x) \in fw.runtime => BlockRule(x) \in fw'.runtime
      /\ BlockMember(x) \in fw.lists => BlockMember(x) \in fw'.lists
  BY StandsStays DEF HasRule
<1>2. CASE AtStart(t, x)
  <2>1. BlockIp(op[q].ip)' = BlockIp(x)
    BY DEF BlockIp, OnKind
  <2>2. AtStart(op[q].todo, op[q].ip)'
    BY <1>2, <2>1 DEF AtStart
  <2> QED
    BY <2>2 DEF Underway
<1>3. CASE HalfWay(t, x, op[q].found)
  BY <1>1, <1>3 DEF Underway, HalfWay
<1>4. CASE t = <<>> /\ Stands(x)
  BY <1>1, <1>4 DEF Underway, Stands, HasRule
<1> QED
  BY <1>2, <1>3, <1>4 DEF Underway

\* block_ip forgets the status and makes the commands for the kind of firewall.
LEMMA BlockProgram ==
  ASSUME kind \in Kind, NEW x
  PROVE  /\ BlockIp(x) # <<>> /\ BlockIp(x)[1] = <<"forget">>
         /\ AtStart(Tail(BlockIp(x)), x) /\ Tail(BlockIp(x)) # BlockIp(x)
<1> DEFINE s == OnKind(<<<<"append", <<"block", x>>>>>>,
                     Permanently(<<"permanent", <<"block", x>>>>),
                     <<<<"list", <<"blocked", x>>>>,
                       <<"look", <<"drop", "blocked">>>>,
                       <<"append_unless_found", <<"drop", "blocked">>>>>>)
<1>1. BlockIp(x) = Forget \o s
  BY DEF BlockIp
<1>2. /\ kind = "ufw" => s = <<<<"append", BlockRule(x)>>>>
      /\ kind = "firewalld" => s = <<<<"permanent", BlockRule(x)>>, <<"reload">>>>
      /\ kind = "emareos" =>
           s = <<<<"list", BlockMember(x)>>, <<"look", DropRule>>, <<"append_unless_found", DropRule>>>>
  BY DEF OnKind, Permanently, BlockRule, BlockMember, DropRule
<1> HIDE DEF s
<1>3. IsSeq(s) /\ s[1] # <<"forget">>
  <2>1. CASE kind = "ufw"
    <3>1. s = <<<<"append", BlockRule(x)>>>>
      BY <1>2, <2>1
    <3> QED
      BY <3>1, OneIsSeq
  <2>2. CASE kind = "firewalld"
    <3>1. s = <<<<"permanent", BlockRule(x)>>, <<"reload">>>>
      BY <1>2, <2>2
    <3> QED
      BY <3>1, TwoAreSeq
  <2>3. CASE kind = "emareos"
    <3>1. s = <<<<"list", BlockMember(x)>>, <<"look", DropRule>>, <<"append_unless_found", DropRule>>>>
      BY <1>2, <2>3
    <3> QED
      BY <3>1, ThreeAreSeq
  <2> QED
    BY <2>1, <2>2, <2>3 DEF Kind
<1>4. Forget \o s # <<>> /\ (Forget \o s)[1] = <<"forget">> /\ Tail(Forget \o s) = s
  BY <1>3, RangeOfForget
<1>5. AtStart(s, x)
  BY <1>2 DEF AtStart, Kind
<1> QED
  BY <1>1, <1>3, <1>4, <1>5

\* Its first command.
LEMMA UnderwayInvalidates ==
  ASSUME Whole, NEW o \in Operator, Invalidate(o), Underway(op[o])
  PROVE  Underway(op[o])'
<1> DEFINE x == op[o].ip
           t == op[o].todo
<1>1. /\ kind' = kind /\ fw' = fw /\ op'[o].todo = Tail(t) /\ op'[o].ip = x /\ t # <<>>
      /\ t[1][1] = "forget" /\ kind \in Kind
  BY InvalidateStep DEF GoesOn, Whole
<1>2. t = BlockIp(x)
  BY <1>1 DEF Underway, AtStart, HalfWay
<1>3. AtStart(Tail(t), x)
  BY <1>1, <1>2, BlockProgram
<1>4. AtStart(op'[o].todo, op'[o].ip)
  BY <1>1, <1>3
<1>5. AtStart(op[o].todo, op[o].ip)'
  BY <1>1, <1>4 DEF AtStart, BlockIp, OnKind
<1> QED
  BY <1>5 DEF Underway

\* Its other commands: what each has done stays done.
LEMMA UnderwaySucceeds ==
  ASSUME Whole, ChainIsOn, fw.active = TRUE, NEW o \in Operator, Succeed(o), op[o].name = "block",
         Spares(Command(o), op[o].name, op[o].ip), Underway(op[o])
  PROVE  Underway(op[o])'
<1> DEFINE x == op[o].ip
           t == op[o].todo
           c == Command(o)
<1>1. /\ kind' = kind /\ fw' = Changed(c, op[o].found) /\ op'[o].todo = Tail(t) /\ op'[o].ip = x /\ t # <<>>
      /\ c[1] \notin Local /\ c = t[1] /\ kind \in Kind /\ IsFw(fw)
      /\ op'[o].found = Found(c, op[o].found)
  BY SucceedStep, NextCommand DEF GoesOn, Whole
<1>2. /\ HasRule(BlockRule(x)) => Entry(BlockRule(x)) \in Range(fw'.chain)
      /\ HasRule(DropRule) => Entry(DropRule) \in Range(fw'.chain)
      /\ BlockRule(x) \in fw.permanent => BlockRule(x) \in fw'.permanent
      /\ BlockMember(x) \in fw.lists => BlockMember(x) \in fw'.lists
  BY <1>1, StandsStays DEF HasRule
<1>3. t # BlockIp(x)
  BY <1>1, BlockProgram DEF Local
<1> SUFFICES \/ HalfWay(op[o].todo, op[o].ip, op[o].found)'
             \/ op'[o].todo = <<>> /\ Stands(op[o].ip)'
             \/ AtStart(op[o].todo, op[o].ip)'
  BY DEF Underway
<1>4. CASE kind = "ufw"
  <2>1. t = <<<<"append", BlockRule(x)>>>>
    BY <1>1, <1>3, <1>4 DEF Underway, AtStart, HalfWay
  <2>2. Tail(t) = <<>> /\ c = <<"append", BlockRule(x)>>
    BY <1>1, <2>1, OneIsSeq
  <2>3. fw'.chain = Append1(fw.chain, BlockRule(x))
    BY <1>1, <2>2 DEF Changed, IsFw
  <2>4. Entry(BlockRule(x)) \in Range(fw'.chain)
    BY <2>3, AppendKeeps
  <2> QED
    BY <1>1, <1>4, <2>2, <2>4 DEF Stands, HasRule
<1>5. CASE kind = "firewalld"
  <2>1. CASE t = <<<<"permanent", BlockRule(x)>>, <<"reload">>>>
    <3>1. Tail(t) = <<<<"reload">>>> /\ c = <<"permanent", BlockRule(x)>>
      BY <1>1, <2>1, TwoAreSeq
    <3>2. fw'.permanent = fw.permanent \cup {BlockRule(x)}
      BY <1>1, <3>1, ChangedStored
    <3> QED
      BY <1>1, <1>5, <3>1, <3>2 DEF HalfWay
  <2>2. CASE t = <<<<"reload">>>> /\ BlockRule(x) \in fw.permanent
    <3>1. Tail(t) = <<>> /\ c = <<"reload">>
      BY <1>1, <2>2, OneIsSeq
    <3>2. fw'.runtime = fw.permanent
      BY <1>1, <3>1, ChangedStored
    <3> QED
      BY <1>1, <1>2, <1>5, <2>2, <3>1, <3>2 DEF Stands
  <2> QED
    BY <1>1, <1>3, <1>5, <2>1, <2>2 DEF Underway, AtStart, HalfWay
<1>6. CASE kind = "emareos"
  <2>1. CASE t = <<<<"list", BlockMember(x)>>, <<"look", DropRule>>, <<"append_unless_found", DropRule>>>>
    <3>1. /\ Tail(t) = <<<<"look", DropRule>>, <<"append_unless_found", DropRule>>>>
          /\ c = <<"list", BlockMember(x)>>
      BY <1>1, <2>1, ThreeAreSeq
    <3>2. fw'.lists = fw.lists \cup {BlockMember(x)}
      BY <1>1, <3>1 DEF Changed, IsFw
    <3> QED
      BY <1>1, <1>6, <3>1, <3>2 DEF HalfWay
  <2>2. CASE /\ BlockMember(x) \in fw.lists
             /\ t = <<<<"look", DropRule>>, <<"append_unless_found", DropRule>>>>
    <3>1. Tail(t) = <<<<"append_unless_found", DropRule>>>> /\ c = <<"look", DropRule>>
      BY <1>1, <2>2, TwoAreSeq
    <3>2. op'[o].found = First(Texts(fw.chain), DropRule)
      BY <1>1, <3>1 DEF Found
    <3>3. op'[o].found # 0 => HasRule(DropRule)
      BY <3>2, FirstRule DEF HasRule, Range
    <3> QED
      BY <1>1, <1>2, <1>6, <2>2, <3>1, <3>3 DEF HalfWay, HasRule
  <2>3. CASE /\ BlockMember(x) \in fw.lists
             /\ t = <<<<"append_unless_found", DropRule>>>>
             /\ op[o].found # 0 => HasRule(DropRule)
    <3>1. Tail(t) = <<>> /\ c = <<"append_unless_found", DropRule>>
      BY <1>1, <2>3, OneIsSeq
    <3>2. ASSUME op[o].found = 0 PROVE Entry(DropRule) \in Range(fw'.chain)
      <4>1. fw'.chain = Append1(fw.chain, DropRule)
        BY <1>1, <3>1, <3>2 DEF Changed, IsFw
      <4> QED
        BY <4>1, AppendKeeps
    <3>3. Entry(DropRule) \in Range(fw'.chain)
      BY <1>2, <2>3, <3>2
    <3> QED
      BY <1>1, <1>2, <1>6, <2>3, <3>1, <3>3 DEF Stands, HasRule
  <2> QED
    BY <1>1, <1>3, <1>6, <2>1, <2>2, <2>3 DEF Underway, AtStart, HalfWay
<1> QED
  BY <1>1, <1>4, <1>5, <1>6 DEF Kind


\* The programs of all calls but those that remove rules by their place.
LEMMA NoneSpares == ASSUME NEW n, NEW y PROVE AllSpare(<<>>, n, y)
<1> DEFINE t == <<>>
<1>1. IsSeq(t) /\ DOMAIN t = {}
  BY EmptyIsSeq
<1> HIDE DEF t
<1>2. AllSpare(t, n, y)
  BY <1>1 DEF AllSpare, Range
<1> QED
  BY <1>2 DEF t

\* Programs of one, two and three such commands.
LEMMA OneSpares ==
  ASSUME NEW n, NEW y, NEW a, Spares(a, n, y)
  PROVE  AllSpare(<<a>>, n, y)
<1> DEFINE t == <<a>>
<1>1. IsSeq(t) /\ DOMAIN t = {1} /\ t[1] = a
  BY OneIsSeq
<1> HIDE DEF t
<1>2. AllSpare(t, n, y)
  BY <1>1 DEF AllSpare, Range
<1> QED
  BY <1>2 DEF t

LEMMA TwoSpare ==
  ASSUME NEW n, NEW y, NEW a, NEW b, Spares(a, n, y), Spares(b, n, y)
  PROVE  AllSpare(<<a, b>>, n, y)
<1> DEFINE t == <<a, b>>
<1>1. IsSeq(t) /\ DOMAIN t = {1, 2} /\ t[1] = a /\ t[2] = b
  BY TwoAreSeq
<1> HIDE DEF t
<1>2. AllSpare(t, n, y)
  BY <1>1 DEF AllSpare, Range
<1> QED
  BY <1>2 DEF t

LEMMA ThreeSpare ==
  ASSUME NEW n, NEW y, NEW a, NEW b, NEW c, Spares(a, n, y), Spares(b, n, y), Spares(c, n, y)
  PROVE  AllSpare(<<a, b, c>>, n, y)
<1> DEFINE t == <<a, b, c>>
<1>1. IsSeq(t) /\ DOMAIN t = {1, 2, 3} /\ t[1] = a /\ t[2] = b /\ t[3] = c
  BY ThreeAreSeq
<1> HIDE DEF t
<1>2. AllSpare(t, n, y)
  BY <1>1 DEF AllSpare, Range
<1> QED
  BY <1>2 DEF t

\* The same with the status forgotten first, and for the kind of firewall.
LEMMA ForgetSpares ==
  ASSUME NEW n, NEW y, NEW t, AllSpare(t, n, y)
  PROVE  AllSpare(Forget \o t, n, y)
<1>1. Spares(<<"forget">>, n, y)
  BY DEF Spares
<1> QED
  BY <1>1, RangeOfForget DEF AllSpare

LEMMA KindSpares ==
  ASSUME kind \in Kind, NEW n, NEW y, NEW u, NEW f, NEW e,
         AllSpare(u, n, y), AllSpare(f, n, y), AllSpare(e, n, y)
  PROVE  AllSpare(OnKind(u, f, e), n, y)
  BY DEF OnKind, Kind

\* The methods that take no rule away by its place.
LEMMA ProgramsSpare ==
  ASSUME kind \in Kind, NEW n, NEW y
  PROVE  /\ AllSpare(<<>>, n, y) /\ AllSpare(Enable, n, y) /\ AllSpare(GetStatus, n, y) /\ AllSpare(GeoBlock, n, y)
         /\ \A a, p : AllSpare(AddRule(a, p), n, y)
         /\ \A p : /\ AllSpare(AddRedirect(p), n, y) /\ AllSpare(AddService(p), n, y)
                   /\ AllSpare(RemoveService(p), n, y) /\ AllSpare(AddPortForward(p), n, y)
                   /\ AllSpare(RemovePortForward(p), n, y)
         /\ \A x : AllSpare(AddRow(x), n, y)
         /\ \A i : AllSpare(RemoveRow(i), n, y)
         /\ \A ip : /\ AllSpare(BlockIp(ip), n, y) /\ AllSpare(AddRichRule(ip), n, y)
                    /\ AllSpare(BanIp(ip), n, y) /\ AllSpare(UnbanIp(ip), n, y)
         /\ AllSpare(UnblockIp(y), "unblock", y)
<1> USE NoneSpares, OneSpares, TwoSpare, ThreeSpare, ForgetSpares, KindSpares DEF Spares
<1>1. AllSpare(Enable, n, y)
  BY DEF Enable
<1>2. AllSpare(GetStatus, n, y)
  BY DEF GetStatus
<1>3. AllSpare(GeoBlock, n, y)
  BY DEF GeoBlock
<1>4. ASSUME NEW a, NEW p PROVE AllSpare(AddRule(a, p), n, y)
  BY DEF AddRule, Permanently
<1>5. ASSUME NEW p PROVE AllSpare(AddRedirect(p), n, y)
  BY DEF AddRedirect
<1>6. ASSUME NEW p PROVE AllSpare(AddService(p), n, y)
  BY DEF AddService, Permanently
<1>7. ASSUME NEW p PROVE AllSpare(RemoveService(p), n, y)
  BY DEF RemoveService, Permanently
<1>8. ASSUME NEW p PROVE AllSpare(AddPortForward(p), n, y)
  BY DEF AddPortForward
<1>9. ASSUME NEW p PROVE AllSpare(RemovePortForward(p), n, y)
  BY DEF RemovePortForward, Permanently
<1>10. ASSUME NEW x PROVE AllSpare(AddRow(x), n, y)
  BY DEF AddRow
<1>11. ASSUME NEW i PROVE AllSpare(RemoveRow(i), n, y)
  BY DEF RemoveRow
<1>12. ASSUME NEW ip PROVE AllSpare(BlockIp(ip), n, y)
  BY DEF BlockIp, Permanently
<1>13. ASSUME NEW ip PROVE AllSpare(AddRichRule(ip), n, y)
  BY DEF AddRichRule, Permanently
<1>14. ASSUME NEW ip PROVE AllSpare(BanIp(ip), n, y) /\ AllSpare(UnbanIp(ip), n, y)
  BY DEF BanIp, UnbanIp
<1>15. AllSpare(UnblockIp(y), "unblock", y)
  BY DEF UnblockIp, Permanently, BlockRule, BlockMember
<1> QED
  BY <1>1, <1>2, <1>3, <1>4, <1>5, <1>6, <1>7, <1>8, <1>9, <1>10, <1>11, <1>12, <1>13, <1>14, <1>15

\* The calls of these methods.
LEMMA CallsSpare ==
  ASSUME kind \in Kind, NEW c \in Call, c[1] \notin Removing, NEW y, c[1] = "unblock" => y = c[3]
  PROVE  AllSpare(c[2], c[1], y)
<1>1. \A n, t : Is(c, n, t) => n = c[1] /\ t = c[2]
  BY DEF Is
<1>2. CASE \E ip \in Ip : Is(c, "unblock", UnblockIp(ip)) /\ c[3] = ip
  BY <1>1, <1>2, ProgramsSpare
<1>3. ~ Is(c, "disable", Disable) /\ ~ Is(c, "remove_geo", GeoUnblock)
      /\ (\A t : ~ Is(c, "delete_rule", t)) /\ (\A t : ~ Is(c, "toggle_rule", t))
      /\ (\A t : ~ Is(c, "remove_rich", t))
  BY DEF Removing, Is
<1>4. CASE ~ \E ip \in Ip : Is(c, "unblock", UnblockIp(ip)) /\ c[3] = ip
  BY <1>1, <1>3, <1>4, CallForms, ProgramsSpare
<1> QED
  BY <1>2, <1>4


\* What may be assumed while nothing failed and no rule was removed by its place.
Guarded ==
    /\ fw.active = TRUE /\ ChainIsOn
    /\ \A o \in Operator : AllSpare(op[o].todo, op[o].name, op[o].ip)
    /\ \A ip \in promised : Stands(ip) /\ NobodyUnblocks(ip)
    /\ \A o \in Operator : op[o].name = "block" /\ ~ op[o].crossed =>
         Underway(op[o]) /\ NobodyUnblocks(op[o].ip)

\* Who calls nothing is in nobody's way.
LEMMA IdleIsGuarded ==
  ASSUME NEW n, NEW y
  PROVE  AllSpare(Idle.todo, n, y) /\ Idle.name \notin {"block", "unblock"}
<1>1. AllSpare(<<>>, n, y)
  BY NoneSpares
<1>2. Idle.todo = <<>> /\ Idle.name = None
  BY DEF Idle
<1>3. None \notin {"block", "unblock"}
  BY NoneAssumption DEF Name
<1> QED
  BY <1>1, <1>2, <1>3

\* What is left of a program.
LEMMA TailSpares ==
  ASSUME NEW t, NEW n, NEW y, t # <<>>, AllSpare(t, n, y)
  PROVE  AllSpare(Tail(t), n, y) /\ Spares(t[1], n, y)
  BY TailIsSeq, RangeOfTail DEF AllSpare

\* A call begins.
LEMMA BeginGuarded ==
  ASSUME Whole, Guarded, NEW o \in Operator, NEW c \in Call, Begin(o, c), "removing" \notin history'
  PROVE  Guarded'
<1>1. /\ kind' = kind /\ fw' = fw /\ kind \in Kind /\ c[1] \notin Removing
      /\ promised' = IF c[1] = "unblock" THEN promised \ {c[3]} ELSE promised
      /\ ~ Busy(o)
  BY BeginStep DEF Whole
<1>2. ASSUME NEW q \in Operator \ {o}
      PROVE  /\ op'[q].name = op[q].name /\ op'[q].ip = op[q].ip /\ op'[q].todo = op[q].todo
             /\ op'[q].found = op[q].found
             /\ op'[q].crossed = IF c[1] = "unblock" /\ Concerns(q, "block", c[3]) THEN TRUE ELSE op[q].crossed
  <2>1. /\ Same(op'[q], op[q])
        /\ op'[q].crossed = IF c[1] = "unblock" /\ Concerns(q, "block", c[3]) THEN TRUE ELSE op[q].crossed
    BY BeginStep
  <2> QED
    BY <2>1 DEF Same
<1>3. \/ op'[o] = Idle
      \/ op'[o].name = c[1] /\ op'[o].todo = c[2]
         /\ (c[1] \in {"block", "unblock"} => op'[o].ip = c[3])
         /\ (c[1] = "block" /\ ~ op'[o].crossed => NobodyUnblocks(c[3]))
  BY BeginStep DEF NobodyUnblocks
<1>4. op'[o].name = "unblock" => c[1] = "unblock" /\ op'[o].ip = c[3]
  BY <1>3, IdleIsGuarded
<1>5. fw'.active = TRUE /\ ChainIsOn'
  BY <1>1 DEF Guarded, ChainIsOn
<1>6. ASSUME NEW q \in Operator PROVE AllSpare(op[q].todo, op[q].name, op[q].ip)'
  <2>1. CASE q # o
    <3>1. AllSpare(op[q].todo, op[q].name, op[q].ip)
      BY DEF Guarded
    <3> QED
      BY <1>2, <2>1, <3>1 DEF AllSpare, Spares
  <2>2. CASE q = o /\ op'[o] = Idle
    <3>1. \A n, y : AllSpare(Idle.todo, n, y)
      BY IdleIsGuarded
    <3> QED
      BY <2>2, <3>1 DEF AllSpare, Spares
  <2>3. CASE q = o /\ op'[o] # Idle
    <3>1. op'[o].name = c[1] /\ op'[o].todo = c[2] /\ (c[1] = "unblock" => op'[o].ip = c[3])
      BY <1>3, <2>3
    <3>2. AllSpare(c[2], c[1], op'[o].ip)
      BY <1>1, <3>1, CallsSpare
    <3> QED
      BY <2>3, <3>1, <3>2 DEF AllSpare, Spares
  <2> QED
    BY <2>1, <2>2, <2>3
\* Nobody unblocks an address afterwards, unless this call does.
<1>7. ASSUME NEW ip, NobodyUnblocks(ip), ~ (c[1] = "unblock" /\ c[3] = ip)
      PROVE  NobodyUnblocks(ip)'
  <2>1. ASSUME NEW q \in Operator PROVE ~ Concerns(q, "unblock", ip)'
    <3>1. CASE q # o
      BY <1>2, <1>7, <3>1 DEF NobodyUnblocks, Concerns
    <3>2. CASE q = o
      BY <1>4, <1>7, <3>2 DEF Concerns
    <3> QED
      BY <3>1, <3>2
  <2> QED
    BY <2>1 DEF NobodyUnblocks
<1>8. ASSUME NEW ip \in promised' PROVE Stands(ip)' /\ NobodyUnblocks(ip)'
  <2>1. ip \in promised /\ ~ (c[1] = "unblock" /\ c[3] = ip)
    BY <1>1, <1>8
  <2>2. Stands(ip) /\ NobodyUnblocks(ip)
    BY <2>1 DEF Guarded
  <2>3. Stands(ip)'
    BY <1>1, <2>2 DEF Stands, HasRule
  <2> QED
    BY <1>7, <2>1, <2>2, <2>3
<1>9. ASSUME NEW q \in Operator, op'[q].name = "block", ~ op'[q].crossed
      PROVE  Underway(op[q])' /\ NobodyUnblocks(op[q].ip)'
  <2>1. CASE q # o
    <3>1. /\ op[q].name = "block" /\ ~ op[q].crossed
          /\ ~ (c[1] = "unblock" /\ op[q].ip = c[3]) /\ op'[q].ip = op[q].ip
      BY <1>2, <1>9, <2>1 DEF Concerns
    <3>2. Underway(op[q]) /\ NobodyUnblocks(op[q].ip)
      BY <3>1 DEF Guarded
    <3>3. NobodyUnblocks(op[q].ip)'
      BY <1>7, <3>1, <3>2
    <3>4. BlockIp(op[q].ip)' = BlockIp(op[q].ip)
      BY <1>1, <3>1 DEF BlockIp, OnKind
    <3>5. Underway(op[q])'
      BY <1>1, <1>2, <2>1, <3>2, <3>4 DEF Underway, AtStart, HalfWay, Stands, HasRule
    <3> QED
      BY <3>3, <3>5
  <2>2. CASE q = o
    <3>1. /\ c[1] = "block" /\ op'[o].todo = c[2] /\ op'[o].ip = c[3] /\ NobodyUnblocks(c[3])
      BY <1>3, <1>9, <2>2, IdleIsGuarded
    <3>2. c[2] = BlockIp(c[3])
      BY <3>1, CallForms DEF Is
    <3>3. BlockIp(op[o].ip)' = BlockIp(c[3])
      BY <1>1, <3>1 DEF BlockIp, OnKind
    <3>4. Underway(op[o])'
      BY <3>1, <3>2, <3>3 DEF Underway, AtStart
    <3>5. NobodyUnblocks(c[3])'
      BY <1>7, <3>1
    <3> QED
      BY <2>2, <3>1, <3>4, <3>5 DEF NobodyUnblocks
  <2> QED
    BY <2>1, <2>2
<1> QED
  BY <1>5, <1>6, <1>8, <1>9 DEF Guarded


\* A call goes on or ends.
LEMMA GuardedAgain ==
  ASSUME Guarded, NEW o \in Operator, Others(o), fw'.active = TRUE, ChainIsOn',
         \/ op'[o] = Idle
         \/ /\ op'[o].name = op[o].name /\ op'[o].ip = op[o].ip /\ op'[o].crossed = op[o].crossed
            /\ AllSpare(op'[o].todo, op[o].name, op[o].ip)
            /\ op[o].name = "block" /\ ~ op[o].crossed => Underway(op[o])',
         \A ip \in promised' : Stands(ip)' /\ NobodyUnblocks(ip),
         \A q \in Operator \ {o} : op[q].name = "block" /\ ~ op[q].crossed => Underway(op[q])'
  PROVE  Guarded'
<1>1. \A q \in Operator \ {o} : op'[q] = op[q]
  BY DEF Others
<1>2. \A n, y : AllSpare(Idle.todo, n, y) /\ Idle.name \notin {"block", "unblock"}
  BY IdleIsGuarded
<1>3. ASSUME NEW q \in Operator PROVE AllSpare(op[q].todo, op[q].name, op[q].ip)'
  <2>1. CASE q # o
    BY <1>1, <2>1 DEF Guarded, AllSpare, Spares
  <2>2. CASE q = o /\ op'[o] = Idle
    BY <1>2, <2>2 DEF AllSpare, Spares
  <2>3. CASE q = o /\ op'[o] # Idle
    BY <2>3 DEF AllSpare, Spares
  <2> QED
    BY <2>1, <2>2, <2>3
<1>4. ASSUME NEW ip, NobodyUnblocks(ip) PROVE NobodyUnblocks(ip)'
  <2>1. ASSUME NEW q \in Operator PROVE ~ Concerns(q, "unblock", ip)'
    <3>1. CASE q # o
      BY <1>1, <1>4, <3>1 DEF NobodyUnblocks, Concerns
    <3>2. CASE q = o
      BY <1>2, <1>4, <3>2 DEF NobodyUnblocks, Concerns
    <3> QED
      BY <3>1, <3>2
  <2> QED
    BY <2>1 DEF NobodyUnblocks
<1>5. \A ip \in promised' : Stands(ip)' /\ NobodyUnblocks(ip)'
  BY <1>4
<1>6. ASSUME NEW q \in Operator, op'[q].name = "block", ~ op'[q].crossed
      PROVE  Underway(op[q])' /\ NobodyUnblocks(op[q].ip)'
  <2>1. op[q].name = "block" /\ ~ op[q].crossed /\ op'[q].ip = op[q].ip /\ Underway(op[q])'
    BY <1>1, <1>2, <1>6
  <2>2. NobodyUnblocks(op[q].ip)
    BY <2>1 DEF Guarded
  <2>3. \A ip : ip = op[q].ip => NobodyUnblocks(ip)'
    BY <1>4, <2>2
  <2> QED
    BY <2>1, <2>3 DEF NobodyUnblocks
<1> QED
  BY <1>3, <1>5, <1>6 DEF Guarded

\* A command of one operator spares what the others have done.
LEMMA SucceedGuarded ==
  ASSUME Whole, Guarded, NEW o \in Operator, Succeed(o)
  PROVE  Guarded'
<1> DEFINE c == Command(o)
<1>1. /\ kind' = kind /\ promised' = promised /\ fw' = Changed(c, op[o].found) /\ op[o].todo # <<>>
      /\ c = op[o].todo[1] /\ Others(o)
      /\ op'[o].name = op[o].name /\ op'[o].ip = op[o].ip /\ op'[o].crossed = op[o].crossed
      /\ op'[o].todo = Tail(op[o].todo)
  BY SucceedStep, NextCommand DEF GoesOn
<1>2. AllSpare(op[o].todo, op[o].name, op[o].ip) /\ ChainIsOn /\ fw.active = TRUE
  BY DEF Guarded
<1>3. AllSpare(op'[o].todo, op[o].name, op[o].ip) /\ Spares(c, op[o].name, op[o].ip)
  BY <1>1, <1>2, TailSpares
<1>4. fw'.active = TRUE /\ ChainIsOn'
  BY <1>1, <1>2, <1>3, SpareChange DEF ChainIsOn
<1>5. op[o].name = "block" /\ ~ op[o].crossed => Underway(op[o])'
  BY <1>2, <1>3, UnderwaySucceeds DEF Guarded
<1>6. ASSUME NEW ip \in promised PROVE Stands(ip)' /\ NobodyUnblocks(ip)
  <2>1. Stands(ip) /\ NobodyUnblocks(ip)
    BY DEF Guarded
  <2>2. ~ (op[o].name = "unblock" /\ op[o].ip = ip)
    BY <2>1 DEF NobodyUnblocks, Concerns
  <2>3. /\ HasRule(BlockRule(ip)) => HasRule(BlockRule(ip))'
        /\ HasRule(DropRule) => HasRule(DropRule)'
        /\ BlockRule(ip) \in fw.permanent => BlockRule(ip) \in fw'.permanent
        /\ BlockRule(ip) \in fw.permanent /\ BlockRule(ip) \in fw.runtime => BlockRule(ip) \in fw'.runtime
        /\ BlockMember(ip) \in fw.lists => BlockMember(ip) \in fw'.lists
    BY <1>1, <1>2, <1>3, <2>2, StandsStays
  <2> QED
    BY <1>1, <2>1, <2>3 DEF Stands
<1>7. ASSUME NEW q \in Operator \ {o}, op[q].name = "block", ~ op[q].crossed
      PROVE  Underway(op[q])'
  <2>1. Underway(op[q]) /\ NobodyUnblocks(op[q].ip)
    BY <1>7 DEF Guarded
  <2>2. ~ (op[o].name = "unblock" /\ op[o].ip = op[q].ip)
    BY <2>1 DEF NobodyUnblocks, Concerns
  <2>3. op'[q] = op[q]
    BY <1>1 DEF Others
  <2> QED
    BY <1>1, <1>2, <1>3, <2>1, <2>2, <2>3, UnderwayStays
<1> QED
  BY <1>1, <1>3, <1>4, <1>5, <1>6, <1>7, GuardedAgain

\* The other calls when the firewall is left as it is.
LEMMA UnderwayUnchanged ==
  ASSUME NEW q \in Operator, Underway(op[q]), kind' = kind, fw' = fw,
         op'[q].todo = op[q].todo, op'[q].ip = op[q].ip, op'[q].found = op[q].found
  PROVE  Underway(op[q])'
<1>1. BlockIp(op[q].ip)' = BlockIp(op[q].ip)
  BY DEF BlockIp, OnKind
<1> QED
  BY <1>1 DEF Underway, AtStart, HalfWay, Stands, HasRule

\* Without a change of the firewall what stands goes on standing.
LEMMA StandsUnchanged ==
  ASSUME kind' = kind, fw' = fw, NEW ip, Stands(ip)
  PROVE  Stands(ip)'
  BY DEF Stands, HasRule

\* block_ip neither reads nor stores a status.
LEMMA BlockHeads ==
  ASSUME Whole, NEW o \in Operator, Underway(op[o]), op[o].todo # <<>>
  PROVE  op[o].todo[1][1] \notin {"read", "store"}
<1>1. CASE op[o].todo = BlockIp(op[o].ip)
  <2>1. op[o].todo[1] = <<"forget">>
    BY <1>1, BlockProgram DEF Whole
  <2> QED
    BY <2>1
<1>2. CASE op[o].todo # BlockIp(op[o].ip)
  <2>1. \/ \E r : op[o].todo = <<<<"append", r>>>>
        \/ \E r : op[o].todo = <<<<"permanent", r>>, <<"reload">>>>
        \/ op[o].todo = <<<<"reload">>>>
        \/ \E r : op[o].todo = <<<<"list", r>>, <<"look", DropRule>>, <<"append_unless_found", DropRule>>>>
        \/ op[o].todo = <<<<"look", DropRule>>, <<"append_unless_found", DropRule>>>>
        \/ op[o].todo = <<<<"append_unless_found", DropRule>>>>
    BY <1>2 DEF Underway, AtStart, HalfWay
  <2> QED
    BY <2>1
<1> QED
  BY <1>1, <1>2

\* Commands that leave the firewall.
LEMMA QuietGuarded ==
  ASSUME Whole, Guarded, NEW o \in Operator, Invalidate(o) \/ Store(o) \/ ReadCached(o)
  PROVE  Guarded'
<1>1. /\ kind' = kind /\ promised' = promised /\ fw' = fw /\ op[o].todo # <<>> /\ Others(o)
      /\ op'[o].name = op[o].name /\ op'[o].ip = op[o].ip /\ op'[o].crossed = op[o].crossed
  BY InvalidateStep, StoreStep, ReadCachedStep DEF GoesOn
<1>2. /\ Invalidate(o) \/ Store(o) => op'[o].todo = Tail(op[o].todo)
      /\ ReadCached(o) => op'[o].todo = Tail(Tail(op[o].todo)) /\ Tail(op[o].todo) # <<>>
      /\ Store(o) => op[o].todo[1][1] = "store"
      /\ ReadCached(o) => op[o].todo[1][1] = "read"
  BY InvalidateStep, StoreStep, ReadCachedStep DEF GoesOn
<1>3. AllSpare(op'[o].todo, op[o].name, op[o].ip)
  <2>1. AllSpare(Tail(op[o].todo), op[o].name, op[o].ip)
    BY <1>1, TailSpares DEF Guarded
  <2> QED
    BY <1>2, <2>1, TailSpares
<1>4. ASSUME op[o].name = "block", ~ op[o].crossed PROVE Underway(op[o])'
  <2>1. Underway(op[o])
    BY <1>4 DEF Guarded
  <2>2. op[o].todo[1][1] \notin {"read", "store"}
    BY <1>1, <2>1, BlockHeads
  <2> QED
    BY <1>2, <2>1, <2>2, UnderwayInvalidates
<1>5. ASSUME NEW q \in Operator \ {o}, op[q].name = "block", ~ op[q].crossed
      PROVE  Underway(op[q])'
  <2>1. Underway(op[q]) /\ op'[q] = op[q]
    BY <1>1, <1>5 DEF Guarded, Others
  <2> QED
    BY <1>1, <2>1, UnderwayUnchanged
<1>6. \A ip \in promised : Stands(ip)' /\ NobodyUnblocks(ip)
  BY <1>1, StandsUnchanged DEF Guarded
<1>7. fw'.active = TRUE /\ ChainIsOn'
  BY <1>1 DEF Guarded, ChainIsOn
<1> QED
  BY <1>1, <1>3, <1>4, <1>5, <1>6, <1>7, GuardedAgain

\* block_ip is answered when it has made its last command.
LEMMA AnswerGuarded ==
  ASSUME Whole, Guarded, NEW o \in Operator, Answer(o)
  PROVE  Guarded'
<1>1. /\ kind' = kind /\ fw' = fw /\ op[o].todo = <<>> /\ Others(o) /\ op'[o] = Idle /\ kind \in Kind
      /\ promised' = IF op[o].name = "block" /\ ~op[o].crossed THEN promised \cup {op[o].ip} ELSE promised
  BY AnswerStep DEF Whole
<1>2. ASSUME op[o].name = "block", ~ op[o].crossed
      PROVE  Stands(op[o].ip) /\ NobodyUnblocks(op[o].ip)
  <2>1. Underway(op[o]) /\ NobodyUnblocks(op[o].ip)
    BY <1>2 DEF Guarded
  <2>2. BlockIp(op[o].ip) # <<>>
    BY <1>1, BlockProgram
  <2> QED
    BY <1>1, <2>1, <2>2 DEF Underway, AtStart, HalfWay
<1>3. \A ip \in promised' : Stands(ip) /\ NobodyUnblocks(ip)
  BY <1>1, <1>2 DEF Guarded
<1>4. \A ip \in promised' : Stands(ip)' /\ NobodyUnblocks(ip)
  BY <1>1, <1>3, StandsUnchanged
<1>5. ASSUME NEW q \in Operator \ {o}, op[q].name = "block", ~ op[q].crossed
      PROVE  Underway(op[q])'
  <2>1. Underway(op[q]) /\ op'[q] = op[q]
    BY <1>1, <1>5 DEF Guarded, Others
  <2> QED
    BY <1>1, <2>1, UnderwayUnchanged
<1>6. fw'.active = TRUE /\ ChainIsOn'
  BY <1>1 DEF Guarded, ChainIsOn
<1> QED
  BY <1>1, <1>4, <1>5, <1>6, GuardedAgain

\* All steps.
LEMMA GuardedStep ==
  ASSUME Whole, Guarded, [Next]_vars, failures' = 0, "removing" \notin history'
  PROVE  Guarded'
<1>1. ASSUME NEW o \in Operator, NEW c \in Call, Begin(o, c) PROVE Guarded'
  BY <1>1, BeginGuarded
<1>2. ASSUME NEW o \in Operator, Succeed(o) PROVE Guarded'
  BY <1>2, SucceedGuarded
\* Without failures firewalld runs, so that every command is possible.
<1>3. ASSUME NEW o \in Operator, Fail(o) PROVE FALSE
  <2>1. ~ Possible(Command(o))
    BY <1>3, FailStep
  <2> QED
    BY <2>1 DEF Possible, Guarded
<1>4. ASSUME NEW o \in Operator, Invalidate(o) \/ Store(o) \/ ReadCached(o) PROVE Guarded'
  BY <1>4, QuietGuarded
\* The status that is read decides only calls that remove rules.
<1>5. ASSUME NEW o \in Operator, Delete(o) PROVE FALSE
  <2>1. op[o].todo # <<>> /\ op[o].todo[1][1] = "delete_listed"
    BY <1>5, DeleteStep
  <2>2. Spares(op[o].todo[1], op[o].name, op[o].ip)
    BY <2>1, TailSpares DEF Guarded
  <2> QED
    BY <2>1, <2>2 DEF Spares
<1>6. ASSUME NEW o \in Operator, Answer(o) PROVE Guarded'
  BY <1>6, AnswerGuarded
<1>7. CASE UNCHANGED <<kind, fw, op, promised>>
  <2>1. fw'.active = TRUE /\ ChainIsOn'
    BY <1>7 DEF Guarded, ChainIsOn
  <2>2. \A ip : NobodyUnblocks(ip) => NobodyUnblocks(ip)'
    BY <1>7 DEF NobodyUnblocks, Concerns
  <2>3. \A ip \in promised' : Stands(ip)' /\ NobodyUnblocks(ip)'
    BY <1>7, <2>2, StandsUnchanged DEF Guarded
  <2>4. \A o \in Operator : AllSpare(op[o].todo, op[o].name, op[o].ip)'
    BY <1>7 DEF Guarded, AllSpare, Spares
  <2>5. ASSUME NEW q \in Operator, op'[q].name = "block", ~ op'[q].crossed
        PROVE  Underway(op[q])' /\ NobodyUnblocks(op[q].ip)'
    <3>1. Underway(op[q]) /\ NobodyUnblocks(op[q].ip)
      BY <1>7, <2>5 DEF Guarded
    <3>2. Underway(op[q])'
      BY <1>7, <3>1, UnderwayUnchanged
    <3> QED
      BY <1>7, <3>1, <3>2 DEF NobodyUnblocks, Concerns
  <2> QED
    BY <2>1, <2>3, <2>4, <2>5 DEF Guarded
<1> QED
  BY <1>1, <1>2, <1>3, <1>4, <1>5, <1>6, <1>7 DEF Next, Expire, vars

BlockInv == Undisturbed => Guarded

\* The beginning.
LEMMA InitGuarded ==
  ASSUME Init
  PROVE  Guarded
<1>1. \A o \in Operator : op[o] = Idle
  BY DEF Init
<1>2. fw.active = TRUE /\ fw.chain = <<>> /\ promised = {}
  BY DEF Init
<1>3. ChainIsOn
  BY <1>2, EmptyIsSeq DEF ChainIsOn, Chained, Range
<1> QED
  BY <1>1, <1>2, <1>3, IdleIsGuarded DEF Guarded

\* What has happened has happened.
LEMMA UndisturbedSoFar ==
  ASSUME Whole, [Next]_vars, Undisturbed'
  PROVE  Undisturbed
<1>1. failures \in Nat
  BY DEF Whole
<1>2. ASSUME NEW o \in Operator, NEW c \in Call, Begin(o, c) PROVE Undisturbed
  BY <1>2, BeginStep DEF Undisturbed
<1>3. ASSUME NEW o \in Operator, Fail(o) PROVE Undisturbed
  BY <1>3, FailStep DEF Undisturbed
<1>4. ASSUME UNCHANGED <<history, failures>> PROVE Undisturbed
  BY <1>4 DEF Undisturbed
<1>5. ASSUME NEW o \in Operator,
             Succeed(o) \/ Invalidate(o) \/ Store(o) \/ ReadCached(o) \/ Delete(o) \/ Answer(o)
      PROVE  UNCHANGED <<history, failures>>
  BY <1>5 DEF Succeed, Invalidate, Store, ReadCached, Delete, Answer
<1> QED
  BY <1>2, <1>3, <1>4, <1>5 DEF Next, Expire, vars

\* Nothing that is under way takes away what keeps a blocked address out.
THEOREM GuardedAlways == Spec => []BlockInv
<1>1. Init => BlockInv
  BY InitGuarded DEF BlockInv
<1>2. ASSUME Whole, BlockInv, [Next]_vars PROVE BlockInv'
  <2> SUFFICES ASSUME Undisturbed' PROVE Guarded'
    BY DEF BlockInv
  <2>1. Undisturbed /\ Guarded
    BY <1>2, UndisturbedSoFar DEF BlockInv
  <2>2. failures' = 0 /\ "removing" \notin history'
    BY DEF Undisturbed
  <2> QED
    BY <1>2, <2>1, <2>2, GuardedStep
<1> QED
  BY <1>1, <1>2, WholeAlways, PTL DEF Spec

\* An address whose blocking was answered has its rule in force until somebody unblocks
\* it, whatever calls of other operators come between the commands.
THEOREM BlockedIsBlocked == Spec => []BlockedHasItsRule
<1>1. Whole /\ BlockInv => BlockedHasItsRule
  <2> SUFFICES ASSUME Whole, BlockInv, failures = 0, "removing" \notin history, NEW ip \in promised
               PROVE  Blocks(ip)
    BY DEF BlockedHasItsRule
  <2>1. Stands(ip) /\ kind \in Kind
    BY DEF BlockInv, Undisturbed, Guarded, Whole
  <2> QED
    BY <2>1, PlacesOfRule DEF Stands, Blocks, OnKind, Kind, BlockRule, BlockMember, DropRule
<1> QED
  BY <1>1, GuardedAlways, WholeAlways, PTL


-----------------------------------------------------------------------------
\* The cached status.

Fresh == cache # None => cache = Status

\* Programs of commands that write: none looks at the cached status or stores one; and
\* programs that write only what no status shows.
Writes(t) == IsSeq(t) /\ \A c \in Range(t) : c[1] \notin {"read", "forget", "store", "delete_listed"}
WritesRows(t) == IsSeq(t) /\ \A c \in Range(t) : c[1] \in {"row", "row_at"}
ForgetsFirst(t) == t # <<>> /\ t[1] = <<"forget">> /\ Writes(Tail(t))

\* A call for the status; what it read is still so.
Looking(r) ==
    \/ r.todo = GetStatus
    \/ r.todo = <<<<"store">>>> /\ r.read = Status
    \/ r.todo = <<>>

Careful(r) ==
    \/ Fresh /\ (Looking(r) \/ WritesRows(r.todo))
    \/ ForgetsFirst(r.todo)
    \/ Writes(r.todo) /\ cache = None

OneByOne == failures = 0 /\ history \cap {"overlap", "unforgotten"} = {}

\* At most one call is under way, and the cached status is the server's or will be
\* forgotten before it is used.
Tended ==
    /\ \A o, q \in Operator : Busy(o) /\ Busy(q) => o = q
    /\ (\A o \in Operator : ~ Busy(o)) => Fresh
    /\ \A o \in Operator : Busy(o) => Careful(op[o])

CacheInv == OneByOne => Tended

\* The programs.

\* Programs of no, one, two and three commands that write.
LEMMA NoneWrites == Writes(<<>>) /\ WritesRows(<<>>)
<1> DEFINE t == <<>>
<1>1. IsSeq(t) /\ DOMAIN t = {}
  BY EmptyIsSeq
<1> HIDE DEF t
<1>2. Writes(t) /\ WritesRows(t)
  BY <1>1 DEF Writes, WritesRows, Range
<1> QED
  BY <1>2 DEF t

LEMMA OneWrites ==
  ASSUME NEW a, a[1] \notin {"read", "forget", "store", "delete_listed"}
  PROVE  Writes(<<a>>) /\ (a[1] \in {"row", "row_at"} => WritesRows(<<a>>))
<1> DEFINE t == <<a>>
<1>1. IsSeq(t) /\ DOMAIN t = {1} /\ t[1] = a
  BY OneIsSeq
<1> HIDE DEF t
<1>2. Writes(t) /\ (a[1] \in {"row", "row_at"} => WritesRows(t))
  BY <1>1 DEF Writes, WritesRows, Range
<1> QED
  BY <1>2 DEF t

LEMMA TwoWrite ==
  ASSUME NEW a, NEW b, a[1] \notin {"read", "forget", "store", "delete_listed"},
         b[1] \notin {"read", "forget", "store", "delete_listed"}
  PROVE  Writes(<<a, b>>)
<1> DEFINE t == <<a, b>>
<1>1. IsSeq(t) /\ DOMAIN t = {1, 2} /\ t[1] = a /\ t[2] = b
  BY TwoAreSeq
<1> HIDE DEF t
<1>2. Writes(t)
  BY <1>1 DEF Writes, Range
<1> QED
  BY <1>2 DEF t

LEMMA ThreeWrite ==
  ASSUME NEW a, NEW b, NEW c, a[1] \notin {"read", "forget", "store", "delete_listed"},
         b[1] \notin {"read", "forget", "store", "delete_listed"},
         c[1] \notin {"read", "forget", "store", "delete_listed"}
  PROVE  Writes(<<a, b, c>>)
<1> DEFINE t == <<a, b, c>>
<1>1. IsSeq(t) /\ DOMAIN t = {1, 2, 3} /\ t[1] = a /\ t[2] = b /\ t[3] = c
  BY ThreeAreSeq
<1> HIDE DEF t
<1>2. Writes(t)
  BY <1>1 DEF Writes, Range
<1> QED
  BY <1>2 DEF t

\* The commands for the kind of firewall, and the status forgotten first.
LEMMA KindWrites ==
  ASSUME kind \in Kind, NEW u, NEW f, NEW e, Writes(u), Writes(f), Writes(e)
  PROVE  Writes(OnKind(u, f, e))
  BY DEF OnKind, Kind

LEMMA ForgetWrites ==
  ASSUME NEW t, Writes(t)
  PROVE  ForgetsFirst(Forget \o t)
  BY RangeOfForget DEF Writes, ForgetsFirst

\* What is left of such a program.
LEMMA TailWrites ==
  ASSUME NEW t, t # <<>>
  PROVE  /\ Writes(t) => Writes(Tail(t)) /\ t[1][1] \notin {"read", "forget", "store", "delete_listed"}
         /\ WritesRows(t) => WritesRows(Tail(t)) /\ t[1][1] \in {"row", "row_at"}
  BY TailIsSeq, RangeOfTail DEF Writes, WritesRows

\* The methods that forget the status before they write.
LEMMA ProgramsWrite ==
  ASSUME kind \in Kind
  PROVE  /\ ForgetsFirst(Enable) /\ ForgetsFirst(Disable)
         /\ \A a, p : ForgetsFirst(AddRule(a, p))
         /\ \A p : ForgetsFirst(AddRedirect(p)) /\ ForgetsFirst(AddPortForward(p)) /\ ForgetsFirst(RemovePortForward(p))
         /\ \A ip : ForgetsFirst(BlockIp(ip)) /\ ForgetsFirst(UnblockIp(ip))
         /\ \A x : WritesRows(AddRow(x))
         /\ \A i : WritesRows(RemoveRow(i))
<1> USE NoneWrites, OneWrites, TwoWrite, ThreeWrite, KindWrites, ForgetWrites
<1>1. ForgetsFirst(Enable) /\ ForgetsFirst(Disable)
  BY DEF Enable, Disable
<1>2. ASSUME NEW a, NEW p PROVE ForgetsFirst(AddRule(a, p))
  BY DEF AddRule, Permanently
<1>3. ASSUME NEW p PROVE ForgetsFirst(AddRedirect(p))
  BY DEF AddRedirect
<1>4. ASSUME NEW p PROVE ForgetsFirst(AddPortForward(p))
  BY DEF AddPortForward
<1>5. ASSUME NEW p PROVE ForgetsFirst(RemovePortForward(p))
  BY DEF RemovePortForward, Permanently
<1>6. ASSUME NEW ip PROVE ForgetsFirst(BlockIp(ip))
  BY DEF BlockIp, Permanently
<1>7. ASSUME NEW ip PROVE ForgetsFirst(UnblockIp(ip))
  BY DEF UnblockIp, Permanently
<1>8. ASSUME NEW x PROVE WritesRows(AddRow(x))
  BY DEF AddRow, OnKind, Kind
<1>9. ASSUME NEW i PROVE WritesRows(RemoveRow(i))
  BY DEF RemoveRow, OnKind, Kind
<1> QED
  BY <1>1, <1>2, <1>3, <1>4, <1>5, <1>6, <1>7, <1>8, <1>9

\* The calls of these methods, of those for rows, and for the status.
LEMMA CallsAreCareful ==
  ASSUME kind \in Kind, NEW c \in Call, c[1] \notin Unforgotten
  PROVE  c[2] = GetStatus \/ WritesRows(c[2]) \/ ForgetsFirst(c[2])
<1>1. \A n, t : Is(c, n, t) => n = c[1] /\ t = c[2]
  BY DEF Is
<1>2. \A n, t : Is(c, n, t) => n \notin Unforgotten
  BY <1>1
<1>3. /\ \A t : ~ Is(c, "delete_rule", t)
      /\ \A t : ~ Is(c, "toggle_rule", t)
      /\ \A t : ~ Is(c, "add_service", t)
      /\ \A t : ~ Is(c, "remove_service", t)
      /\ \A t : ~ Is(c, "rich", t)
      /\ \A t : ~ Is(c, "remove_rich", t)
      /\ \A t : ~ Is(c, "ban", t)
      /\ \A t : ~ Is(c, "unban", t)
      /\ \A t : ~ Is(c, "geo", t)
      /\ \A t : ~ Is(c, "remove_geo", t)
  BY <1>2 DEF Unforgotten
<1>4. c[2] = GetStatus \/ WritesRows(c[2]) \/ ForgetsFirst(c[2])
         \/ (\E p \in Port : Is(c, "add_rule", AddRule("allow", p)) \/ Is(c, "add_rule", AddRule("deny", p)))
         \/ (\E p \in Port : Is(c, "add_rule", AddRedirect(p)))
         \/ (\E p \in Port : Is(c, "forward", AddPortForward(p)))
         \/ (\E p \in Port : Is(c, "remove_forward", RemovePortForward(p)))
         \/ (\E ip \in Ip : Is(c, "block", BlockIp(ip)))
         \/ (\E ip \in Ip : Is(c, "unblock", UnblockIp(ip)))
         \/ Is(c, "enable", Enable) \/ Is(c, "disable", Disable)
         \/ (\E x \in Row : Is(c, "add_row", AddRow(x)))
         \/ (\E k \in 1 .. 2 : Is(c, "remove_row", RemoveRow(k)))
  BY <1>1, <1>3, CallForms
<1> QED
  BY <1>1, <1>4, ProgramsWrite

-----------------------------------------------------------------------------
\* What a status shows changes only with the firewall.
LEMMA StatusSame ==
  ASSUME kind' = kind, fw'.active = fw.active, fw'.chain = fw.chain, fw'.runtime = fw.runtime,
         fw'.lists = fw.lists, fw'.nat = fw.nat
  PROVE  Status' = Status
<1>1. FirewalldRules' = FirewalldRules /\ EmareosStatus' = EmareosStatus
  BY DEF FirewalldRules, EmareosStatus
<1> QED
  BY <1>1 DEF Status

\* Only one call is under way.
LEMMA TendedAgain ==
  ASSUME Tended, NEW o \in Operator, Busy(o), Others(o),
         ~ Busy(o)' => Fresh',
         Busy(o)' => Careful(op[o])'
  PROVE  Tended'
<1>1. ASSUME NEW q \in Operator \ {o} PROVE ~ Busy(q)'
  BY DEF Tended, Others, Busy
<1>2. \A p, q \in Operator : Busy(p)' /\ Busy(q)' => p = q
  BY <1>1
<1>3. \A q \in Operator : Busy(q)' => q = o
  BY <1>1
<1>4. (\A q \in Operator : ~ Busy(q)') => Fresh'
  OBVIOUS
<1>5. ASSUME NEW q \in Operator, Busy(q)' PROVE Careful(op[q])'
  <2>1. q = o
    BY <1>3, <1>5
  <2> QED
    BY <1>5, <2>1
<1> QED
  BY <1>2, <1>4, <1>5 DEF Tended

\* An operator whose call has ended.
LEMMA IdleIsNotBusy ==
  ASSUME NEW o \in Operator, op'[o] = Idle
  PROVE  ~ Busy(o)'
  BY DEF Busy, Idle

\* A call begins while there is no other.
LEMMA BeginTended ==
  ASSUME Whole, Tended, NEW o \in Operator, NEW c \in Call, Begin(o, c),
         history' \cap {"overlap", "unforgotten"} = {}
  PROVE  Tended'
<1>1. /\ kind' = kind /\ fw' = fw /\ cache' = cache /\ kind \in Kind
      /\ c[1] \notin Unforgotten
      /\ \A q \in Operator : ~ Busy(q)
      /\ op'[o] = Idle \/ op'[o].todo = c[2]
  BY BeginStep DEF Whole
<1>2. ASSUME NEW q \in Operator \ {o} PROVE ~ Busy(q)'
  <2>1. Same(op'[q], op[q])
    BY BeginStep
  <2> QED
    BY <1>1, <2>1 DEF Same, Busy
<1>3. Fresh /\ Status' = Status
  BY <1>1, StatusSame DEF Tended
<1>4. Fresh'
  BY <1>1, <1>3 DEF Fresh
<1>5. ASSUME Busy(o)' PROVE Careful(op[o])'
  <2>1. op'[o].todo = c[2]
    BY <1>1, <1>5, IdleIsNotBusy
  <2>2. c[2] = GetStatus \/ WritesRows(c[2]) \/ ForgetsFirst(c[2])
    BY <1>1, CallsAreCareful
  <2> QED
    BY <1>4, <2>1, <2>2 DEF Careful, Looking
<1>6. ASSUME NEW q \in Operator, Busy(q)' PROVE q = o /\ Careful(op[q])'
  <2>1. q = o
    BY <1>2, <1>6
  <2> QED
    BY <1>5, <1>6, <2>1
<1> QED
  BY <1>4, <1>6 DEF Tended

\* The call for the status.
LEMMA LookingProgram ==
  /\ GetStatus # <<>> /\ GetStatus[1][1] = "read" /\ Tail(GetStatus) = <<<<"store">>>>
  /\ Tail(Tail(GetStatus)) = <<>>
<1>1. Tail(<<<<"read">>, <<"store">>>>) = <<<<"store">>>> /\ Tail(<<<<"store">>>>) = <<>>
  BY OneIsSeq, TwoAreSeq
<1> QED
  BY <1>1 DEF GetStatus

\* Commands that change nothing a status shows.
LEMMA ChangedRows ==
  ASSUME IsFw(fw), NEW c, NEW found, c[1] \in {"read", "row", "row_at"}
  PROVE  LET g == Changed(c, found)
         IN  /\ g.active = fw.active /\ g.chain = fw.chain /\ g.runtime = fw.runtime
             /\ g.lists = fw.lists /\ g.nat = fw.nat
<1>1. CASE c[1] = "read"
  BY <1>1 DEF Changed
<1>2. CASE c[1] = "row"
  BY <1>2 DEF Changed, IsFw
<1>3. CASE c[1] = "row_at"
  BY <1>3 DEF Changed, IsFw
<1> QED
  BY <1>1, <1>2, <1>3

\* A command reaches the server.
LEMMA SucceedTended ==
  ASSUME Whole, Tended, NEW o \in Operator, Succeed(o)
  PROVE  Tended'
<1> DEFINE c == Command(o)
           t == op[o].todo
<1>1. /\ kind' = kind /\ cache' = cache /\ fw' = Changed(c, op[o].found) /\ t # <<>> /\ c = t[1]
      /\ c[1] \notin Local /\ Busy(o) /\ Others(o) /\ op'[o].name = op[o].name /\ op'[o].todo = Tail(t) /\ IsFw(fw)
      /\ op'[o].read = IF c[1] = "read" THEN Status ELSE op[o].read
  BY SucceedStep, NextCommand DEF GoesOn, Whole
<1>5. c[1] = "read" => cache = None
  BY DEF Succeed, Remote
<1>2. Careful(op[o])
  BY <1>1 DEF Tended
<1>3. CASE c[1] \in {"read", "row", "row_at"}
  <2>1. Status' = Status
    <3>1. /\ fw'.active = fw.active /\ fw'.chain = fw.chain /\ fw'.runtime = fw.runtime
          /\ fw'.lists = fw.lists /\ fw'.nat = fw.nat
      BY <1>1, <1>3, ChangedRows
    <3> QED
      BY <1>1, <3>1, StatusSame
  <2>2. CASE Fresh /\ Looking(op[o])
    <3>1. t = GetStatus
      BY <1>1, <1>3, <2>2 DEF Looking, Local
    <3>2. op'[o].todo = <<<<"store">>>> /\ c[1] = "read"
      BY <1>1, <3>1, LookingProgram
    <3>3. op'[o].read = Status' /\ cache' = None
      BY <1>1, <1>5, <2>1, <3>2
    <3>4. Fresh' /\ Looking(op[o])'
      BY <3>2, <3>3 DEF Fresh, Looking
    <3> QED
      BY <1>1, <3>4, TendedAgain DEF Careful
  <2>3. CASE Fresh /\ WritesRows(t)
    <3>1. Fresh' /\ WritesRows(op'[o].todo)
      BY <1>1, <2>1, <2>3, TailWrites DEF Fresh
    <3>2. Careful(op[o])'
      BY <3>1 DEF Careful, WritesRows
    <3> QED
      BY <1>1, <3>1, <3>2, TendedAgain
  <2>4. CASE ForgetsFirst(t)
    BY <1>1, <1>3, <2>4 DEF ForgetsFirst
  <2>5. CASE Writes(t) /\ cache = None
    <3>1. Writes(op'[o].todo) /\ cache' = None
      BY <1>1, <2>5, TailWrites
    <3>2. Careful(op[o])' /\ Fresh'
      BY <3>1 DEF Careful, Writes, Fresh
    <3> QED
      BY <1>1, <3>2, TendedAgain
  <2> QED
    BY <1>2, <2>2, <2>3, <2>4, <2>5 DEF Careful
<1>4. CASE c[1] \notin {"read", "row", "row_at"}
  <2>1. ~ Looking(op[o])
    BY <1>1, <1>4, LookingProgram DEF Looking, Local
  <2>2. ~ WritesRows(t)
    BY <1>1, <1>4, TailWrites
  <2>3. ~ ForgetsFirst(t)
    BY <1>1 DEF ForgetsFirst, Local
  <2>4. Writes(t) /\ cache = None
    BY <1>2, <2>1, <2>2, <2>3 DEF Careful
  <2>5. Writes(op'[o].todo) /\ cache' = None
    BY <1>1, <2>4, TailWrites
  <2>6. Careful(op[o])' /\ Fresh'
    BY <2>5 DEF Careful, Writes, Fresh
  <2> QED
    BY <1>1, <2>6, TendedAgain
<1> QED
  BY <1>3, <1>4

\* A command that firewalld refuses changes nothing.
LEMMA FailTended ==
  ASSUME Whole, Tended, NEW o \in Operator, Fail(o), failures' = 0
  PROVE  Tended'
<1> DEFINE c == Command(o)
           t == op[o].todo
<1>1. /\ kind' = kind /\ cache' = cache /\ fw' = fw /\ t # <<>> /\ c = t[1]
      /\ c[1] \notin Local /\ Busy(o) /\ Others(o) /\ c[1] \in {"permanent", "not_permanent", "reload"}
      /\ op'[o] = Idle \/ op'[o].todo = Tail(t)
  BY FailStep, NextCommand DEF GoesOn, Fail, Remote, Possible
<1>2. Careful(op[o])
  BY <1>1 DEF Tended
<1>3. Writes(t) /\ cache = None
  <2>1. ~ Looking(op[o])
    BY <1>1, LookingProgram DEF Looking, Local
  <2>2. ~ WritesRows(t) /\ ~ ForgetsFirst(t)
    BY <1>1, TailWrites DEF ForgetsFirst
  <2> QED
    BY <1>2, <2>1, <2>2 DEF Careful
<1>4. Fresh'
  BY <1>1, <1>3 DEF Fresh
<1>5. CASE op'[o] = Idle
  BY <1>1, <1>4, <1>5, IdleIsNotBusy, TendedAgain
<1>6. CASE op'[o].todo = Tail(t)
  <2>1. Writes(op'[o].todo) /\ cache' = None
    BY <1>1, <1>3, <1>6, TailWrites
  <2>2. Careful(op[o])'
    BY <2>1 DEF Careful, Writes
  <2> QED
    BY <1>1, <1>4, <2>2, TendedAgain
<1> QED
  BY <1>1, <1>5, <1>6

\* The status is forgotten.
LEMMA InvalidateTended ==
  ASSUME Whole, Tended, NEW o \in Operator, Invalidate(o)
  PROVE  Tended'
<1> DEFINE t == op[o].todo
<1>1. /\ cache' = None /\ t # <<>> /\ t[1][1] = "forget" /\ Busy(o) /\ Others(o) /\ op'[o].todo = Tail(t)
  BY InvalidateStep DEF GoesOn, Invalidate, Runs
<1>2. Careful(op[o])
  BY <1>1 DEF Tended
<1>3. ForgetsFirst(t)
  <2>1. ~ Looking(op[o])
    BY <1>1, LookingProgram DEF Looking
  <2>2. ~ WritesRows(t) /\ ~ Writes(t)
    BY <1>1, TailWrites
  <2> QED
    BY <1>2, <2>1, <2>2 DEF Careful
<1>4. Writes(op'[o].todo)
  BY <1>1, <1>3 DEF ForgetsFirst
<1>5. Careful(op[o])' /\ Fresh'
  BY <1>1, <1>4 DEF Careful, Writes, Fresh
<1> QED
  BY <1>1, <1>5, TendedAgain

\* The status that was read is still the server's.
LEMMA StoreTended ==
  ASSUME Whole, Tended, NEW o \in Operator, Store(o)
  PROVE  Tended'
<1> DEFINE t == op[o].todo
<1>1. /\ kind' = kind /\ fw' = fw /\ cache' = op[o].read /\ t # <<>> /\ t[1][1] = "store" /\ Busy(o) /\ Others(o)
      /\ op'[o].todo = Tail(t)
  BY StoreStep DEF GoesOn, Store, Runs
<1>2. Careful(op[o])
  BY <1>1 DEF Tended
<1>3. t = <<<<"store">>>> /\ op[o].read = Status
  <2>1. ~ WritesRows(t) /\ ~ Writes(t)
    BY <1>1, TailWrites
  <2>2. ~ ForgetsFirst(t)
    BY <1>1 DEF ForgetsFirst
  <2>3. Looking(op[o])
    BY <1>2, <2>1, <2>2 DEF Careful
  <2> QED
    BY <1>1, <2>3, LookingProgram DEF Looking
<1>4. op'[o].todo = <<>> /\ cache' = Status'
  BY <1>1, <1>3, OneIsSeq, StatusSame
<1>5. Careful(op[o])' /\ Fresh'
  BY <1>4 DEF Careful, Looking, Fresh
<1> QED
  BY <1>1, <1>5, TendedAgain

\* The cached status is the server's.
LEMMA ReadCachedTended ==
  ASSUME Whole, Tended, NEW o \in Operator, ReadCached(o)
  PROVE  Tended'
<1> DEFINE t == op[o].todo
<1>1. /\ kind' = kind /\ fw' = fw /\ cache' = cache /\ t # <<>> /\ t[1][1] = "read" /\ Busy(o) /\ Others(o)
      /\ op'[o].todo = Tail(Tail(t))
  BY ReadCachedStep DEF ReadCached, Runs
<1>2. Careful(op[o])
  BY <1>1 DEF Tended
<1>3. t = GetStatus /\ Fresh
  <2>1. ~ WritesRows(t) /\ ~ Writes(t)
    BY <1>1, TailWrites
  <2>2. ~ ForgetsFirst(t)
    BY <1>1 DEF ForgetsFirst
  <2>3. Looking(op[o]) /\ Fresh
    BY <1>2, <2>1, <2>2 DEF Careful
  <2> QED
    BY <1>1, <2>3 DEF Looking
<1>4. op'[o].todo = <<>> /\ Status' = Status
  BY <1>1, <1>3, LookingProgram, StatusSame
<1>5. Fresh'
  BY <1>1, <1>3, <1>4 DEF Fresh
<1>6. Careful(op[o])'
  BY <1>4, <1>5 DEF Careful, Looking
<1> QED
  BY <1>1, <1>5, <1>6, TendedAgain

\* delete_rule is not among the calls.
LEMMA DeleteTended ==
  ASSUME Whole, Tended, NEW o \in Operator, Delete(o)
  PROVE  FALSE
<1> DEFINE t == op[o].todo
<1>0. Busy(o)
  BY DEF Delete, Runs
<1>1. t # <<>> /\ t[1][1] = "delete_listed" /\ Busy(o)
  BY <1>0, DeleteStep
<1>2. Careful(op[o])
  BY <1>1 DEF Tended
<1>3. ~ WritesRows(t) /\ ~ Writes(t)
  BY <1>1, TailWrites
<1>4. ~ ForgetsFirst(t)
  BY <1>1 DEF ForgetsFirst
<1>5. ~ Looking(op[o])
  BY <1>1, LookingProgram DEF Looking
<1> QED
  BY <1>2, <1>3, <1>4, <1>5 DEF Careful

\* A call ends.
LEMMA AnswerTended ==
  ASSUME Whole, Tended, NEW o \in Operator, Answer(o)
  PROVE  Tended'
<1>1. /\ kind' = kind /\ fw' = fw /\ cache' = cache /\ op[o].todo = <<>> /\ Busy(o) /\ Others(o) /\ op'[o] = Idle
  BY AnswerStep
<1>2. Careful(op[o])
  BY <1>1 DEF Tended
<1>3. Fresh
  BY <1>1, <1>2 DEF Careful, ForgetsFirst, Fresh
<1>4. Fresh'
  BY <1>1, <1>3, StatusSame DEF Fresh
<1> QED
  BY <1>1, <1>4, IdleIsNotBusy, TendedAgain

\* The cached status expires, or nothing happens.
LEMMA ExpireTended ==
  ASSUME Tended, kind' = kind, fw' = fw, op' = op, cache' \in {cache, None}
  PROVE  Tended'
<1>1. Status' = Status
  BY StatusSame
<1>2. Fresh => Fresh'
  BY <1>1 DEF Fresh
<1>3. ASSUME NEW o \in Operator, Careful(op[o]) PROVE Careful(op[o])'
  BY <1>1, <1>2, <1>3 DEF Careful, Looking, ForgetsFirst, Writes, WritesRows
<1> QED
  BY <1>2, <1>3 DEF Tended, Busy

\* What has happened has happened.
LEMMA OneByOneSoFar ==
  ASSUME Whole, [Next]_vars, OneByOne'
  PROVE  OneByOne
<1>1. failures \in Nat
  BY DEF Whole
<1>2. ASSUME NEW o \in Operator, NEW c \in Call, Begin(o, c) PROVE OneByOne
  <2>1. history \subseteq history' /\ failures' = failures
    BY <1>2, BeginStep
  <2> QED
    BY <2>1 DEF OneByOne
<1>3. ASSUME NEW o \in Operator, Fail(o) PROVE OneByOne
  BY <1>3, FailStep DEF OneByOne
<1>4. ASSUME UNCHANGED <<history, failures>> PROVE OneByOne
  BY <1>4 DEF OneByOne
<1>5. ASSUME NEW o \in Operator,
             Succeed(o) \/ Invalidate(o) \/ Store(o) \/ ReadCached(o) \/ Delete(o) \/ Answer(o)
      PROVE  UNCHANGED <<history, failures>>
  BY <1>5 DEF Succeed, Invalidate, Store, ReadCached, Delete, Answer
<1> QED
  BY <1>2, <1>3, <1>4, <1>5 DEF Next, Expire, vars

\* The cached status is the server's, or is forgotten before it is used.
THEOREM TendedAlways == Spec => []CacheInv
<1>1. Init => CacheInv
  <2> SUFFICES ASSUME Init PROVE Tended
    BY DEF CacheInv
  <2>1. \A o \in Operator : ~ Busy(o)
    BY DEF Init, Busy, Idle
  <2>2. Fresh
    BY DEF Init, Fresh
  <2> QED
    BY <2>1, <2>2 DEF Tended
<1>2. ASSUME Whole, CacheInv, [Next]_vars PROVE CacheInv'
  <2> SUFFICES ASSUME OneByOne' PROVE Tended'
    BY DEF CacheInv
  <2>1. Tended
    BY <1>2, OneByOneSoFar DEF CacheInv
  <2>2. failures' = 0 /\ history' \cap {"overlap", "unforgotten"} = {}
    BY DEF OneByOne
  <2>3. ASSUME NEW o \in Operator, NEW c \in Call, Begin(o, c) PROVE Tended'
    BY <1>2, <2>1, <2>2, <2>3, BeginTended
  <2>4. ASSUME NEW o \in Operator, Succeed(o) \/ Fail(o) \/ Invalidate(o) PROVE Tended'
    BY <1>2, <2>1, <2>2, <2>4, SucceedTended, FailTended, InvalidateTended
  <2>5. ASSUME NEW o \in Operator, ReadCached(o) \/ Store(o) \/ Delete(o) \/ Answer(o) PROVE Tended'
    BY <1>2, <2>1, <2>5, ReadCachedTended, StoreTended, DeleteTended, AnswerTended
  <2>6. CASE Expire
    BY <2>1, <2>6, ExpireTended DEF Expire
  <2>7. CASE UNCHANGED vars
    BY <2>1, <2>7, ExpireTended DEF vars
  <2> QED
    BY <1>2, <2>3, <2>4, <2>5, <2>6, <2>7 DEF Next
<1> QED
  BY <1>1, <1>2, WholeAlways, PTL DEF Spec

\* What was answered is in force, stays so when the firewall is started again, and is
\* what the operators are shown.
THEOREM AnswersAreInForce == Spec => []AnsweredIsInForce
<1>1. CacheInv => CacheIsCurrent
  BY DEF CacheInv, CacheIsCurrent, OneByOne, Tended, Fresh
<1> QED
  BY <1>1, RuntimeIsPermanent, BlockedIsBlocked, TendedAlways, PTL DEF AnsweredIsInForce

-----------------------------------------------------------------------------
(***************************************************************************)
(* RmmHealth.  What a heartbeat has read stays true while it waits: time   *)
(* only goes on, so what was older than a cooldown or a window remains so; *)
(* and while heartbeats do not overlap nobody else adds an event.          *)
(***************************************************************************)
Beating(w) == hop[w] # None /\ hop[w].at # "label"

HealthType ==
  /\ clock \in Nat /\ config.cooldown \in Cooldown
  /\ hop = [w \in Operator |-> hop[w]]
  /\ \A w \in Operator : Beating(w) =>
       /\ DOMAIN hop[w] = {"at", "level", "now", "since", "todo", "rule"}
       /\ hop[w].since \in Int
  /\ \A a \in alarms : a.at \in Nat /\ {"at", "acknowledged"} \subseteq DOMAIN a
  /\ \A e \in events : e.at \in Nat

Waits(w) ==
  /\ Health!At(w, "check") => hop[w].since <= clock - Health!Shortest
  /\ Health!At(w, "duplicate") \/ Health!At(w, "create") => hop[w].since <= clock - Window
  /\ Health!At(w, "create") /\ ~overlapped =>
       \A e \in events : e.rule = hop[w].rule => e.at <= hop[w].since

OneBeats == ~overlapped => \A v, w \in Operator : Beating(v) /\ Beating(w) => v = w

HealthInv ==
  HealthType /\ OneBeats /\ (\A w \in Operator : Waits(w)) /\ Health!ReportsAreSpaced

LEMMA HealthConstants ==
  /\ Window \in Nat
  /\ config.cooldown \in Cooldown =>
       Health!Shortest \in Nat /\ Health!Shortest <= config.cooldown /\ config.cooldown \in Nat
<1>1. Cooldown \subseteq Nat /\ Window \in Nat
  BY PartsAssumption DEF Health!ConstantsAssumption
<1>2. ASSUME config.cooldown \in Cooldown
      PROVE  Health!Shortest \in Cooldown /\ \A d \in Cooldown : Health!Shortest <= d
  <2>1. \E c \in Cooldown : \A d \in Cooldown : c <= d
    BY <1>1, <1>2, LeastNumber
  <2> QED
    BY <2>1 DEF Health!Shortest
<1> QED
  BY <1>1, <1>2

\* Where a heartbeat goes on.
LEMMA BeatGoes ==
  ASSUME HealthType, NEW w \in Operator, NEW r, Health!Become(w, r)
  PROVE  /\ hop' = [v \in Operator |-> hop'[v]] /\ hop'[w] = r
         /\ \A v \in Operator \ {w} : hop'[v] = hop[v]
  BY DEF HealthType, Health!Become

\* What changes nothing that is looked at here, and gives no request more to wait for.
LEMMA HealthFrame ==
  ASSUME HealthInv, UNCHANGED <<alarms, events>>, clock' \in Nat, clock <= clock',
         config'.cooldown \in Cooldown, overlapped => overlapped',
         hop' = [v \in Operator |-> hop'[v]],
         \A w \in Operator : Beating(w)' => \/ hop'[w] = hop[w]
                                            \/ /\ DOMAIN hop'[w] = {"at", "level", "now", "since", "todo", "rule"}
                                               /\ hop'[w].since \in Int /\ Waits(w)',
         OneBeats'
  PROVE  HealthInv'
<1>1. HealthType'
  BY DEF HealthInv, HealthType, Beating
<1>2. ASSUME NEW w \in Operator PROVE Waits(w)'
  <2>1. CASE ~ Beating(w)'
    BY <2>1 DEF Beating, Waits, Health!At
  <2>2. CASE hop'[w] = hop[w] /\ Beating(w)'
    <3>1. Beating(w) /\ Waits(w) /\ hop[w].since \in Int /\ clock \in Nat
      BY <2>2 DEF HealthInv, HealthType, Beating
    <3> QED
      BY <2>2, <3>1, HealthConstants DEF HealthInv, HealthType, Waits, Health!At
  <2> QED
    BY <2>1, <2>2
<1>3. Health!ReportsAreSpaced'
  BY DEF HealthInv, Health!ReportsAreSpaced, Health!AlarmsAreSpaced, Health!EventsAreSpaced, Health!Close
<1> QED
  BY <1>1, <1>2, <1>3 DEF HealthInv

LEMMA HealthInit == Health!Init => HealthInv
<1> SUFFICES ASSUME Health!Init PROVE HealthInv
  OBVIOUS
<1>1. /\ clock = 0 /\ alarms = {} /\ events = {} /\ hop = [w \in Operator |-> None]
      /\ config \in [enabled : {TRUE}, cooldown : Cooldown]
  BY DEF Health!Init
<1>2. HealthType
  BY <1>1 DEF HealthType, Beating
<1>3. Health!ReportsAreSpaced
  BY <1>1 DEF Health!ReportsAreSpaced, Health!AlarmsAreSpaced, Health!EventsAreSpaced
<1> QED
  BY <1>1, <1>2, <1>3 DEF HealthInv, OneBeats, Waits, Health!At, Beating

LEMMA HealthBegins ==
  ASSUME HealthInv, NEW w \in Operator, NEW level, Health!Heartbeat(w, level)
  PROVE  HealthInv'
<1> DEFINE r == [at |-> "record", level |-> level, now |-> clock, since |-> 0, todo |-> {}, rule |-> None]
<1>1. /\ Health!Become(w, r) /\ UNCHANGED <<clock, alarms, events, config>> /\ hop[w] = None
      /\ overlapped' = (overlapped \/ \E v \in Operator : hop[v] # None /\ hop[v].at # "label")
  BY DEF Health!Heartbeat, Health!Idle, Health!database
<1>2. DOMAIN r = {"at", "level", "now", "since", "todo", "rule"} /\ r.since \in Int /\ r.at = "record"
  OBVIOUS
<1> HIDE DEF r
<1>3. /\ hop' = [v \in Operator |-> hop'[v]] /\ hop'[w] = r
      /\ \A v \in Operator \ {w} : hop'[v] = hop[v]
  BY <1>1, BeatGoes DEF HealthInv
<1>4. Waits(w)'
  BY <1>2, <1>3 DEF Waits, Health!At
<1>5. OneBeats'
  <2> SUFFICES ASSUME ~overlapped', NEW u \in Operator, NEW v \in Operator, Beating(u)', Beating(v)'
               PROVE  u = v
    BY DEF OneBeats
  <2>1. \A x \in Operator : ~ Beating(x)
    BY <1>1 DEF Beating
  <2> QED
    BY <1>3, <2>1 DEF Beating
<1>6. \A v \in Operator : Beating(v)' => \/ hop'[v] = hop[v]
                                         \/ /\ DOMAIN hop'[v] = {"at", "level", "now", "since", "todo", "rule"}
                                            /\ hop'[v].since \in Int /\ Waits(v)'
  BY <1>2, <1>3, <1>4
<1>7. clock \in Nat /\ config.cooldown \in Cooldown
  BY DEF HealthInv, HealthType
<1>8. clock' \in Nat /\ clock <= clock' /\ config'.cooldown \in Cooldown
  BY <1>1, <1>7
<1>9. overlapped => overlapped'
  BY <1>1, Zenon
<1> QED
  BY <1>1, <1>3, <1>5, <1>6, <1>8, <1>9, HealthFrame

\* A step of a heartbeat that leaves alarms and events alone.
LEMMA BeatWaits ==
  ASSUME HealthInv, NEW w \in Operator, NEW r, Health!Become(w, r), Beating(w),
         UNCHANGED <<clock, alarms, events, config, overlapped>>,
         r = None \/ /\ DOMAIN r = {"at", "level", "now", "since", "todo", "rule"}
                     /\ r.since \in Int /\ Waits(w)'
  PROVE  HealthInv'
<1>1. /\ hop' = [v \in Operator |-> hop'[v]] /\ hop'[w] = r
      /\ \A v \in Operator \ {w} : hop'[v] = hop[v]
  BY BeatGoes DEF HealthInv
<1>2. OneBeats'
  BY <1>1 DEF HealthInv, OneBeats, Beating
<1> QED
  BY <1>1, <1>2, HealthFrame DEF HealthInv, HealthType, Beating

\* Where a heartbeat is once it has come to an end of its own or of a rule.
LEMMA BeatGoesOn ==
  ASSUME HealthType, NEW w \in Operator, Beating(w), NEW todo, Health!GoOn(w, todo)
  PROVE  \E r : /\ Health!Become(w, r)
                /\ r = None \/ /\ DOMAIN r = {"at", "level", "now", "since", "todo", "rule"}
                               /\ r.since \in Int /\ r.at = "count"
<1>1. CASE todo = {}
  BY <1>1 DEF Health!GoOn, Health!End
<1>2. CASE todo # {}
  <2> DEFINE r == [hop[w] EXCEPT !.at = "count", !.todo = todo]
  <2>1. Health!Become(w, r)
    BY <1>2 DEF Health!GoOn
  <2>2. DOMAIN r = {"at", "level", "now", "since", "todo", "rule"} /\ r.since \in Int /\ r.at = "count"
    BY DEF HealthType
  <2> QED
    BY <2>1, <2>2
<1> QED
  BY <1>1, <1>2

LEMMA BeatCounts ==
  ASSUME HealthInv, NEW w \in Operator, Beating(w), NEW todo, Health!GoOn(w, todo),
         UNCHANGED <<clock, alarms, events, config, overlapped>>
  PROVE  HealthInv'
<1>1. PICK r : /\ Health!Become(w, r)
               /\ r = None \/ /\ DOMAIN r = {"at", "level", "now", "since", "todo", "rule"}
                              /\ r.since \in Int /\ r.at = "count"
  BY BeatGoesOn DEF HealthInv
<1>2. hop'[w] = r
  BY <1>1, BeatGoes DEF HealthInv
<1>3. r # None => Waits(w)'
  BY <1>1, <1>2 DEF Waits, Health!At
<1> QED
  BY <1>1, <1>3, BeatWaits

\* What was recorded, read and looked for.
LEMMA BeatReads ==
  ASSUME HealthInv, NEW w \in Operator,
         \/ Health!Record(w) \/ Health!Configure(w) \/ Health!ListRules(w) \/ Health!LookForDuplicate(w)
         \/ \E r \in {"threshold", "frequency"} : Health!CountMatches(w, r)
  PROVE  HealthInv'
<1>1. /\ Beating(w) /\ DOMAIN hop[w] = {"at", "level", "now", "since", "todo", "rule"}
      /\ hop[w].since \in Int /\ UNCHANGED <<clock, alarms, events, config, overlapped>>
  BY DEF HealthInv, HealthType, Beating, Health!Record, Health!Configure, Health!ListRules,
     Health!LookForDuplicate, Health!CountMatches, Health!At, Health!outside, Health!database
<1>2. clock \in Nat /\ config.cooldown \in Cooldown
  BY DEF HealthInv, HealthType
<1>3. CASE Health!Record(w)
  <2> DEFINE r == [hop[w] EXCEPT !.at = "configure"]
  <2>1. Health!Become(w, r)
    BY <1>3 DEF Health!Record, Health!Goto
  <2>2. DOMAIN r = {"at", "level", "now", "since", "todo", "rule"} /\ r.since \in Int /\ r.at = "configure"
    BY <1>1
  <2> HIDE DEF r
  <2>3. Waits(w)'
    BY <2>1, <2>2, BeatGoes DEF HealthInv, Waits, Health!At
  <2> QED
    BY <1>1, <2>1, <2>2, <2>3, BeatWaits
<1>4. CASE Health!Configure(w)
  <2> DEFINE r == [hop[w] EXCEPT !.at = IF config.enabled THEN "check" ELSE "rules",
                                 !.since = clock - config.cooldown]
  <2>1. Health!Become(w, r)
    BY <1>4 DEF Health!Configure
  <2>2. /\ DOMAIN r = {"at", "level", "now", "since", "todo", "rule"}
        /\ r.since = clock - config.cooldown /\ r.at \in {"check", "rules"}
    BY <1>1
  <2>3. r.since \in Int /\ r.since <= clock - Health!Shortest
    BY <1>2, <2>2, HealthConstants
  <2> HIDE DEF r
  <2>4. Waits(w)'
    BY <1>1, <2>1, <2>2, <2>3, BeatGoes DEF HealthInv, Waits, Health!At
  <2> QED
    BY <1>1, <2>1, <2>2, <2>3, <2>4, BeatWaits
<1>5. CASE Health!ListRules(w)
  BY <1>1, <1>5, BeatCounts DEF Health!ListRules
<1>6. ASSUME NEW x \in {"threshold", "frequency"}, Health!CountMatches(w, x) PROVE HealthInv'
  <2> DEFINE r == [hop[w] EXCEPT !.at = "duplicate", !.todo = @ \ {x}, !.rule = x, !.since = clock - Window]
  <2>1. Health!GoOn(w, hop[w].todo \ {x}) \/ Health!Become(w, r)
    BY <1>6 DEF Health!CountMatches
  <2>2. CASE Health!Become(w, r)
    <3>1. /\ DOMAIN r = {"at", "level", "now", "since", "todo", "rule"}
          /\ r.since = clock - Window /\ r.at = "duplicate"
      BY <1>1
    <3> HIDE DEF r
    <3>2. r.since \in Int /\ r.since <= clock - Window
      BY <1>2, <3>1, HealthConstants
    <3>3. Waits(w)'
      BY <1>1, <2>2, <3>1, <3>2, BeatGoes DEF HealthInv, Waits, Health!At
    <3> QED
      BY <1>1, <2>2, <3>1, <3>2, <3>3, BeatWaits
  <2> QED
    BY <1>1, <2>1, <2>2, BeatCounts
<1>7. CASE Health!LookForDuplicate(w)
  <2>1. CASE Health!Duplicate(hop[w].rule, hop[w].since)
    BY <1>1, <1>7, <2>1, BeatCounts DEF Health!LookForDuplicate
  <2>2. CASE ~ Health!Duplicate(hop[w].rule, hop[w].since)
    <3> DEFINE r == [hop[w] EXCEPT !.at = "create"]
    <3>1. Health!Become(w, r) /\ Health!At(w, "duplicate")
      BY <1>7, <2>2 DEF Health!LookForDuplicate, Health!Goto
    <3>2. /\ DOMAIN r = {"at", "level", "now", "since", "todo", "rule"} /\ r.since = hop[w].since
          /\ r.at = "create" /\ r.rule = hop[w].rule
      BY <1>1
    <3> HIDE DEF r
    <3>3. r.since <= clock - Window
      BY <3>1, <3>2 DEF HealthInv, Waits
    <3>4. \A e \in events : e.rule = r.rule => e.at <= r.since
      BY <1>1, <2>2, <3>2 DEF Health!Duplicate, HealthInv, HealthType
    <3>5. Waits(w)'
      BY <1>1, <3>1, <3>2, <3>3, <3>4, BeatGoes DEF HealthInv, Waits, Health!At
    <3> QED
      BY <1>1, <3>1, <3>2, <3>5, BeatWaits
  <2> QED
    BY <2>1, <2>2
<1> QED
  BY <1>3, <1>4, <1>5, <1>6, <1>7

\* A new alarm is a cooldown later than any open one.
LEMMA BeatRaises ==
  ASSUME HealthInv, NEW w \in Operator, Health!CheckThresholds(w)
  PROVE  HealthInv'
<1> DEFINE r == [hop[w] EXCEPT !.at = "rules"]
           a == [at |-> clock, nth |-> Health!Nth(alarms, clock), level |-> hop[w].level, acknowledged |-> FALSE]
<1>1. /\ Health!Become(w, r) /\ UNCHANGED <<clock, events, config, overlapped>> /\ Health!At(w, "check")
      /\ alarms' = IF Health!Recent(hop[w].level, hop[w].since) # {} THEN alarms ELSE alarms \cup {a}
  BY DEF Health!CheckThresholds, Health!Goto, Health!outside
<1>2. /\ clock \in Nat /\ config.cooldown \in Cooldown /\ Beating(w)
      /\ DOMAIN hop[w] = {"at", "level", "now", "since", "todo", "rule"} /\ hop[w].since \in Int
  BY <1>1 DEF HealthInv, HealthType, Health!At, Beating
<1>3. DOMAIN r = {"at", "level", "now", "since", "todo", "rule"} /\ r.since \in Int /\ r.at = "rules"
  BY <1>2
<1>4. a.at = clock /\ a.acknowledged = FALSE /\ {"at", "acknowledged"} \subseteq DOMAIN a
  OBVIOUS
<1> HIDE DEF r, a
<1>5. /\ hop' = [v \in Operator |-> hop'[v]] /\ hop'[w] = r
      /\ \A v \in Operator \ {w} : hop'[v] = hop[v]
  BY <1>1, BeatGoes DEF HealthInv
<1>6. HealthType'
  BY <1>1, <1>2, <1>3, <1>4, <1>5 DEF HealthInv, HealthType, Beating
<1>7. OneBeats'
  BY <1>1, <1>2, <1>5 DEF HealthInv, OneBeats, Beating
<1>8. ASSUME NEW v \in Operator PROVE Waits(v)'
  BY <1>1, <1>3, <1>5 DEF HealthInv, Waits, Health!At
<1>9. Health!AlarmsAreSpaced'
  <2>1. CASE alarms' = alarms
    BY <2>1 DEF HealthInv, Health!ReportsAreSpaced, Health!AlarmsAreSpaced, Health!Close
  <2>2. CASE Health!Recent(hop[w].level, hop[w].since) = {} /\ alarms' = alarms \cup {a}
    <3>1. hop[w].since <= clock - Health!Shortest
      BY <1>1 DEF HealthInv, Waits
    <3>2. \A b \in alarms : ~b.acknowledged => b.at <= hop[w].since /\ b.at \in Nat
      BY <1>2, <2>2 DEF Health!Recent, HealthInv, HealthType
    <3>3. \A b \in alarms : ~b.acknowledged => clock - b.at >= Health!Shortest
      BY <1>2, <3>1, <3>2, HealthConstants
    <3>4. \A b \in alarms : ~b.acknowledged =>
             ~Health!Close(a.at, b.at, Health!Shortest) /\ ~Health!Close(b.at, a.at, Health!Shortest)
      BY <1>2, <1>4, <3>2, <3>3, HealthConstants DEF Health!Close
    <3>5. \A b, c \in alarms : ~b.acknowledged /\ ~c.acknowledged /\ b # c
             => ~Health!Close(b.at, c.at, Health!Shortest)
      BY DEF HealthInv, Health!ReportsAreSpaced, Health!AlarmsAreSpaced
    <3>6. Health!Shortest' = Health!Shortest
      BY DEF Health!Shortest
    <3> QED
      BY <2>2, <3>4, <3>5, <3>6 DEF Health!AlarmsAreSpaced, Health!Close
  <2> QED
    BY <1>1, <2>1, <2>2
<1>10. Health!EventsAreSpaced'
  BY <1>1 DEF HealthInv, Health!ReportsAreSpaced, Health!EventsAreSpaced, Health!Close
<1> QED
  BY <1>6, <1>7, <1>8, <1>9, <1>10 DEF HealthInv, Health!ReportsAreSpaced

\* A new event is a window later than any of its rule.
LEMMA BeatReports ==
  ASSUME HealthInv, NEW w \in Operator, Health!CreateEvent(w)
  PROVE  HealthInv'
<1> DEFINE e == [rule |-> hop[w].rule, at |-> clock, by |-> w]
<1>1. /\ Health!GoOn(w, hop[w].todo) /\ UNCHANGED <<clock, alarms, config, overlapped>>
      /\ Health!At(w, "create") /\ events' = events \cup {e}
  BY DEF Health!CreateEvent, Health!outside
<1>2. /\ clock \in Nat /\ config.cooldown \in Cooldown /\ Beating(w) /\ hop[w].since \in Int
  BY <1>1 DEF HealthInv, HealthType, Health!At, Beating
<1>3. PICK r : /\ Health!Become(w, r)
               /\ r = None \/ /\ DOMAIN r = {"at", "level", "now", "since", "todo", "rule"}
                              /\ r.since \in Int /\ r.at = "count"
  BY <1>1, <1>2, BeatGoesOn DEF HealthInv
<1>4. e.at = clock /\ e.rule = hop[w].rule
  OBVIOUS
<1> HIDE DEF e
<1>5. /\ hop' = [v \in Operator |-> hop'[v]] /\ hop'[w] = r
      /\ \A v \in Operator \ {w} : hop'[v] = hop[v]
  BY <1>3, BeatGoes DEF HealthInv
<1>6. HealthType'
  BY <1>1, <1>2, <1>3, <1>4, <1>5 DEF HealthInv, HealthType, Beating
<1>7. OneBeats'
  BY <1>1, <1>2, <1>5 DEF HealthInv, OneBeats, Beating
<1>8. ASSUME NEW v \in Operator PROVE Waits(v)'
  <2>1. CASE v = w
    BY <1>3, <1>5, <2>1 DEF Waits, Health!At
  <2>2. CASE v # w
    <3>1. ~overlapped => ~ Beating(v)
      BY <1>2, <2>2 DEF HealthInv, OneBeats
    <3>2. hop'[v] = hop[v] /\ Waits(v)
      BY <1>5, <2>2 DEF HealthInv
    <3> QED
      BY <1>1, <3>1, <3>2 DEF Waits, Health!At, Beating
  <2> QED
    BY <2>1, <2>2
<1>9. Health!AlarmsAreSpaced'
  BY <1>1 DEF HealthInv, Health!ReportsAreSpaced, Health!AlarmsAreSpaced, Health!Close
<1>10. Health!EventsAreSpaced'
  <2> SUFFICES ASSUME ~overlapped
               PROVE  \A f, g \in events' : f # g /\ f.rule = g.rule => ~Health!Close(f.at, g.at, Window)
    BY <1>1 DEF Health!EventsAreSpaced
  <2>1. hop[w].since <= clock - Window /\ \A f \in events : f.rule = hop[w].rule => f.at <= hop[w].since
    BY <1>1 DEF HealthInv, Waits
  <2>2. \A f \in events : f.rule = e.rule => f.at \in Nat /\ clock - f.at >= Window
    BY <1>2, <1>4, <2>1, HealthConstants DEF HealthInv, HealthType
  <2>3. \A f \in events : f.rule = e.rule => ~Health!Close(f.at, e.at, Window) /\ ~Health!Close(e.at, f.at, Window)
    BY <1>2, <1>4, <2>2, HealthConstants DEF Health!Close
  <2>4. \A f, g \in events : f # g /\ f.rule = g.rule => ~Health!Close(f.at, g.at, Window)
    BY DEF HealthInv, Health!ReportsAreSpaced, Health!EventsAreSpaced
  <2> QED
    BY <1>1, <2>3, <2>4
<1> QED
  BY <1>6, <1>7, <1>8, <1>9, <1>10 DEF HealthInv, Health!ReportsAreSpaced

\* What operators do, and the time.
LEMMA HealthCalls ==
  ASSUME HealthInv,
         \/ Health!Tick \/ Health!RemoveDevice
         \/ \E w \in Operator : Health!BeginLabel(w) \/ Health!WriteLabel(w)
         \/ \E a \in alarms : Health!Acknowledge(a)
         \/ \E c \in [enabled : BOOLEAN, cooldown : Cooldown] : Health!SaveConfig(c)
         \/ \E r \in {"threshold", "frequency"} : Health!ToggleRule(r) \/ Health!DeleteRule(r)
  PROVE  HealthInv'
<1>0. clock \in Nat /\ config.cooldown \in Cooldown /\ hop = [w \in Operator |-> hop[w]]
  BY DEF HealthInv, HealthType
<1>1. CASE \/ Health!Tick \/ Health!RemoveDevice
           \/ \E c \in [enabled : BOOLEAN, cooldown : Cooldown] : Health!SaveConfig(c)
           \/ \E r \in {"threshold", "frequency"} : Health!ToggleRule(r)
  <2>1. UNCHANGED <<alarms, events, hop, overlapped>> /\ config'.cooldown \in Cooldown
    BY <1>0, <1>1 DEF Health!Tick, Health!RemoveDevice, Health!SaveConfig, Health!ToggleRule, Health!Call,
       Health!database
  <2>2. clock' \in Nat /\ clock <= clock'
    BY <1>0, <1>1 DEF Health!Tick, Health!RemoveDevice, Health!SaveConfig, Health!ToggleRule, Health!Call
  <2>3. OneBeats'
    BY <2>1 DEF HealthInv, OneBeats, Beating
  <2> QED
    BY <1>0, <2>1, <2>2, <2>3, HealthFrame
<1>2. ASSUME NEW w \in Operator, Health!BeginLabel(w) \/ Health!WriteLabel(w) PROVE HealthInv'
  <2>1. UNCHANGED <<alarms, events, config, clock, overlapped>>
    BY <1>2 DEF Health!BeginLabel, Health!WriteLabel, Health!Call, Health!database, Health!outside
  <2>2. PICK r : Health!Become(w, r) /\ (r = None \/ r.at = "label")
    BY <1>2 DEF Health!BeginLabel, Health!WriteLabel, Health!End
  <2>3. /\ hop' = [v \in Operator |-> hop'[v]] /\ hop'[w] = r
        /\ \A v \in Operator \ {w} : hop'[v] = hop[v]
    BY <2>2, BeatGoes DEF HealthInv
  <2>4. OneBeats'
    BY <2>1, <2>2, <2>3 DEF HealthInv, OneBeats, Beating
  <2> QED
    BY <1>0, <2>1, <2>2, <2>3, <2>4, HealthFrame DEF Beating
<1>3. ASSUME NEW a \in alarms, Health!Acknowledge(a) PROVE HealthInv'
  <2> DEFINE b == [a EXCEPT !.acknowledged = TRUE]
  <2>1. UNCHANGED <<clock, events, config, hop, overlapped>> /\ alarms' = (alarms \ {a}) \cup {b}
    BY <1>3 DEF Health!Acknowledge, Health!Call
  <2>2. b.acknowledged = TRUE /\ b.at = a.at /\ DOMAIN b = DOMAIN a
    BY DEF HealthInv, HealthType
  <2> HIDE DEF b
  <2>3. HealthType'
    BY <2>1, <2>2 DEF HealthInv, HealthType, Beating
  <2>4. OneBeats' /\ \A w \in Operator : Waits(w)'
    BY <2>1 DEF HealthInv, OneBeats, Waits, Beating, Health!At
  <2>5. Health!ReportsAreSpaced'
    BY <2>1, <2>2 DEF HealthInv, Health!ReportsAreSpaced, Health!AlarmsAreSpaced, Health!EventsAreSpaced,
       Health!Close
  <2> QED
    BY <2>3, <2>4, <2>5 DEF HealthInv
<1>4. ASSUME NEW x \in {"threshold", "frequency"}, Health!DeleteRule(x) PROVE HealthInv'
  <2>1. UNCHANGED <<clock, alarms, config, hop, overlapped>> /\ events' \subseteq events
    BY <1>4 DEF Health!DeleteRule, Health!Call
  <2>2. HealthType'
    BY <2>1 DEF HealthInv, HealthType, Beating
  <2>3. OneBeats' /\ \A w \in Operator : Waits(w)'
    BY <2>1 DEF HealthInv, OneBeats, Waits, Beating, Health!At
  <2>4. Health!ReportsAreSpaced'
    BY <2>1 DEF HealthInv, Health!ReportsAreSpaced, Health!AlarmsAreSpaced, Health!EventsAreSpaced, Health!Close
  <2> QED
    BY <2>2, <2>3, <2>4 DEF HealthInv
<1>5. ASSUME NEW x \in {"threshold", "frequency"}, Health!ToggleRule(x) PROVE HealthInv'
  BY <1>1, <1>5
<1>6. ASSUME NEW c \in [enabled : BOOLEAN, cooldown : Cooldown], Health!SaveConfig(c) PROVE HealthInv'
  BY <1>1, <1>6
<1>7. CASE Health!Tick \/ Health!RemoveDevice
  BY <1>1, <1>7
<1> QED
  BY <1>2, <1>3, <1>4, <1>5, <1>6, <1>7

LEMMA HealthStep == HealthInv /\ [Health!Next]_(Health!vars) => HealthInv'
<1> SUFFICES ASSUME HealthInv, [Health!Next]_(Health!vars) PROVE HealthInv'
  OBVIOUS
<1>1. CASE UNCHANGED Health!vars
  <2>1. UNCHANGED <<clock, alarms, events, config, hop, overlapped>>
    BY <1>1 DEF Health!vars
  <2>2. OneBeats'
    BY <2>1 DEF HealthInv, OneBeats, Beating
  <2> QED
    BY <2>1, <2>2, HealthFrame DEF HealthInv, HealthType
<1>2. ASSUME NEW w \in Operator, Health!Serve(w) PROVE HealthInv'
  BY <1>2, BeatReads, BeatRaises, BeatReports, HealthCalls DEF Health!Serve
<1> QED
  BY <1>1, <1>2, HealthBegins, HealthCalls DEF Health!Next

\* For any number of requests, heartbeats and operators' changes, and any thresholds: open alarms of
\* a metric are a cooldown apart, and unless heartbeats overlap the events of a rule a window.
THEOREM ReportsSpaced == FirewallSpec => []ReportsAreSpaced
<1>1. FirewallInit => HealthInv
  BY HealthInit DEF FirewallInit
<1>2. HealthInv /\ [FirewallNext]_firewallVars => HealthInv'
  <2>1. FirewallNext => [Health!Next]_(Health!vars)
    BY DEF FirewallNext, healthVars, Health!vars
  <2>2. UNCHANGED firewallVars => UNCHANGED Health!vars
    BY DEF firewallVars, healthVars, Health!vars
  <2> QED
    BY <2>1, <2>2, HealthStep
<1>3. HealthInv => ReportsAreSpaced
  BY DEF HealthInv, ReportsAreSpaced
<1> QED
  BY <1>1, <1>2, <1>3, PTL DEF FirewallSpec
-----------------------------------------------------------------------------
(***************************************************************************)
(* Networks.  A process has numbered as many networks as it says, each by  *)
(* a number of its own; and a check of which nothing was changed meanwhile *)
(* has seen of every server what it has now.                               *)
(***************************************************************************)
NetworkId == 1 .. MaxNetworks
Visitor == Applier \cup Checker
VisitFields == {"kind", "rule", "proc", "on", "next", "left", "all", "seen", "quiet"}

Numbered ==
  /\ DOMAIN members = Process /\ DOMAIN named = Process /\ seq \in [Process -> 0 .. MaxNetworks]
  /\ \A p \in Process : DOMAIN members[p] = NetworkId /\ DOMAIN named[p] = NetworkId
  /\ \A p \in Process, i \in NetworkId :
       /\ members[p][i] # None => i <= seq[p]
       /\ named[p][i] = IF i <= seq[p] THEN i ELSE 0

\* What a request has found is so, if nothing was lost or changed on its way.
Found1(q) == q.kind = "check" /\ q.quiet => \A s \in DOMAIN q.seen : q.seen[s] = ruled[s]

Visited ==
  /\ request = [r \in Visitor |-> request[r]]
  /\ \A r \in Visitor : DOMAIN request[r] = VisitFields /\ request[r].quiet \in BOOLEAN /\ Found1(request[r])

NetworkInv == Numbered /\ Visited

LEMMA NetworkConstants ==
  /\ MaxNetworks \in Nat /\ Network!Id = NetworkId /\ Network!Request = Visitor
  /\ DOMAIN Network!Free = VisitFields /\ Network!Free.kind = "none" /\ Network!Free.quiet = TRUE
  BY PartsAssumption DEF Network!ConstantsAssumption, Network!Id, NetworkId, Network!Request, Visitor,
     Network!Free, VisitFields

LEMMA NetworkInit == Network!Init => NetworkInv
<1> SUFFICES ASSUME Network!Init PROVE NetworkInv
  OBVIOUS
<1>1. /\ members = [p \in Process |-> [i \in NetworkId |-> None]]
      /\ seq = [p \in Process |-> 0]
      /\ named = [p \in Process |-> [i \in NetworkId |-> 0]]
      /\ request = [r \in Visitor |-> Network!Free]
  BY NetworkConstants DEF Network!Init
<1>2. Numbered
  BY <1>1, NetworkConstants DEF Numbered, NetworkId
<1>3. Visited
  BY <1>1, NetworkConstants DEF Visited, Found1
<1> QED
  BY <1>2, <1>3 DEF NetworkInv

\* The lists change, and the numbers stay.
LEMMA NumbersStay ==
  ASSUME Numbered, NEW p \in Process, NEW i \in NetworkId, NEW list, members[p][i] # None,
         members' = [members EXCEPT ![p][i] = list], UNCHANGED <<seq, named>>
  PROVE  Numbered'
  BY NetworkConstants DEF Numbered

\* Requests go on, and what they have found stays as it is, or they are over.
LEMMA VisitsStay ==
  ASSUME Visited, ruled' = ruled, request' = [r \in Visitor |-> request'[r]],
         \A r \in Visitor :
           \/ request'[r] = Network!Free
           \/ /\ DOMAIN request'[r] = VisitFields
              /\ request'[r].kind = request[r].kind /\ request'[r].quiet = request[r].quiet
              /\ request'[r].seen = request[r].seen
  PROVE  Visited'
<1> SUFFICES ASSUME NEW r \in Visitor
             PROVE  DOMAIN request'[r] = VisitFields /\ request'[r].quiet \in BOOLEAN /\ Found1(request[r])'
  BY DEF Visited
<1>1. CASE request'[r] = Network!Free
  BY <1>1, NetworkConstants DEF Found1
<1>2. CASE request'[r] # Network!Free
  BY <1>2 DEF Visited, Found1
<1> QED
  BY <1>1, <1>2

LEMMA ListsChange ==
  ASSUME NetworkInv, NEW p \in Process,
         \/ \E list \in Network!Lists : Network!CreateNetwork(p, list)
         \/ \E i \in NetworkId :
              \/ \E list \in Network!Lists : Network!UpdateNetwork(p, i, list)
              \/ Network!DeleteNetwork(p, i)
              \/ \E s \in Member : Network!AddMember(p, i, s) \/ Network!RemoveMember(p, i, s)
         \/ Network!Restart(p)
  PROVE  NetworkInv'
<1>1. ASSUME NEW list, Network!CreateNetwork(p, list) PROVE NetworkInv'
  <2>1. /\ seq[p] < MaxNetworks /\ seq' = [seq EXCEPT ![p] = @ + 1]
        /\ members' = [members EXCEPT ![p][seq[p] + 1] = list]
        /\ named' = [named EXCEPT ![p][seq[p] + 1] = @ + seq'[p]]
        /\ UNCHANGED <<ruled, request>>
    BY <1>1 DEF Network!CreateNetwork, Network!NewId
  <2>2. seq[p] \in Nat /\ seq[p] + 1 \in NetworkId /\ seq'[p] = seq[p] + 1
    BY <2>1, NetworkConstants DEF NetworkInv, Numbered, NetworkId
  <2>3. seq' \in [Process -> 0 .. MaxNetworks] /\ \A q \in Process \ {p} : seq'[q] = seq[q]
    BY <2>1, <2>2, NetworkConstants DEF NetworkInv, Numbered
  <2>4. named[p][seq[p] + 1] = 0
    BY <2>2 DEF NetworkInv, Numbered
  <2>5. /\ DOMAIN members' = Process /\ DOMAIN named' = Process
        /\ \A q \in Process : DOMAIN members'[q] = NetworkId /\ DOMAIN named'[q] = NetworkId
    BY <2>1 DEF NetworkInv, Numbered
  <2>6. /\ named'[p][seq[p] + 1] = seq[p] + 1
        /\ \A q \in Process, i \in NetworkId : ~(q = p /\ i = seq[p] + 1) =>
              members'[q][i] = members[q][i] /\ named'[q][i] = named[q][i]
    BY <2>1, <2>2, <2>4 DEF NetworkInv, Numbered
  <2>7. ASSUME NEW q \in Process, NEW i \in NetworkId
        PROVE  /\ members'[q][i] # None => i <= seq'[q]
               /\ named'[q][i] = IF i <= seq'[q] THEN i ELSE 0
    <3>1. i \in Nat /\ seq[q] \in Nat
      BY NetworkConstants DEF NetworkId, NetworkInv, Numbered
    <3>2. CASE q = p /\ i = seq[p] + 1
      BY <2>2, <2>6, <3>1, <3>2
    <3>3. CASE q = p /\ i # seq[p] + 1
      <4>1. i <= seq'[q] <=> i <= seq[q]
        BY <2>2, <3>1, <3>3
      <4> QED
        BY <2>6, <3>3, <4>1 DEF NetworkInv, Numbered
    <3>4. CASE q # p
      BY <2>3, <2>6, <3>4 DEF NetworkInv, Numbered
    <3> QED
      BY <3>2, <3>3, <3>4
  <2>8. Numbered'
    BY <2>3, <2>5, <2>7 DEF Numbered
  <2>9. Visited'
    BY <2>1 DEF NetworkInv, Visited, Found1
  <2> QED
    BY <2>8, <2>9 DEF NetworkInv
<1>2. ASSUME NEW i \in NetworkId, NEW list, Network!Known(p, i), members' = [members EXCEPT ![p][i] = list],
             Network!KeepList(p, i), UNCHANGED <<seq, named, ruled>>
      PROVE  NetworkInv'
  <2>1. request' = [r \in Visitor |->
          IF request[r].proc = p /\ request[r].on = i
          THEN [request[r] EXCEPT !.on = 0, !.next = 1, !.left = Network!Rest(r)] ELSE request[r]]
    BY <1>2, NetworkConstants DEF Network!KeepList
  <2>2. ASSUME NEW r \in Visitor
        PROVE  /\ DOMAIN request'[r] = VisitFields
               /\ request'[r].kind = request[r].kind /\ request'[r].quiet = request[r].quiet
               /\ request'[r].seen = request[r].seen
    <3>1. DOMAIN request[r] = VisitFields
      BY DEF NetworkInv, Visited
    <3>2. \/ request'[r] = request[r]
          \/ request'[r] = [request[r] EXCEPT !.on = 0, !.next = 1, !.left = Network!Rest(r)]
      BY <2>1
    <3> QED
      BY <3>1, <3>2 DEF VisitFields
  <2>3. request' = [r \in Visitor |-> request'[r]]
    BY <2>1
  <2>4. Visited'
    BY <1>2, <2>2, <2>3, VisitsStay DEF NetworkInv
  <2>5. Numbered'
    BY <1>2, NumbersStay DEF NetworkInv, Network!Known
  <2> QED
    BY <2>4, <2>5 DEF NetworkInv
<1>3. ASSUME NEW i \in NetworkId, NEW s \in Member, Network!AddMember(p, i, s) PROVE NetworkInv'
  <2>1. /\ members[p][i] # None /\ UNCHANGED <<seq, named, ruled, request>>
        /\ members' = [members EXCEPT ![p][i] = Append(members[p][i], s)]
    BY <1>3 DEF Network!AddMember, Network!Known
  <2>2. Numbered'
    BY <2>1, NumbersStay DEF NetworkInv
  <2>3. Visited'
    BY <2>1 DEF NetworkInv, Visited, Found1
  <2> QED
    BY <2>2, <2>3 DEF NetworkInv
<1>4. ASSUME NEW i \in NetworkId, NEW s \in Member, Network!RemoveMember(p, i, s) PROVE NetworkInv'
  <2>1. PICK list : members' = [members EXCEPT ![p][i] = list]
    BY <1>4 DEF Network!RemoveMember
  <2>2. /\ members[p][i] # None /\ UNCHANGED <<seq, named, ruled>>
        /\ request' = [r \in Visitor |->
            IF request[r].proc = p /\ request[r].on = i /\ ~Network!Contains(members'[p][i], s)
            THEN [request[r] EXCEPT !.all = @ \ {s}] ELSE request[r]]
    BY <1>4, NetworkConstants DEF Network!RemoveMember, Network!Known
  <2>3. ASSUME NEW r \in Visitor
        PROVE  /\ DOMAIN request'[r] = VisitFields
               /\ request'[r].kind = request[r].kind /\ request'[r].quiet = request[r].quiet
               /\ request'[r].seen = request[r].seen
    <3>1. DOMAIN request[r] = VisitFields
      BY DEF NetworkInv, Visited
    <3>2. request'[r] = request[r] \/ request'[r] = [request[r] EXCEPT !.all = @ \ {s}]
      BY <2>2
    <3> QED
      BY <3>1, <3>2 DEF VisitFields
  <2>4. request' = [r \in Visitor |-> request'[r]]
    BY <2>2
  <2>5. Visited'
    BY <2>2, <2>3, <2>4, VisitsStay DEF NetworkInv
  <2>6. Numbered'
    BY <2>1, <2>2, NumbersStay DEF NetworkInv
  <2> QED
    BY <2>5, <2>6 DEF NetworkInv
<1>5. CASE Network!Restart(p)
  <2>1. /\ members' = [members EXCEPT ![p] = [i \in NetworkId |-> None]]
        /\ seq' = [seq EXCEPT ![p] = 0]
        /\ named' = [named EXCEPT ![p] = [i \in NetworkId |-> 0]]
        /\ request' = [r \in Visitor |-> IF request[r].proc = p THEN Network!Free ELSE request[r]]
        /\ ruled' = ruled
    BY <1>5, NetworkConstants DEF Network!Restart
  <2>2. Numbered'
    BY <2>1, NetworkConstants DEF NetworkInv, Numbered, NetworkId
  <2>3. request' = [r \in Visitor |-> request'[r]]
        /\ \A r \in Visitor : request'[r] = Network!Free \/ request'[r] = request[r]
    BY <2>1
  <2>4. Visited'
    BY <2>1, <2>3, VisitsStay DEF NetworkInv, Visited
  <2> QED
    BY <2>2, <2>4 DEF NetworkInv
<1>6. ASSUME NEW i \in NetworkId, NEW list, Network!UpdateNetwork(p, i, list) PROVE NetworkInv'
  BY <1>2, <1>6 DEF Network!UpdateNetwork
<1>7. ASSUME NEW i \in NetworkId, Network!DeleteNetwork(p, i) PROVE NetworkInv'
  BY <1>2, <1>7 DEF Network!DeleteNetwork
<1> QED
  BY <1>1, <1>3, <1>4, <1>5, <1>6, <1>7

\* A request takes a step of its own, and the rules stay.
LEMMA VisitGoes ==
  ASSUME NetworkInv, NEW r \in Visitor, NEW new, request' = [request EXCEPT ![r] = new],
         UNCHANGED <<members, seq, named, ruled>>,
         DOMAIN new = VisitFields, new.quiet \in BOOLEAN, Found1(new)
  PROVE  NetworkInv'
<1>1. request' = [q \in Visitor |-> request'[q]] /\ request'[r] = new
      /\ \A q \in Visitor \ {r} : request'[q] = request[q]
  BY DEF NetworkInv, Visited
<1>2. ASSUME NEW q \in Visitor
      PROVE  DOMAIN request'[q] = VisitFields /\ request'[q].quiet \in BOOLEAN /\ Found1(request[q])'
  BY <1>1 DEF NetworkInv, Visited, Found1
<1>3. Visited'
  BY <1>1, <1>2 DEF Visited
<1>4. Numbered'
  BY DEF NetworkInv, Numbered
<1> QED
  BY <1>3, <1>4 DEF NetworkInv

LEMMA VisitAdvances ==
  ASSUME Visited, NEW r \in Visitor
  PROVE  /\ DOMAIN Network!Advanced(r) = VisitFields /\ Network!Advanced(r).kind = request[r].kind
         /\ Network!Advanced(r).quiet = request[r].quiet /\ Network!Advanced(r).seen = request[r].seen
<1>1. DOMAIN request[r] = VisitFields
  BY DEF Visited
<1>2. PICK q : q = request[r]
  OBVIOUS
<1>3. \/ Network!Advanced(r) = [q EXCEPT !.left = Tail(@)]
      \/ Network!Advanced(r) = [q EXCEPT !.next = @ + 1]
  BY <1>2 DEF Network!Advanced
<1> QED
  BY <1>1, <1>2, <1>3 DEF VisitFields

LEMMA VisitStarts ==
  ASSUME NetworkInv, NEW r \in Visitor, NEW p \in Process, NEW i \in NetworkId,
         \/ Network!StartCheck(r, p, i)
         \/ \E x \in Entered, which \in {"add_rule", "delete_rule"} : Network!StartApply(r, p, i, which, x)
  PROVE  NetworkInv'
<1>1. CASE Network!StartCheck(r, p, i)
  <2> DEFINE new == [Network!Free EXCEPT
            !.kind = "check", !.proc = p, !.on = i, !.all = Network!ToSet(members[p][i])]
  <2>1. request' = [request EXCEPT ![r] = new] /\ UNCHANGED <<members, seq, named, ruled>>
    BY <1>1 DEF Network!StartCheck
  <2>2. DOMAIN new = VisitFields /\ new.quiet = TRUE /\ new.seen = <<>>
    BY DEF Network!Free, VisitFields
  <2> HIDE DEF new
  <2>3. Found1(new)
    BY <2>2 DEF Found1
  <2> QED
    BY <2>1, <2>2, <2>3, VisitGoes
<1>2. ASSUME NEW x \in Entered, NEW which \in {"add_rule", "delete_rule"}, Network!StartApply(r, p, i, which, x)
      PROVE  NetworkInv'
  <2>1. PICK left : request' = [request EXCEPT ![r] = [Network!Free EXCEPT
            !.kind = which, !.proc = p, !.rule = x, !.left = left]]
    BY <1>2 DEF Network!StartApply
  <2> DEFINE new == [Network!Free EXCEPT !.kind = which, !.proc = p, !.rule = x, !.left = left]
  <2>2. DOMAIN new = VisitFields /\ new.quiet = TRUE /\ new.kind = which
    BY DEF Network!Free, VisitFields
  <2>3. request' = [request EXCEPT ![r] = new] /\ UNCHANGED <<members, seq, named, ruled>>
    BY <1>2, <2>1 DEF Network!StartApply
  <2> HIDE DEF new
  <2>4. Found1(new)
    BY <2>2 DEF Found1
  <2> QED
    BY <2>2, <2>3, <2>4, VisitGoes
<1> QED
  BY <1>1, <1>2

LEMMA VisitApplies ==
  ASSUME NetworkInv, NEW r \in Visitor, Network!Apply(r)
  PROVE  NetworkInv'
<1>1. request[r].kind \in {"add_rule", "delete_rule"} /\ UNCHANGED <<members, seq, named>>
  BY DEF Network!Apply, Network!Applies
<1>2. CASE request' = [request EXCEPT ![r] = Network!Advanced(r)] /\ ruled' = ruled
  <2>1. Found1(Network!Advanced(r))
    BY <1>1, VisitAdvances DEF NetworkInv, Found1
  <2> QED
    BY <1>1, <1>2, <2>1, VisitAdvances, VisitGoes DEF NetworkInv, Visited
<1>3. CASE request' = [q \in Visitor |->
                CASE q = r -> Network!Advanced(r)
                  [] request[q].kind = "check" -> [request[q] EXCEPT !.quiet = @ /\ ruled' = ruled]
                  [] OTHER -> request[q]]
  <2>1. request' = [q \in Visitor |-> request'[q]]
    BY <1>3
  <2>2. request'[r] = Network!Advanced(r)
    BY <1>1, <1>3
  <2>3. DOMAIN request'[r] = VisitFields /\ request'[r].quiet \in BOOLEAN /\ Found1(request[r])'
    BY <1>1, <2>2, VisitAdvances DEF NetworkInv, Visited, Found1
  <2>4. ASSUME NEW q \in Visitor, q # r
        PROVE  DOMAIN request'[q] = VisitFields /\ request'[q].quiet \in BOOLEAN /\ Found1(request[q])'
    <3>1. CASE request[q].kind = "check"
      <4>1. request'[q] = [request[q] EXCEPT !.quiet = @ /\ ruled' = ruled]
        BY <1>3, <2>4, <3>1
      <4>2. /\ DOMAIN request'[q] = VisitFields /\ request'[q].seen = request[q].seen
            /\ request'[q].quiet = (request[q].quiet /\ ruled' = ruled)
        BY <4>1 DEF NetworkInv, Visited, VisitFields
      <4>3. request'[q].quiet => ruled' = ruled /\ request[q].quiet
        BY <4>2
      <4>4. Found1(request[q])'
        BY <3>1, <4>2, <4>3 DEF NetworkInv, Visited, Found1
      <4> QED
        BY <4>2, <4>4
    <3>2. CASE request[q].kind # "check"
      <4>1. request'[q] = request[q]
        BY <1>3, <2>4, <3>2
      <4> QED
        BY <3>2, <4>1 DEF NetworkInv, Visited, Found1
    <3> QED
      BY <3>1, <3>2
  <2>5. Visited'
    BY <2>1, <2>3, <2>4 DEF Visited
  <2>6. Numbered'
    BY <1>1 DEF NetworkInv, Numbered
  <2> QED
    BY <2>5, <2>6 DEF NetworkInv
<1> QED
  BY <1>2, <1>3, NetworkConstants DEF Network!Apply

LEMMA VisitLooks ==
  ASSUME NetworkInv, NEW r \in Visitor, Network!Look(r)
  PROVE  NetworkInv'
<1> DEFINE s == Head(Network!Rest(r))
<1>1. PICK online \in BOOLEAN :
        request' = [request EXCEPT ![r] = [Network!Advanced(r) EXCEPT
                !.quiet = @ /\ online,
                !.seen = [t \in DOMAIN @ \cup {s} |->
                            IF t = s THEN (IF online THEN ruled[s] ELSE {}) ELSE @[t]]]]
  BY DEF Network!Look
<1>2. UNCHANGED <<members, seq, named, ruled>> /\ request[r].kind = "check"
  BY DEF Network!Look
<1>3. PICK q : q = Network!Advanced(r)
  OBVIOUS
<1>4. DOMAIN q = VisitFields /\ q.kind = "check" /\ q.quiet \in BOOLEAN /\ Found1(q)
  BY <1>2, <1>3, VisitAdvances DEF NetworkInv, Visited, Found1
<1> HIDE DEF s
<1> DEFINE seen == [t \in DOMAIN q.seen \cup {s} |->
                      IF t = s THEN (IF online THEN ruled[s] ELSE {}) ELSE q.seen[t]]
           new == [q EXCEPT !.quiet = q.quiet /\ online, !.seen = seen]
<1>5. request' = [request EXCEPT ![r] = new]
  BY <1>1, <1>3
<1>6. (q.quiet /\ online) => \A t \in DOMAIN seen : seen[t] = ruled[t]
  BY <1>4 DEF Found1
<1> HIDE DEF seen
<1>7. DOMAIN new = VisitFields /\ new.quiet = (q.quiet /\ online) /\ new.seen = seen
  BY <1>4 DEF VisitFields
<1> HIDE DEF new
<1>8. new.quiet \in BOOLEAN /\ (new.quiet => q.quiet /\ online)
  BY <1>7
<1>9. Found1(new)
  BY <1>6, <1>7, <1>8 DEF Found1
<1> QED
  BY <1>2, <1>5, <1>7, <1>8, <1>9, VisitGoes

LEMMA VisitEnds ==
  ASSUME NetworkInv, NEW r \in Visitor, Network!EndApply(r) \/ Network!EndCheck(r)
  PROVE  NetworkInv'
<1>1. request' = [request EXCEPT ![r] = Network!Free] /\ UNCHANGED <<members, seq, named, ruled>>
  BY DEF Network!EndApply, Network!EndCheck
<1>2. Found1(Network!Free)
  BY NetworkConstants DEF Found1
<1> QED
  BY <1>1, <1>2, NetworkConstants, VisitGoes

LEMMA NetworkStep == NetworkInv /\ [Network!Next]_(Network!vars) => NetworkInv'
<1> SUFFICES ASSUME NetworkInv, [Network!Next]_(Network!vars) PROVE NetworkInv'
  OBVIOUS
<1>1. CASE UNCHANGED Network!vars
  BY <1>1 DEF Network!vars, NetworkInv, Numbered, Visited, Found1
<1>2. Applier \subseteq Visitor /\ Checker \subseteq Visitor
  BY DEF Visitor
<1> QED
  BY <1>1, <1>2, ListsChange, VisitStarts, VisitApplies, VisitLooks, VisitEnds, NetworkConstants
     DEF Network!Next

\* For any number of processes, networks, members, rules and requests: an id names one network while
\* its process runs, and a check that nothing disturbed answers what is so of the servers it saw.
THEOREM NetworksTold == FirewallSpec => []NetworksAreTold
<1>1. FirewallInit => NetworkInv
  BY NetworkInit DEF FirewallInit
<1>2. NetworkInv /\ [FirewallNext]_firewallVars => NetworkInv'
  <2>1. FirewallNext => [Network!Next]_(Network!vars)
    BY DEF FirewallNext, networkVars, Network!vars
  <2>2. UNCHANGED firewallVars => UNCHANGED Network!vars
    BY DEF firewallVars, networkVars, Network!vars
  <2> QED
    BY <2>1, <2>2, NetworkStep
<1>3. NetworkInv => NetworksAreTold
  <2> SUFFICES ASSUME NetworkInv PROVE Network!NetworksAreTold
    BY DEF NetworksAreTold
  <2>1. \A p \in Process, i \in NetworkId : Network!Known(p, i) => named[p][i] = i
    BY DEF NetworkInv, Numbered, Network!Known
  <2>2. ASSUME NEW r \in Checker, Network!Asked(r), request[r].quiet, NEW of, of = DOMAIN request[r].seen
        PROVE  Network!Answer(r) = IF of = {} THEN "unknown"
                                   ELSE IF \A s, t \in of : ruled[s] = ruled[t] THEN "synced" ELSE "diverged"
    <3>1. PICK seen : seen = request[r].seen
      OBVIOUS
    <3>2. r \in Visitor /\ request[r].kind = "check"
      BY <2>2 DEF Visitor, Network!Asked
    <3>3. \A s \in of : seen[s] = ruled[s]
      BY <2>2, <3>1, <3>2 DEF NetworkInv, Visited, Found1
    <3>4. Network!Diverged(seen) = {} <=> \A s, t \in of : ruled[s] = ruled[t]
      <4>1. ASSUME NEW s \in of, NEW t \in of, NEW x, x \in ruled[s], x \notin ruled[t]
            PROVE  Network!Diverged(seen) # {}
        BY <2>2, <3>1, <3>3, <4>1 DEF Network!Diverged
      <4>2. ASSUME \A s, t \in of : ruled[s] = ruled[t] PROVE Network!Diverged(seen) = {}
        BY <2>2, <3>1, <3>3, <4>2 DEF Network!Diverged
      <4>3. ASSUME Network!Diverged(seen) = {}, NEW s \in of, NEW t \in of PROVE ruled[s] = ruled[t]
        BY <4>1, <4>3
      <4> QED
        BY <4>2, <4>3
    <3> QED
      BY <2>2, <3>1, <3>4 DEF Network!Answer
  <2> QED
    BY <2>1, <2>2, NetworkConstants DEF Network!NetworksAreTold
<1> QED
  BY <1>1, <1>2, <1>3, PTL DEF FirewallSpec
-----------------------------------------------------------------------------
(***************************************************************************)
(* FirewallBackup.  A restore first reads every section and writes what it *)
(* has read; as long as nobody changes the firewall this is what it was    *)
(* when the restore began.                                                 *)
(***************************************************************************)
LEMMA ConcatIsSeq ==
  ASSUME NEW s, NEW t, IsSeq(s), IsSeq(t)
  PROVE  /\ IsSeq(s \o t) /\ DOMAIN (s \o t) = 1 .. (Len(s) + Len(t))
         /\ \A i \in DOMAIN s : (s \o t)[i] = s[i]
         /\ \A i \in DOMAIN t : (s \o t)[Len(s) + i] = t[i]
<1> DEFINE S == Range(s) \cup Range(t)
<1>1. s \in Seq(S) /\ t \in Seq(S)
  BY DEF IsSeq
<1> HIDE DEF S
<1>2. /\ s \o t \in Seq(S) /\ Len(s \o t) = Len(s) + Len(t)
      /\ \A i \in 1 .. Len(s) + Len(t) : (s \o t)[i] = IF i <= Len(s) THEN s[i] ELSE t[i - Len(s)]
  BY <1>1, ConcatProperties
<1>3. IsSeq(s \o t)
  BY <1>2, SeqIsSeq
<1>4. DOMAIN s = 1 .. Len(s) /\ DOMAIN t = 1 .. Len(t) /\ Len(s) \in Nat /\ Len(t) \in Nat
  BY SeqDomain
<1>5. \A i \in DOMAIN t : (s \o t)[Len(s) + i] = t[i]
  BY <1>2, <1>4
<1> QED
  BY <1>2, <1>3, <1>4, <1>5

Configuration == [Backup!SectionName -> Content \cup {None}]
BackupFields == {"what", "id", "own", "read", "start", "ok", "todo"}

IsStep(c) ==
  /\ c[1] = "read" => c[2] \in Backup!SectionName
  /\ c[1] = "put" => c[2] \in Backup!SectionName /\ c[3] \in Content \cup {None}

AllAre(t, what) == \A j \in DOMAIN t : t[j][1] = what

\* A restore on its way to write its own backup, as the command at w of those that are left.
Saving(q, w) ==
  /\ w \in DOMAIN q.todo /\ q.todo[w] = <<"write", "pre_restore">>
  /\ \A j \in DOMAIN q.todo : (j < w => q.todo[j][1] = "read") /\ (j > w => q.todo[j][1] = "put")
  /\ q.start # None =>
       /\ conf = q.start
       /\ \A s \in Backup!OfKind : \/ q.read[s] = q.start[s]
                                   \/ \E j \in DOMAIN q.todo : j < w /\ q.todo[j] = <<"read", s>>

BackupCall(q) ==
  /\ DOMAIN q = BackupFields /\ q.what \in {"backup", "restore", "delete"}
  /\ q.read \in Configuration
  /\ IsSeq(q.todo) /\ \A j \in DOMAIN q.todo : IsStep(q.todo[j])
  /\ q.what = "backup" => \A j \in DOMAIN q.todo : q.todo[j][1] = "read" \/ q.todo[j] = <<"write", "auto">>
  /\ q.what = "delete" => AllAre(q.todo, "delete")
  /\ q.what = "restore" =>
       /\ q.id \in Backup!Ids
       /\ \/ AllAre(q.todo, "load")
          \/ AllAre(q.todo, "put")
          \/ \E w \in DOMAIN q.todo : Saving(q, w)

BackupCalls == bop = [o \in Operator |-> bop[o]] /\ \A o \in Operator : bop[o] # None => BackupCall(bop[o])

BackupFiles ==
  /\ conf \in Configuration /\ files \in [Backup!Ids -> {None} \cup Configuration]
  /\ DOMAIN before = Backup!Ids
  /\ \A i \in Backup!Ids : IsFiniteSet(before[i]) /\ (before[i] # {} => i[1] = "pre_restore")
  /\ \A i \in Backup!Ids : \A c : c # None /\ before[i] = {c} =>
       files[i] \in Configuration /\ Backup!Same(files[i], c)

BackupInv ==
  /\ bfailures \in Nat /\ type \in {"ufw", "firewalld", "emareos"}
  /\ bfailures = 0 => BackupCalls /\ BackupFiles

LEMMA BackupConstants == None \notin Configuration
  BY PartsAssumption DEF Backup!ConstantsAssumption, Configuration

LEMMA ListOfTwo ==
  ASSUME NEW a, NEW b
  PROVE  LET t == <<a, b>>
         IN  IsSeq(t) /\ Len(t) = 2 /\ DOMAIN t = 1 .. Len(t) /\ \A i \in DOMAIN t : t[i] \in {a, b}
<1>1. IsSeq(<<a, b>>)
  BY TwoAreSeq
<1>2. Len(<<a, b>>) = 2 /\ DOMAIN <<a, b>> = 1 .. 2 /\ <<a, b>>[1] = a /\ <<a, b>>[2] = b
  OBVIOUS
<1>3. \A i \in 1 .. 2 : <<a, b>>[i] \in {a, b}
  BY <1>2
<1> QED
  BY <1>1, <1>2, <1>3

LEMMA ListOfThree ==
  ASSUME NEW a, NEW b, NEW c
  PROVE  LET t == <<a, b, c>>
         IN  IsSeq(t) /\ Len(t) = 3 /\ DOMAIN t = 1 .. Len(t) /\ \A i \in DOMAIN t : t[i] \in {a, b, c}
<1>1. IsSeq(<<a, b, c>>)
  BY ThreeAreSeq
<1>2. /\ Len(<<a, b, c>>) = 3 /\ DOMAIN <<a, b, c>> = 1 .. 3
      /\ <<a, b, c>>[1] = a /\ <<a, b, c>>[2] = b /\ <<a, b, c>>[3] = c
  OBVIOUS
<1>3. \A i \in 1 .. 3 : i = 1 \/ i = 2 \/ i = 3
  OBVIOUS
<1>4. \A i \in 1 .. 3 : <<a, b, c>>[i] \in {a, b, c}
  BY <1>2, <1>3
<1> QED
  BY <1>1, <1>2, <1>4

LEMMA KindSections ==
  ASSUME type \in {"ufw", "firewalld", "emareos"}
  PROVE  /\ IsSeq(Backup!Sections) /\ Len(Backup!Sections) \in {2, 3}
         /\ DOMAIN Backup!Sections = 1 .. Len(Backup!Sections)
         /\ \A i \in DOMAIN Backup!Sections : Backup!Sections[i] \in Backup!SectionName
         /\ Backup!OfKind \subseteq Backup!SectionName
<1>1. /\ IsSeq(Backup!Sections) /\ Len(Backup!Sections) \in {2, 3}
      /\ DOMAIN Backup!Sections = 1 .. Len(Backup!Sections)
      /\ \A i \in DOMAIN Backup!Sections : Backup!Sections[i] \in Backup!SectionName
  <2>1. CASE type = "ufw"
    <3>1. Backup!Sections = <<"user", "user6", "before">>
      BY <2>1 DEF Backup!Sections
    <3>2. {"user", "user6", "before"} \subseteq Backup!SectionName
      BY DEF Backup!SectionName
    <3> QED
      BY <3>1, <3>2, ListOfThree
  <2>2. CASE type = "firewalld"
    <3>1. Backup!Sections = <<"zone", "direct">>
      BY <2>2 DEF Backup!Sections
    <3>2. {"zone", "direct"} \subseteq Backup!SectionName
      BY DEF Backup!SectionName
    <3> QED
      BY <3>1, <3>2, ListOfTwo
  <2>3. CASE type = "emareos"
    <3>1. Backup!Sections = <<"filter", "lists", "services">>
      BY <2>3 DEF Backup!Sections
    <3>2. {"filter", "lists", "services"} \subseteq Backup!SectionName
      BY DEF Backup!SectionName
    <3> QED
      BY <3>1, <3>2, ListOfThree
  <2> QED
    BY <2>1, <2>2, <2>3
<1> QED
  BY <1>1 DEF Backup!OfKind

LEMMA BackupProgram ==
  ASSUME type \in {"ufw", "firewalld", "emareos"}, NEW name
  PROVE  LET n == Len(Backup!Sections)  t == Backup!Backup(name)
         IN  /\ n \in Nat /\ IsSeq(t) /\ DOMAIN t = 1 .. n + 1 /\ Len(t) = n + 1 /\ t[n + 1] = <<"write", name>>
             /\ \A i \in 1 .. n : t[i] = <<"read", Backup!Sections[i]>> /\ i \in DOMAIN Backup!Sections
<1> DEFINE n == Len(Backup!Sections)
           r == [i \in DOMAIN Backup!Sections |-> <<"read", Backup!Sections[i]>>]
           S == {"read"} \X Backup!SectionName
<1>1. n \in Nat /\ DOMAIN Backup!Sections = 1 .. n
  BY KindSections
<1>2. r \in [1 .. n -> S]
  BY <1>1, KindSections
<1>3. r \in Seq(S) /\ Len(r) = n
  <2> HIDE DEF n, S, r
  <2> QED
    BY <1>1, <1>2
<1>4. IsSeq(r) /\ IsSeq(<<<<"write", name>>>>) /\ DOMAIN <<<<"write", name>>>> = {1}
  BY <1>3, SeqIsSeq, OneIsSeq
<1>5. Backup!Backup(name) = r \o <<<<"write", name>>>>
  BY DEF Backup!Backup
<1>6. \A i \in 1 .. n : r[i] = <<"read", Backup!Sections[i]>>
  BY <1>1
<1>7. DOMAIN r = 1 .. n /\ Len(<<<<"write", name>>>>) = 1 /\ <<<<"write", name>>>>[1] = <<"write", name>>
  BY <1>1
<1> HIDE DEF n, r, S
<1>8. /\ IsSeq(Backup!Backup(name)) /\ DOMAIN Backup!Backup(name) = 1 .. n + 1
      /\ \A i \in 1 .. n : Backup!Backup(name)[i] = r[i]
      /\ Backup!Backup(name)[n + 1] = <<"write", name>>
  BY <1>3, <1>4, <1>5, <1>7, ConcatIsSeq
<1>9. Len(Backup!Backup(name)) = n + 1
  BY <1>1, <1>8, SeqDomain
<1> QED
  BY <1>1, <1>6, <1>8, <1>9 DEF n

\* What is put back: the sections that were saved with content.
LEMMA RestoreProgram ==
  ASSUME type \in {"ufw", "firewalld", "emareos"}, NEW saved \in Configuration
  PROVE  /\ IsSeq(Backup!Restore(saved)) /\ AllAre(Backup!Restore(saved), "put")
         /\ \A j \in DOMAIN Backup!Restore(saved) : IsStep(Backup!Restore(saved)[j])
<1> DEFINE todo(s) == CASE saved[s] = None \/ s \notin Backup!Restored -> <<>>
                        [] saved[s] # None /\ s \in Backup!Restored /\ s = "filter" ->
                             <<<<"put", s, None>>, <<"put", s, saved[s]>>>>
                        [] OTHER -> <<<<"put", s, saved[s]>>>>
           Puts(t) == IsSeq(t) /\ AllAre(t, "put") /\ \A j \in DOMAIN t : IsStep(t[j])
<1>1. ASSUME NEW s \in Backup!SectionName PROVE Puts(todo(s))
  <2>1. saved[s] \in Content \cup {None}
    BY DEF Configuration
  <2>2. IsStep(<<"put", s, None>>) /\ IsStep(<<"put", s, saved[s]>>)
    BY <2>1 DEF IsStep
  <2>3. CASE saved[s] = None \/ s \notin Backup!Restored
    <3>1. todo(s) = <<>>
      BY <2>3
    <3> HIDE DEF todo
    <3> QED
      BY <3>1, EmptyIsSeq DEF AllAre
  <2>4. CASE saved[s] # None /\ s \in Backup!Restored /\ s = "filter"
    <3>1. todo(s) = <<<<"put", s, None>>, <<"put", s, saved[s]>>>>
      BY <2>4
    <3> HIDE DEF todo
    <3>2. PICK a, b : a = <<"put", s, None>> /\ b = <<"put", s, saved[s]>>
      OBVIOUS
    <3>3. a[1] = "put" /\ b[1] = "put" /\ IsStep(a) /\ IsStep(b) /\ todo(s) = <<a, b>>
      BY <2>2, <3>1, <3>2
    <3> QED
      BY <3>3, ListOfTwo DEF AllAre
  <2>5. CASE saved[s] # None /\ s \in Backup!Restored /\ s # "filter"
    <3>1. todo(s) = <<<<"put", s, saved[s]>>>>
      BY <2>5
    <3> HIDE DEF todo
    <3> QED
      BY <2>2, <3>1, OneIsSeq DEF AllAre
  <2> QED
    BY <2>3, <2>4, <2>5
<1>2. Backup!Restore(saved) = todo(Backup!Sections[1]) \o todo(Backup!Sections[2])
  BY DEF Backup!Restore
<1>3. Backup!Sections[1] \in Backup!SectionName /\ Backup!Sections[2] \in Backup!SectionName
  BY KindSections
<1> HIDE DEF todo
<1>a. Puts(todo(Backup!Sections[1])) /\ Puts(todo(Backup!Sections[2]))
  BY <1>1, <1>3
<1> HIDE DEF Puts
<1>4. PICK s, t : s = todo(Backup!Sections[1]) /\ t = todo(Backup!Sections[2]) /\ Puts(s) /\ Puts(t)
  BY <1>a
<1> USE DEF Puts
<1>5. Backup!Restore(saved) = s \o t
  BY <1>2, <1>4
<1>6. /\ IsSeq(s \o t)
      /\ \A j \in DOMAIN (s \o t) : \/ j \in DOMAIN s /\ (s \o t)[j] = s[j]
                                    \/ \E i \in DOMAIN t : (s \o t)[j] = t[i]
  <2>1. DOMAIN s = 1 .. Len(s) /\ DOMAIN t = 1 .. Len(t) /\ Len(s) \in Nat /\ Len(t) \in Nat
    BY <1>4, SeqDomain
  <2>2. /\ IsSeq(s \o t) /\ DOMAIN (s \o t) = 1 .. (Len(s) + Len(t))
        /\ \A i \in DOMAIN s : (s \o t)[i] = s[i]
        /\ \A i \in DOMAIN t : (s \o t)[Len(s) + i] = t[i]
    BY <1>4, ConcatIsSeq
  <2>3. ASSUME NEW j \in 1 .. (Len(s) + Len(t)), j > Len(s)
        PROVE  j - Len(s) \in DOMAIN t /\ (s \o t)[j] = t[j - Len(s)]
    <3>1. j - Len(s) \in DOMAIN t /\ Len(s) + (j - Len(s)) = j
      BY <2>1, <2>3
    <3> QED
      BY <2>2, <3>1
  <2> QED
    BY <2>1, <2>2, <2>3
<1> QED
  BY <1>4, <1>5, <1>6 DEF AllAre

LEMMA BackupInit == Backup!Init => BackupInv
<1> SUFFICES ASSUME Backup!Init PROVE BackupInv
  OBVIOUS
<1>1. /\ type \in {"ufw", "firewalld", "emareos"} /\ bfailures = 0 /\ bop = [o \in Operator |-> None]
      /\ files = [i \in Backup!Ids |-> None] /\ before = [i \in Backup!Ids |-> {}]
  BY DEF Backup!Init
<1>2. conf \in Configuration
  BY DEF Backup!Init, Configuration
<1>3. BackupCalls
  BY <1>1 DEF BackupCalls
<1>4. BackupFiles
  BY <1>1, <1>2, FS_EmptySet DEF BackupFiles
<1> QED
  BY <1>1, <1>3, <1>4 DEF BackupInv

LEMMA SectionsStay ==
  ASSUME type' = type
  PROVE  /\ Backup!Sections' = Backup!Sections /\ Backup!OfKind' = Backup!OfKind
         /\ \A a, b : Backup!Same(a, b)' <=> Backup!Same(a, b)
<1>1. Backup!Sections' = Backup!Sections
  BY DEF Backup!Sections
<1>2. Backup!OfKind' = Backup!OfKind
  BY <1>1 DEF Backup!OfKind
<1> QED
  BY <1>1, <1>2 DEF Backup!Same

LEMMA BackupCallStays ==
  ASSUME UNCHANGED <<type, conf>>, NEW q, BackupCall(q)
  PROVE  BackupCall(q)'
<1>1. \A w \in DOMAIN q.todo : Saving(q, w) => Saving(q, w)'
  BY SectionsStay DEF Saving
<1> QED
  BY <1>1 DEF BackupCall

LEMMA BackupGoes ==
  ASSUME BackupCalls, NEW o \in Operator, NEW new, bop' = [bop EXCEPT ![o] = new], UNCHANGED <<type, conf>>,
         new = None \/ BackupCall(new)
  PROVE  BackupCalls'
<1>1. ASSUME NEW q, BackupCall(q) PROVE BackupCall(q)'
  BY <1>1, BackupCallStays
<1>2. bop' = [p \in Operator |-> bop'[p]] /\ bop'[o] = new /\ \A p \in Operator \ {o} : bop'[p] = bop[p]
  BY DEF BackupCalls
<1>3. ASSUME NEW p \in Operator, bop'[p] # None PROVE BackupCall(bop[p])'
  <2>1. PICK q : q = bop'[p] /\ BackupCall(q)
    BY <1>2, <1>3 DEF BackupCalls
  <2> QED
    BY <1>1, <2>1
<1> QED
  BY <1>2, <1>3 DEF BackupCalls

\* A call goes on to its next command; what it reads is what there is.
LEMMA BackupTail ==
  ASSUME BackupFiles, NEW q, BackupCall(q), q.todo # <<>>,
         NEW new, DOMAIN new = BackupFields, new.todo = Tail(q.todo), new.what = q.what, new.id = q.id,
         new.start = q.start, NEW c, c = q.todo[1],
         new.read = IF c[1] = "read" THEN [q.read EXCEPT ![c[2]] = conf[c[2]]] ELSE q.read
  PROVE  BackupCall(new)
<1>1. /\ IsSeq(new.todo) /\ DOMAIN q.todo = 1 .. Len(q.todo) /\ DOMAIN new.todo = 1 .. (Len(q.todo) - 1)
      /\ Len(q.todo) \in Nat \ {0}
      /\ \A i \in DOMAIN new.todo : i + 1 \in DOMAIN q.todo /\ new.todo[i] = q.todo[i + 1]
  BY TailIsSeq, SeqDomain DEF BackupCall
<1>2. 1 \in DOMAIN q.todo /\ IsStep(c)
  BY <1>1 DEF BackupCall
<1>3. new.read \in Configuration
  BY <1>2 DEF BackupCall, BackupFiles, Configuration, IsStep
<1>4. \A j \in DOMAIN new.todo : IsStep(new.todo[j])
  BY <1>1 DEF BackupCall
<1>5. q.what = "backup" => \A j \in DOMAIN new.todo : new.todo[j][1] = "read" \/ new.todo[j] = <<"write", "auto">>
  BY <1>1 DEF BackupCall
<1>6. q.what = "delete" => AllAre(new.todo, "delete")
  BY <1>1 DEF BackupCall, AllAre
<1>7. ASSUME q.what = "restore"
      PROVE  AllAre(new.todo, "load") \/ AllAre(new.todo, "put") \/ \E w \in DOMAIN new.todo : Saving(new, w)
  <2>1. CASE AllAre(q.todo, "load") \/ AllAre(q.todo, "put")
    BY <1>1, <2>1 DEF AllAre
  <2>2. ASSUME NEW w \in DOMAIN q.todo, Saving(q, w)
        PROVE  AllAre(new.todo, "put") \/ \E v \in DOMAIN new.todo : Saving(new, v)
    <3>1. CASE w = 1
      BY <1>1, <2>2, <3>1 DEF Saving, AllAre
    <3>2. CASE w # 1
      <4>1. w - 1 \in DOMAIN new.todo /\ new.todo[w - 1] = <<"write", "pre_restore">>
        BY <1>1, <2>2, <3>2 DEF Saving
      <4>2. \A j \in DOMAIN new.todo : (j < w - 1 => new.todo[j][1] = "read") /\ (j > w - 1 => new.todo[j][1] = "put")
        BY <1>1, <2>2, <3>2 DEF Saving
      <4>3. c[1] = "read" /\ c[2] \in Backup!SectionName
        BY <1>1, <1>2, <2>2, <3>2 DEF Saving, IsStep
      <4>4. ASSUME q.start # None, NEW s \in Backup!OfKind
            PROVE  \/ new.read[s] = q.start[s]
                   \/ \E j \in DOMAIN new.todo : j < w - 1 /\ new.todo[j] = <<"read", s>>
        <5>1. conf = q.start
          BY <2>2, <4>4 DEF Saving
        <5>2. CASE s = c[2]
          BY <4>3, <5>1, <5>2 DEF BackupCall, Configuration
        <5>3. CASE s # c[2]
          <6>1. new.read[s] = q.read[s]
            BY <4>3, <5>3 DEF BackupCall, Configuration
          <6>2. \/ q.read[s] = q.start[s]
                \/ \E j \in DOMAIN q.todo : j < w /\ q.todo[j] = <<"read", s>>
            BY <2>2, <4>4 DEF Saving
          <6>3. ASSUME NEW j \in DOMAIN q.todo, j < w, q.todo[j] = <<"read", s>>
                PROVE  j - 1 \in DOMAIN new.todo /\ j - 1 < w - 1 /\ new.todo[j - 1] = <<"read", s>>
            <7>1. j # 1
              BY <5>3, <6>3
            <7>2. j - 1 \in DOMAIN new.todo /\ (j - 1) + 1 = j
              BY <1>1, <6>3, <7>1
            <7> QED
              BY <1>1, <6>3, <7>2
          <6> QED
            BY <6>1, <6>2, <6>3
        <5> QED
          BY <5>2, <5>3
      <4>5. q.start # None => conf = q.start
        BY <2>2 DEF Saving
      <4>6. Saving(new, w - 1)
        BY <4>1, <4>2, <4>4, <4>5 DEF Saving
      <4> QED
        BY <4>1, <4>6
    <3> QED
      BY <3>1, <3>2
  <2> QED
    BY <1>7, <2>1, <2>2 DEF BackupCall
<1> QED
  BY <1>1, <1>3, <1>4, <1>5, <1>6, <1>7 DEF BackupCall

\* The call of an operator that has a command to make.
LEMMA BackupCommand ==
  ASSUME BackupCalls, NEW o \in Operator, Backup!Busy(o), bop[o].todo # <<>>
  PROVE  /\ BackupCall(bop[o]) /\ Backup!Command(o) = bop[o].todo[1] /\ 1 \in DOMAIN bop[o].todo
         /\ DOMAIN bop[o] = BackupFields
<1>1. BackupCall(bop[o])
  BY DEF BackupCalls, Backup!Busy
<1>2. PICK t : t = bop[o].todo /\ IsSeq(t) /\ t # <<>>
  BY <1>1 DEF BackupCall
<1>3. 1 \in DOMAIN t /\ Head(t) = t[1]
  <2>1. DOMAIN t = 1 .. Len(t) /\ Len(t) \in Nat \ {0}
    BY <1>2, TailIsSeq, SeqDomain
  <2> QED
    BY <1>2, <2>1 DEF IsSeq
<1> QED
  BY <1>1, <1>2, <1>3 DEF Backup!Command, BackupCall

LEMMA BackupBegins ==
  ASSUME BackupCalls, type \in {"ufw", "firewalld", "emareos"}, NEW o \in Operator,
         \/ Backup!Begin(o, "backup", None)
         \/ \E i \in Backup!Ids, w \in {"restore", "delete"} : Backup!Begin(o, w, i)
  PROVE  BackupCalls'
<1>1. PICK what, id : /\ what \in {"backup", "restore", "delete"}
                      /\ Backup!Begin(o, what, id) /\ (what = "restore" => id \in Backup!Ids)
  OBVIOUS
<1> DEFINE todo == CASE what = "backup" -> Backup!Backup("auto")
                     [] what = "restore" -> <<<<"load", id>>>>
                     [] what = "delete" -> <<<<"delete", id>>>>
           new == [what |-> what, id |-> id, own |-> None, read |-> Backup!Nothing, start |-> None,
                   ok |-> TRUE, todo |-> todo]
<1>2. bop' = [bop EXCEPT ![o] = new] /\ UNCHANGED <<type, conf>>
  BY <1>1 DEF Backup!Begin
<1>3. /\ IsSeq(todo) /\ \A j \in DOMAIN todo : IsStep(todo[j])
      /\ what = "backup" => \A j \in DOMAIN todo : todo[j][1] = "read" \/ todo[j] = <<"write", "auto">>
      /\ what = "delete" => AllAre(todo, "delete")
      /\ what = "restore" => AllAre(todo, "load")
  <2>1. CASE what = "backup"
    <3>1. todo = Backup!Backup("auto")
      BY <2>1
    <3>2. PICK n, t : /\ n \in Nat /\ t = Backup!Backup("auto") /\ IsSeq(t) /\ DOMAIN t = 1 .. n + 1
                              /\ t[n + 1] = <<"write", "auto">> /\ n = Len(Backup!Sections)
                              /\ \A i \in 1 .. n : t[i] = <<"read", Backup!Sections[i]>> /\ i \in DOMAIN Backup!Sections
      BY BackupProgram
    <3> HIDE DEF todo
    <3>3. ASSUME NEW j \in DOMAIN t
          PROVE  IsStep(t[j]) /\ (t[j][1] = "read" \/ t[j] = <<"write", "auto">>)
      <4>1. CASE j = n + 1
        BY <3>2, <4>1 DEF IsStep
      <4>2. CASE j \in 1 .. n
        BY <3>2, <4>2, KindSections DEF IsStep
      <4> QED
        BY <3>2, <4>1, <4>2
    <3> QED
      BY <2>1, <3>1, <3>2, <3>3
  <2>2. CASE what = "restore"
    <3>1. todo = <<<<"load", id>>>>
      BY <2>2
    <3> HIDE DEF todo
    <3> QED
      BY <2>2, <3>1, OneIsSeq DEF IsStep, AllAre
  <2>3. CASE what = "delete"
    <3>1. todo = <<<<"delete", id>>>>
      BY <2>3
    <3> HIDE DEF todo
    <3> QED
      BY <2>3, <3>1, OneIsSeq DEF IsStep, AllAre
  <2> HIDE DEF todo
  <2> QED
    BY <1>1, <2>1, <2>2, <2>3
<1>4. Backup!Nothing \in Configuration
  BY DEF Backup!Nothing, Configuration
<1> HIDE DEF todo
<1>5. DOMAIN new = BackupFields /\ new.what = what /\ new.id = id /\ new.read = Backup!Nothing /\ new.todo = todo
  BY DEF BackupFields
<1> HIDE DEF new
<1>6. BackupCall(new)
  BY <1>1, <1>3, <1>4, <1>5 DEF BackupCall
<1> QED
  BY <1>2, <1>6, BackupGoes

\* The restore reads what it is to put back: first it makes a backup of its own.
LEMMA BackupLoads ==
  ASSUME BackupCalls, BackupFiles, type \in {"ufw", "firewalld", "emareos"},
         NEW o \in Operator, Backup!Load(o)
  PROVE  BackupCalls'
<1>1. Backup!Busy(o) /\ bop[o].todo # <<>> /\ Backup!Command(o)[1] = "load" /\ UNCHANGED <<type, conf>>
  BY DEF Backup!Load, Backup!Doing
<1>2. PICK q : q = bop[o]
  OBVIOUS
<1>3. BackupCall(q) /\ q.todo[1][1] = "load" /\ 1 \in DOMAIN q.todo
  BY <1>1, <1>2, BackupCommand
<1>4. q.what = "restore" /\ q.id \in Backup!Ids
  BY <1>3 DEF BackupCall, AllAre
<1>5. CASE files[q.id] = None
  <2>1. bop' = [bop EXCEPT ![o] = None]
    BY <1>2, <1>5 DEF Backup!Load
  <2> QED
    BY <1>1, <2>1, BackupGoes
<1>6. CASE files[q.id] # None
  <2>1. files[q.id] \in Configuration
    BY <1>4, <1>6 DEF BackupFiles
  <2>2. PICK n, t : /\ n \in Nat /\ t = Backup!Backup("pre_restore") /\ IsSeq(t) /\ DOMAIN t = 1 .. n + 1 /\ Len(t) = n + 1
                            /\ t[n + 1] = <<"write", "pre_restore">> /\ n = Len(Backup!Sections)
                            /\ \A i \in 1 .. n : t[i] = <<"read", Backup!Sections[i]>> /\ i \in DOMAIN Backup!Sections
    BY BackupProgram
  <2>3. PICK u : /\ u = Backup!Restore(files[q.id]) /\ IsSeq(u) /\ AllAre(u, "put")
                 /\ \A j \in DOMAIN u : IsStep(u[j])
    BY <2>1, RestoreProgram
  <2> DEFINE new == [q EXCEPT !.start = conf, !.todo = t \o u]
  <2>4. bop' = [bop EXCEPT ![o] = new]
    BY <1>2, <1>6, <2>2, <2>3 DEF Backup!Load
  <2>5. /\ IsSeq(t \o u) /\ DOMAIN (t \o u) = 1 .. (n + 1 + Len(u)) /\ Len(u) \in Nat
        /\ \A i \in 1 .. n + 1 : (t \o u)[i] = t[i]
        /\ \A i \in DOMAIN u : (t \o u)[n + 1 + i] = u[i]
    <3>1. DOMAIN t = 1 .. n + 1 /\ Len(t) = n + 1 /\ Len(u) \in Nat
      BY <2>2, <2>3, SeqDomain
    <3>2. IsSeq(t) /\ IsSeq(u)
      BY <2>2, <2>3
    <3>3. /\ IsSeq(t \o u) /\ DOMAIN (t \o u) = 1 .. (Len(t) + Len(u))
          /\ \A i \in DOMAIN t : (t \o u)[i] = t[i]
          /\ \A i \in DOMAIN u : (t \o u)[Len(t) + i] = u[i]
      BY <3>2, ConcatIsSeq
    <3> QED
      BY <3>1, <3>3
  <2>6. PICK v : v = t \o u
    OBVIOUS
  <2>7. /\ DOMAIN new = BackupFields /\ new.what = "restore" /\ new.id = q.id /\ new.read = q.read
        /\ new.start = conf /\ new.todo = v
    BY <1>3, <1>4, <2>6 DEF BackupCall, BackupFields
  <2> HIDE DEF new
  <2>8. ASSUME NEW j \in DOMAIN v
        PROVE  /\ IsStep(v[j]) /\ (j < n + 1 => v[j][1] = "read") /\ (j > n + 1 => v[j][1] = "put")
    <3>1. n \in Nat /\ j \in Int /\ 1 <= j /\ j <= n + 1 + Len(u) /\ Len(u) \in Nat
      BY <2>2, <2>5, <2>6
    <3>2. CASE j \in 1 .. n
      <4>1. t[j] = <<"read", Backup!Sections[j]>> /\ j \in DOMAIN Backup!Sections
        BY <2>2, <3>2
      <4>2. v[j] = t[j]
        BY <2>5, <2>6, <3>1, <3>2
      <4>3. PICK s \in Backup!SectionName : s = Backup!Sections[j]
        BY <4>1, KindSections
      <4>4. v[j] = <<"read", s>>
        BY <4>1, <4>2, <4>3
      <4> QED
        BY <3>1, <3>2, <4>4 DEF IsStep
    <3>3. CASE j = n + 1
      <4>1. v[j] = <<"write", "pre_restore">>
        BY <2>2, <2>5, <2>6, <3>1, <3>3
      <4> QED
        BY <3>1, <3>3, <4>1 DEF IsStep
    <3>4. CASE j > n + 1
      <4>1. PICK k : k = j - (n + 1)
        OBVIOUS
      <4>2. k \in DOMAIN u /\ n + 1 + k = j
        <5>1. DOMAIN u = 1 .. Len(u)
          BY <2>3, SeqDomain
        <5> QED
          BY <3>1, <3>4, <4>1, <5>1
      <4>3. v[j] = u[k]
        BY <2>5, <2>6, <4>2
      <4> QED
        BY <2>3, <3>1, <3>4, <4>2, <4>3 DEF AllAre
    <3> QED
      BY <3>1, <3>2, <3>3, <3>4
  <2>9. n + 1 \in DOMAIN v /\ v[n + 1] = <<"write", "pre_restore">>
    BY <2>2, <2>5, <2>6
  <2>10. ASSUME NEW s \in Backup!OfKind PROVE \E j \in DOMAIN v : j < n + 1 /\ v[j] = <<"read", s>>
    <3>1. PICK j \in DOMAIN Backup!Sections : s = Backup!Sections[j]
      BY DEF Backup!OfKind
    <3>2. j \in 1 .. n
      BY <2>2, <3>1, KindSections
    <3> QED
      BY <2>2, <2>5, <2>6, <3>1, <3>2
  <2>11. Saving(new, n + 1)
    BY <2>7, <2>8, <2>9, <2>10 DEF Saving
  <2>12. BackupCall(new)
    BY <1>3, <1>4, <2>5, <2>6, <2>7, <2>8, <2>9, <2>11 DEF BackupCall
  <2> QED
    BY <1>1, <2>4, <2>12, BackupGoes
<1> QED
  BY <1>5, <1>6

LEMMA BackupReads ==
  ASSUME BackupCalls, BackupFiles, NEW o \in Operator, Backup!Read(o)
  PROVE  BackupCalls'
<1>1. Backup!Busy(o) /\ bop[o].todo # <<>> /\ Backup!Command(o)[1] = "read" /\ UNCHANGED <<type, conf>>
  BY DEF Backup!Read, Backup!Doing
<1>2. PICK q, c : q = bop[o] /\ c = Backup!Command(o)
  OBVIOUS
<1>3. BackupCall(q) /\ c = q.todo[1] /\ c[1] = "read" /\ DOMAIN q = BackupFields
  BY <1>1, <1>2, BackupCommand
<1> DEFINE new == [[q EXCEPT !.read[c[2]] = conf[c[2]], !.own = Backup!Own(o)] EXCEPT !.todo = Tail(@)]
<1>4. bop' = [bop EXCEPT ![o] = new]
  BY <1>2 DEF Backup!Read, Backup!Next1
<1>5. /\ DOMAIN new = BackupFields /\ new.todo = Tail(q.todo) /\ new.what = q.what /\ new.id = q.id
      /\ new.start = q.start /\ new.read = [q.read EXCEPT ![c[2]] = conf[c[2]]]
  BY <1>3 DEF BackupFields
<1> HIDE DEF new
<1>6. BackupCall(new)
  BY <1>1, <1>2, <1>3, <1>5, BackupTail
<1> QED
  BY <1>1, <1>4, <1>6, BackupGoes

\* A command that reads nothing and leaves the firewall alone.
LEMMA BackupGoesOn ==
  ASSUME BackupCalls, BackupFiles, NEW o \in Operator, Backup!Busy(o), bop[o].todo # <<>>,
         Backup!Command(o)[1] # "read", Backup!Next1(o, bop[o]), UNCHANGED <<type, conf>>
  PROVE  BackupCalls'
<1>1. PICK q, c : q = bop[o] /\ c = Backup!Command(o)
  OBVIOUS
<1>2. BackupCall(q) /\ c = q.todo[1] /\ c[1] # "read" /\ DOMAIN q = BackupFields
  BY <1>1, BackupCommand
<1> DEFINE new == [q EXCEPT !.todo = Tail(@)]
<1>3. bop' = [bop EXCEPT ![o] = new]
  BY <1>1 DEF Backup!Next1
<1>4. /\ DOMAIN new = BackupFields /\ new.todo = Tail(q.todo) /\ new.what = q.what /\ new.id = q.id
      /\ new.start = q.start /\ new.read = q.read
  BY <1>2 DEF BackupFields
<1> HIDE DEF new
<1>5. BackupCall(new)
  BY <1>1, <1>2, <1>4, BackupTail
<1> QED
  BY <1>3, <1>5, BackupGoes

LEMMA BackupWrites ==
  ASSUME BackupCalls, BackupFiles, NEW o \in Operator, Backup!Write(o)
  PROVE  BackupCalls' /\ BackupFiles'
<1> DEFINE id == <<Backup!Command(o)[2], Backup!Own(o)>>
<1>1. /\ Backup!Busy(o) /\ bop[o].todo # <<>> /\ Backup!Command(o)[1] = "write" /\ UNCHANGED <<type, conf>>
      /\ Backup!Next1(o, bop[o])
      /\ files' = [files EXCEPT ![id] = bop[o].read]
      /\ before' = IF bop[o].what = "restore" THEN [before EXCEPT ![id] = @ \cup {bop[o].start}] ELSE before
  BY DEF Backup!Write, Backup!Doing
<1>2. BackupCalls'
  BY <1>1, BackupGoesOn
<1>3. PICK q, c, i : q = bop[o] /\ c = Backup!Command(o) /\ i = id
  OBVIOUS
<1>4. BackupCall(q) /\ c = q.todo[1] /\ 1 \in DOMAIN q.todo /\ c[1] = "write" /\ i[1] = c[2]
  BY <1>1, <1>3, BackupCommand
<1> HIDE DEF id
<1>5. q.read \in Configuration
  BY <1>4 DEF BackupCall
<1>6. /\ files' \in [Backup!Ids -> {None} \cup Configuration]
      /\ \A j \in Backup!Ids : files'[j] = IF j = i THEN q.read ELSE files[j]
  BY <1>1, <1>3, <1>5 DEF BackupFiles
<1>7. CASE q.what = "backup"
  <2>1. c = <<"write", "auto">>
    BY <1>4, <1>7 DEF BackupCall
  <2>2. before' = before /\ i[1] = "auto"
    BY <1>1, <1>3, <1>4, <1>7, <2>1
  <2>3. \A j \in Backup!Ids : before[j] # {} => j # i
    BY <2>2 DEF BackupFiles
  <2>4. ASSUME NEW j \in Backup!Ids, NEW d, d # None, before'[j] = {d}
        PROVE  files'[j] \in Configuration /\ Backup!Same(files[j], d)'
    <3>1. before[j] = {d} /\ files'[j] = files[j]
      BY <1>6, <2>2, <2>3, <2>4
    <3>2. files[j] \in Configuration /\ Backup!Same(files[j], d)
      BY <2>4, <3>1 DEF BackupFiles
    <3>3. Backup!Same(files[j], d)'
      <4>1. \A s \in Backup!OfKind : files[j][s] = d[s]
        BY <3>2 DEF Backup!Same
      <4>2. Backup!OfKind' = Backup!OfKind
        BY <1>1, SectionsStay
      <4>3. \A s \in Backup!OfKind' : files'[j][s] = d[s]
        BY <3>1, <4>1, <4>2
      <4> QED
        BY <4>3 DEF Backup!Same
    <3> QED
      BY <3>1, <3>2, <3>3
  <2> QED
    BY <1>1, <1>2, <1>6, <2>2, <2>4 DEF BackupFiles
<1>8. CASE q.what = "delete"
  BY <1>4, <1>8 DEF BackupCall, AllAre
<1>9. CASE q.what = "restore"
  <2>1. PICK w \in DOMAIN q.todo : Saving(q, w)
    BY <1>4, <1>9 DEF BackupCall, AllAre
  <2>2. w = 1
    <3>1. IsSeq(q.todo)
      BY <1>4 DEF BackupCall
    <3>2. w \in Nat /\ 1 <= w
      BY <2>1, <3>1, SeqDomain
    <3> QED
      BY <1>4, <2>1, <3>2 DEF Saving
  <2>3. c = <<"write", "pre_restore">>
    BY <1>4, <2>1, <2>2 DEF Saving
  <2>4. q.start # None => \A s \in Backup!OfKind : q.read[s] = q.start[s]
    <3>1. IsSeq(q.todo)
      BY <1>4 DEF BackupCall
    <3>2. \A j \in DOMAIN q.todo : ~(j < 1)
      BY <3>1, SeqDomain
    <3> QED
      BY <2>1, <2>2, <3>2 DEF Saving
  <2>5. \A j \in Backup!Ids : before'[j] = IF j = i THEN before[j] \cup {q.start} ELSE before[j]
    BY <1>1, <1>3, <1>9 DEF BackupFiles
  <2>6. DOMAIN before' = Backup!Ids
    BY <1>1, <1>3, <1>9 DEF BackupFiles
  <2>7. \A j \in Backup!Ids : IsFiniteSet(before'[j]) /\ (before'[j] # {} => j[1] = "pre_restore")
    <3>1. i[1] = "pre_restore"
      BY <1>4, <2>3
    <3>2. \A j \in Backup!Ids : IsFiniteSet(before[j] \cup {q.start})
      BY FS_AddElement DEF BackupFiles
    <3> QED
      BY <2>5, <3>1, <3>2 DEF BackupFiles
  <2>8. ASSUME NEW j \in Backup!Ids, NEW d, d # None, before'[j] = {d}
        PROVE  files'[j] \in Configuration /\ Backup!Same(files[j], d)'
    <3>1. CASE j # i
      <4>1. before[j] = {d} /\ files'[j] = files[j]
        BY <1>6, <2>5, <2>8, <3>1
      <4> QED
        BY <1>1, <2>8, <4>1, SectionsStay DEF BackupFiles, Backup!Same
    <3>2. CASE j = i
      <4>1. d = q.start /\ files'[j] = q.read
        BY <1>6, <2>5, <2>8, <3>2
      <4> QED
        BY <1>1, <1>5, <2>4, <2>8, <4>1, SectionsStay DEF Backup!Same
    <3> QED
      BY <3>1, <3>2
  <2> QED
    BY <1>1, <1>2, <1>6, <2>6, <2>7, <2>8 DEF BackupFiles
<1> QED
  BY <1>4, <1>7, <1>8, <1>9 DEF BackupCall

LEMMA BackupDeletes ==
  ASSUME BackupCalls, BackupFiles, NEW o \in Operator, Backup!Delete(o)
  PROVE  BackupCalls' /\ BackupFiles'
<1>1. /\ Backup!Busy(o) /\ bop[o].todo # <<>> /\ Backup!Command(o)[1] = "delete" /\ UNCHANGED <<type, conf>>
      /\ Backup!Next1(o, bop[o])
      /\ files' = [files EXCEPT ![bop[o].id] = None] /\ before' = [before EXCEPT ![bop[o].id] = {}]
  BY DEF Backup!Delete, Backup!Doing
<1>2. BackupCalls'
  BY <1>1, BackupGoesOn
<1>3. /\ files' \in [Backup!Ids -> {None} \cup Configuration] /\ DOMAIN before' = Backup!Ids
      /\ \A i \in Backup!Ids : (files'[i] = files[i] /\ before'[i] = before[i]) \/ before'[i] = {}
  BY <1>1 DEF BackupFiles
<1>4. \A i \in Backup!Ids : IsFiniteSet(before'[i]) /\ (before'[i] # {} => i[1] = "pre_restore")
  BY <1>3, FS_EmptySet DEF BackupFiles
<1>5. ASSUME NEW j \in Backup!Ids, NEW d, d # None, before'[j] = {d}
      PROVE  files'[j] \in Configuration /\ Backup!Same(files[j], d)'
  <2>1. before[j] = {d} /\ files'[j] = files[j]
    BY <1>3, <1>5
  <2> QED
    BY <1>1, <1>5, <2>1, SectionsStay DEF BackupFiles, Backup!Same
<1> QED
  BY <1>1, <1>2, <1>3, <1>4, <1>5 DEF BackupFiles

\* The firewall changes: whoever has begun before does not know its start any more.
LEMMA BackupDisturbed ==
  ASSUME NEW q, BackupCall(q), type' = type
  PROVE  BackupCall([q EXCEPT !.start = None])'
<1> DEFINE new == [q EXCEPT !.start = None]
<1>1. /\ DOMAIN new = BackupFields /\ new.todo = q.todo /\ new.what = q.what /\ new.id = q.id
      /\ new.start = None /\ new.read = q.read
  BY DEF BackupCall, BackupFields
<1> HIDE DEF new
<1>2. \A w \in DOMAIN q.todo : Saving(q, w) => Saving(new, w)'
  BY <1>1 DEF Saving
<1>3. BackupCall(new)'
  BY <1>1, <1>2 DEF BackupCall
<1> QED
  BY <1>3 DEF new

\* The files stay as they are.
LEMMA BackupFilesStay ==
  ASSUME BackupFiles, UNCHANGED <<type, files, before>>, conf' \in Configuration
  PROVE  BackupFiles'
  BY SectionsStay DEF BackupFiles, Backup!Same

LEMMA BackupPuts ==
  ASSUME BackupCalls, BackupFiles, NEW o \in Operator, Backup!Put(o)
  PROVE  BackupCalls' /\ BackupFiles'
<1>1. /\ Backup!Busy(o) /\ bop[o].todo # <<>> /\ Backup!Command(o)[1] = "put" /\ UNCHANGED <<type, files, before>>
      /\ conf' = [conf EXCEPT ![Backup!Command(o)[2]] = Backup!Command(o)[3]]
      /\ bop' = [Backup!Disturbed(o) EXCEPT ![o].todo = Tail(@)]
  BY DEF Backup!Put, Backup!Doing
<1>2. PICK q, c : q = bop[o] /\ c = Backup!Command(o)
  OBVIOUS
<1>3. BackupCall(q) /\ c = q.todo[1] /\ c[1] = "put" /\ DOMAIN q = BackupFields /\ 1 \in DOMAIN q.todo
  BY <1>1, <1>2, BackupCommand
<1>4. c[2] \in Backup!SectionName /\ c[3] \in Content \cup {None}
  BY <1>3 DEF BackupCall, IsStep
<1>5. conf' \in Configuration
  BY <1>1, <1>2, <1>4 DEF BackupFiles, Configuration
<1>6. q.what = "restore" /\ AllAre(q.todo, "put")
  <2>1. q.what = "restore"
    BY <1>3 DEF BackupCall, AllAre
  <2>2. ASSUME NEW w \in DOMAIN q.todo, Saving(q, w) PROVE FALSE
    <3>1. IsSeq(q.todo)
      BY <1>3 DEF BackupCall
    <3>2. w \in Nat /\ 1 <= w
      BY <2>2, <3>1, SeqDomain
    <3> QED
      BY <1>3, <2>2, <3>2 DEF Saving
  <2> QED
    BY <1>3, <2>1, <2>2 DEF BackupCall, AllAre
<1> DEFINE new == [q EXCEPT !.todo = Tail(@)]
<1>7. /\ bop' = [p \in Operator |-> bop'[p]] /\ bop'[o] = new
      /\ \A p \in Operator \ {o} : bop'[p] = IF bop[p] # None THEN [bop[p] EXCEPT !.start = None] ELSE None
  BY <1>1, <1>2 DEF Backup!Disturbed, Backup!Busy
<1>8. /\ DOMAIN new = BackupFields /\ new.todo = Tail(q.todo) /\ new.what = q.what /\ new.id = q.id
      /\ new.read = q.read
  BY <1>3 DEF BackupFields
<1> HIDE DEF new
<1>9. BackupCall(new)'
  <2>1. /\ IsSeq(new.todo)
        /\ \A i \in DOMAIN new.todo : i + 1 \in DOMAIN q.todo /\ new.todo[i] = q.todo[i + 1]
    BY <1>1, <1>2, <1>3, <1>8, TailIsSeq DEF BackupCall
  <2>2. AllAre(new.todo, "put") /\ \A j \in DOMAIN new.todo : IsStep(new.todo[j])
    BY <1>3, <1>6, <2>1 DEF AllAre, BackupCall
  <2> QED
    BY <1>3, <1>6, <1>8, <2>1, <2>2 DEF BackupCall
<1>10. ASSUME NEW p \in Operator, bop'[p] # None PROVE BackupCall(bop[p])'
  <2>1. CASE p = o
    BY <1>7, <1>9, <2>1
  <2>2. CASE p # o
    <3>1. PICK r : r = bop[p] /\ BackupCall(r) /\ bop'[p] = [r EXCEPT !.start = None]
      BY <1>7, <1>10, <2>2 DEF BackupCalls
    <3> QED
      BY <1>1, <3>1, BackupDisturbed
  <2> QED
    BY <2>1, <2>2
<1> QED
  BY <1>1, <1>5, <1>7, <1>10, BackupFilesStay DEF BackupCalls

LEMMA BackupEdits ==
  ASSUME BackupCalls, BackupFiles, type \in {"ufw", "firewalld", "emareos"},
         NEW s \in Backup!SectionName, NEW c \in Content \cup {None}, Backup!Edit(s, c)
  PROVE  BackupCalls' /\ BackupFiles'
<1>1. /\ UNCHANGED <<type, files, before>> /\ conf' = [conf EXCEPT ![s] = c]
      /\ bop' = [p \in Operator |-> IF bop[p] # None THEN [bop[p] EXCEPT !.start = None] ELSE None]
  BY DEF Backup!Edit, Backup!Busy
<1>2. conf' \in Configuration
  BY <1>1 DEF BackupFiles, Configuration
<1>3. bop' = [p \in Operator |-> bop'[p]]
  BY <1>1
<1>4. ASSUME NEW p \in Operator, bop'[p] # None PROVE BackupCall(bop[p])'
  <2>1. PICK r : r = bop[p] /\ BackupCall(r) /\ bop'[p] = [r EXCEPT !.start = None]
    BY <1>1, <1>4 DEF BackupCalls
  <2> QED
    BY <1>1, <2>1, BackupDisturbed
<1> QED
  BY <1>1, <1>2, <1>3, <1>4, BackupFilesStay DEF BackupCalls

LEMMA BackupStep == BackupInv /\ [Backup!Next]_(Backup!vars) => BackupInv'
<1> SUFFICES ASSUME BackupInv, [Backup!Next]_(Backup!vars) PROVE BackupInv'
  OBVIOUS
<1>1. bfailures \in Nat /\ type \in {"ufw", "firewalld", "emareos"} /\ (bfailures = 0 => BackupCalls /\ BackupFiles)
  BY DEF BackupInv
<1>2. ASSUME NEW o \in Operator, Backup!Fail(o) PROVE BackupInv'
  <2>1. bfailures' = bfailures + 1 /\ type' = type
    BY <1>2 DEF Backup!Fail
  <2> QED
    BY <1>1, <2>1 DEF BackupInv
<1>3. SUFFICES ASSUME UNCHANGED <<bfailures, type>>, bfailures = 0, BackupCalls, BackupFiles,
                      \A o \in Operator : ~ Backup!Fail(o)
               PROVE  BackupCalls' /\ BackupFiles'
  <2>1. (\A o \in Operator : ~ Backup!Fail(o)) => UNCHANGED <<bfailures, type>>
    BY DEF Backup!Next, Backup!vars, Backup!Begin, Backup!Load, Backup!Read, Backup!Write, Backup!Put,
       Backup!Delete, Backup!Answer, Backup!Edit, Backup!Tick
  <2> QED
    BY <1>1, <1>2, <2>1 DEF BackupInv
<1>4. ASSUME NEW o \in Operator, \/ Backup!Begin(o, "backup", None)
                                 \/ \E i \in Backup!Ids, w \in {"restore", "delete"} : Backup!Begin(o, w, i)
      PROVE  BackupCalls' /\ BackupFiles'
  <2>1. UNCHANGED <<type, files, before, conf>>
    BY <1>4 DEF Backup!Begin
  <2>2. BackupFiles'
    BY <1>3, <2>1, BackupFilesStay DEF BackupFiles
  <2> QED
    BY <1>1, <1>3, <1>4, <2>2, BackupBegins
<1>5. ASSUME NEW o \in Operator, Backup!Load(o) \/ Backup!Read(o) PROVE BackupCalls' /\ BackupFiles'
  <2>1. UNCHANGED <<type, files, before, conf>>
    BY <1>5 DEF Backup!Load, Backup!Read
  <2>2. BackupFiles'
    BY <1>3, <2>1, BackupFilesStay DEF BackupFiles
  <2> QED
    BY <1>1, <1>3, <1>5, <2>2, BackupLoads, BackupReads
<1>6. ASSUME NEW o \in Operator, Backup!Answer(o) PROVE BackupCalls' /\ BackupFiles'
  <2>1. UNCHANGED <<type, files, before, conf>> /\ bop' = [bop EXCEPT ![o] = None]
    BY <1>6 DEF Backup!Answer
  <2> QED
    BY <1>3, <2>1, BackupFilesStay, BackupGoes DEF BackupFiles
<1>7. CASE Backup!Tick \/ UNCHANGED Backup!vars
  <2>1. UNCHANGED <<type, files, before, conf, bop>>
    BY <1>7 DEF Backup!Tick, Backup!vars
  <2>2. ASSUME NEW q, BackupCall(q) PROVE BackupCall(q)'
    BY <2>1, <2>2, BackupCallStays
  <2>3. BackupCalls'
    BY <1>3, <2>1, <2>2 DEF BackupCalls
  <2> QED
    BY <1>3, <2>1, <2>3, BackupFilesStay DEF BackupFiles
<1>8. ASSUME NEW i \in DOMAIN Backup!Sections, NEW c \in Content \cup {None}, Backup!Edit(Backup!Sections[i], c)
      PROVE  BackupCalls' /\ BackupFiles'
  BY <1>1, <1>3, <1>8, KindSections, BackupEdits
<1> QED
  BY <1>3, <1>4, <1>5, <1>6, <1>7, <1>8, BackupWrites, BackupDeletes, BackupPuts DEF Backup!Next

\* For any number of operators, calls, contents and seconds: what a restore found when it began is in
\* its own backup, unless another restore of that second, a failure or a change came between.
THEOREM RestoreUndoable == FirewallSpec => []RestoreIsUndoable
<1>1. FirewallInit => BackupInv
  BY BackupInit DEF FirewallInit
<1>2. BackupInv /\ [FirewallNext]_firewallVars => BackupInv'
  <2>1. FirewallNext => [Backup!Next]_(Backup!vars)
    BY DEF FirewallNext, backupVars, Backup!vars
  <2>2. UNCHANGED firewallVars => UNCHANGED Backup!vars
    BY DEF firewallVars, backupVars, Backup!vars
  <2> QED
    BY <2>1, <2>2, BackupStep
<1>3. BackupInv => RestoreIsUndoable
  <2> SUFFICES ASSUME BackupInv, bfailures = 0, NEW i \in Backup!Ids, NEW c \in before[i], c # None,
                      Backup!Cardinality(before[i]) = 1
               PROVE  files[i] # None /\ Backup!Same(files[i], c)
    BY DEF RestoreIsUndoable, Backup!RestoreIsUndoable
  <2>1. Backup!Cardinality(before[i]) = Cardinality(before[i])
    BY Zenon DEF Backup!Cardinality, Cardinality
  <2>2. IsFiniteSet(before[i])
    BY DEF BackupInv, BackupFiles
  <2>3. PICK d : before[i] = {d}
    BY <2>1, <2>2, FS_Singleton
  <2>4. before[i] = {c}
    BY <2>3
  <2> QED
    BY <2>4, BackupConstants DEF BackupInv, BackupFiles
<1> QED
  BY <1>1, <1>2, <1>3, PTL DEF FirewallSpec
=============================================================================
