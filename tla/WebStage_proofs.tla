--------------------------- MODULE WebStage_proofs ---------------------------
(***************************************************************************)
(* Proofs about webui.py's requests over server_api, for any number of     *)
(* sessions and requests and any sets of users.                            *)
(*                                                                         *)
(* The inductive invariant says at each point of a request which line the  *)
(* program waits for and as whom it runs.  It is about reads that are over *)
(* in time: after one that was not, only the two locks keep their promise. *)
(***************************************************************************)
EXTENDS WebStage, SequenceTheorems, TLAPS

-----------------------------------------------------------------------------
(* Types *)

Lines == Names \cup {None, "1", "2", "secret", "logout", "send", "other"}
Words == {"ask>", "menu>", "@app>", "invalid", "logged_in", "authenticating", "running",
          "unknown", "response"}
Entries == [line : Lines, by : Requests]
Output == Words \X (Requests \cup {Nobody})
Modes == {"menu", "user", "password", "new_user", "new_password", "adding", "app", "busy",
          "gone"}
Points == {"idle", "stage", "lock", "start", "write", "read", "unlock", "restore", "answer",
           "done"}
Kinds == Commands \cup {"login", "signup", "logout", None}

Types ==
  /\ TypeOK
  /\ lock \in [Sessions -> Requests \cup {Nobody}]
  /\ as \in [Sessions -> Lines]
  /\ by \in [Sessions -> Requests \cup {Nobody}]
  /\ in \in [Sessions -> Seq(Entries)]
  /\ out \in [Sessions -> Seq(Output)]
  /\ of \in [Requests -> Sessions \cup {0}]
  /\ kind \in [Requests -> Kinds]
  /\ who \in [Requests -> Names \cup {None}]
  /\ todo \in [Requests -> Seq(Lines)]
  /\ last \in [Requests -> Words \cup {None}]
  /\ seen \in [Requests -> SUBSET Output]
  /\ sender \in [Requests -> {None, "started", "over"}]
  /\ asked \in [Requests -> Users \cup {None}]
  /\ ran \in [Requests -> Lines]
  /\ sent \in [Requests -> Requests \cup {Nobody, Orig}]
  /\ orig \in {Nobody, Orig}
  /\ \A r \in Requests : kind[r] = "login" => who[r] \in Users

-----------------------------------------------------------------------------
(* Who has the stage and the locks *)

Staged(r) == kind[r] = "send" /\ pc[r] \in {"lock", "start", "write", "read", "unlock"}

Staging ==
  /\ \A r \in Requests : /\ pc[r] \in {"stage", "restore"} => kind[r] = "send"
                         /\ Staged(r) => stage = r /\ file = r
                         /\ pc[r] = "restore" => stage = r
                         /\ Staged(r) \/ pc[r] = "restore" => (r \in backup <=> orig = Orig)
                         /\ r \in backup => Staged(r) \/ pc[r] = "restore"
  /\ stage = Nobody => file = orig

Holding(r) == pc[r] \in {"start", "write", "read", "unlock"}

Locking ==
  /\ \A r \in Requests : /\ pc[r] # "idle" => of[r] \in Sessions
                         /\ pc[r] \notin {"idle", "done"} => kind[r] # None
                         /\ pc[r] = "write" => todo[r] # <<>>
  /\ \A s \in Sessions, r \in Requests : lock[s] = r <=> Holding(r) /\ of[r] = s

-----------------------------------------------------------------------------
(* A session, while every read was over when the program was through *)

\* Nothing is on its way to the program or from it.
Quiet(s) == in[s] = <<>> /\ out[s] = <<>> /\ at[s] \notin {"busy", "adding"}

\* The program has the user whom the browser shows, or is at its first menu.
Settled(s) ==
  /\ at[s] \in {"menu", "app", "gone"}
  /\ at[s] = "app" => as[s] = user[s] /\ user[s] # None

\* The line that auth or command writes when k lines are left.
LineAt(r, k) ==
  IF ~Auth(r) THEN kind[r]
  ELSE CASE k = 4 -> "logout"
         [] k = 3 -> IF kind[r] = "login" THEN "1" ELSE "2"
         [] k = 2 -> who[r]
         [] OTHER -> "secret"

\* Where the program takes the line before the last k, if it has not died.
Awaits(r, k, l) ==
  \/ l = "menu" /\ (~Auth(r) \/ k \in {3, 4} \/ (kind[r] = "signup" /\ k = 0))
  \/ l = "app" /\ (~Auth(r) \/ k = 4 \/ (kind[r] = "login" /\ k = 0))
  \/ l = "user" /\ kind[r] = "login" /\ k = 2
  \/ l = "password" /\ kind[r] = "login" /\ k = 1
  \/ l = "new_user" /\ kind[r] = "signup" /\ k = 2
  \/ l = "new_password" /\ kind[r] = "signup" /\ k = 1

Stands(r, k) ==
  LET s == of[r]
  IN  /\ at[s] = "gone" \/ Awaits(r, k, at[s])
      /\ at[s] = "password" => as[s] = who[r]
      /\ at[s] = "app" => IF kind[r] = "login" /\ k = 0 THEN as[s] = who[r]
                          ELSE as[s] = user[s] /\ user[s] # None

\* The line is in the terminal.
Waiting(r, k) ==
  LET s == of[r]
  IN  /\ in[s] = <<[line |-> LineAt(r, k + 1), by |-> r]>> /\ out[s] = <<>>
      /\ Stands(r, k + 1) /\ at[s] # "gone"
      /\ sender[r] # "started"

OutBy(r) == \A i \in 1..Len(out[of[r]]) : out[of[r]][i][2] = r

Unprompted(r) == out[of[r]] # <<>> => Last(out[of[r]])[1] \notin Prompts

\* The program waits for the server, or for the end of a sender.
Working(r, k) ==
  LET s == of[r]
  IN  /\ k = 0 /\ in[s] = <<>> /\ by[s] = r /\ OutBy(r) /\ Unprompted(r)
      /\ \/ kind[r] = "signup" /\ at[s] = "adding"
         \/ kind[r] \in Commands /\ at[s] = "busy" /\ as[s] = user[s] /\ user[s] # None

\* The program has answered the line, and a prompt is to be read.
Through(r, k) ==
  LET s == of[r]
  IN  /\ in[s] = <<>> /\ OutBy(r) /\ ~Unprompted(r) /\ sender[r] # "started"
      /\ Stands(r, k) /\ at[s] # "gone"
      /\ at[s] = "app" => Last(out[s])[1] = "@app>"
      /\ at[s] = "app" /\ kind[r] = "login" /\ k = 0 =>
           \E i \in 1..Len(out[s]) : out[s][i][1] = "logged_in"

Died(r) ==
  LET s == of[r]
  IN  in[s] = <<>> /\ at[s] = "gone" /\ OutBy(r) /\ (sender[r] = "started" => Unprompted(r))

\* What auth and command know at the end.
Over(r) ==
  LET s == of[r]
  IN  /\ Quiet(s) /\ Stands(r, 0)
      /\ at[s] = "app" => last[r] = "@app>" /\ (kind[r] = "login" => "logged_in" \in Texts(r))

Most(r) == IF Auth(r) THEN 4 ELSE 1

Held(r) ==
  LET s == of[r]
      k == Len(todo[r])
  IN  /\ pc[r] \in {"write", "read"} => /\ k \in 0..Most(r)
                                        /\ \A i \in 1..k : todo[r][i] = LineAt(r, k + 1 - i)
                                        /\ ~Auth(r) => asked[r] = user[s] /\ user[s] # None
      /\ pc[r] = "start" => in[s] = <<>> /\ at[s] \in {"menu", "gone"} /\ user[s] = None
      /\ pc[r] = "write" => k > 0 /\ Quiet(s) /\ Stands(r, k)
      /\ pc[r] = "read" => /\ k < Most(r)
                           /\ Waiting(r, k) \/ Working(r, k) \/ Through(r, k) \/ Died(r)
      /\ pc[r] = "unlock" => Over(r)

Sessioned ==
  /\ \A s \in Sessions : lock[s] = Nobody => Quiet(s) /\ Settled(s)
  /\ \A r \in Requests : Held(r)
  /\ \A r \in Requests : sender[r] = "started" => pc[r] = "read" /\ kind[r] = "send"

\* What holds of r is so because of these, and of these in its session.
SameRequest(r) ==
  /\ pc'[r] = pc[r] /\ of'[r] = of[r] /\ kind'[r] = kind[r] /\ who'[r] = who[r]
  /\ todo'[r] = todo[r] /\ last'[r] = last[r] /\ seen'[r] = seen[r] /\ asked'[r] = asked[r]
  /\ sender'[r] = sender[r]
SameSession(s) ==
  /\ at'[s] = at[s] /\ as'[s] = as[s] /\ by'[s] = by[s] /\ in'[s] = in[s] /\ out'[s] = out[s]
  /\ user'[s] = user[s]

\* What a request has run, sent and seen so far.
Done ==
  /\ RanAsShown /\ SentIsStaged
  /\ \A r \in Requests : /\ pc[r] \in {"idle", "stage", "lock", "start"} => ran[r] = None
                         /\ \A t \in seen[r] : t[2] = r

IInv ==
  /\ Types
  /\ UsersFileKept /\ RanAsShown /\ SentIsStaged /\ AnswerIsOwn
  /\ ~stopped => Staging /\ Locking
  /\ ~stopped /\ ~lagged => Sessioned /\ Done

-----------------------------------------------------------------------------
(* What is printed *)

LEMMA PrintsOne ==
  ASSUME NEW s \in Sessions, NEW a \in Words, Prints(s, <<a>>)
  PROVE  out' = [out EXCEPT ![s] = @ \o <<<<a, by'[s]>>>>]
<1>1. [i \in DOMAIN <<a>> |-> <<<<a>>[i], by'[s]>>] = <<<<a, by'[s]>>>>
  OBVIOUS
<1> QED BY <1>1 DEF Prints

LEMMA PrintsTwo ==
  ASSUME NEW s \in Sessions, NEW a \in Words, NEW b \in Words, Prints(s, <<a, b>>)
  PROVE  out' = [out EXCEPT ![s] = @ \o <<<<a, by'[s]>>, <<b, by'[s]>>>>]
<1>1. [i \in DOMAIN <<a, b>> |-> <<<<a, b>>[i], by'[s]>>] = <<<<a, by'[s]>>, <<b, by'[s]>>>>
  OBVIOUS
<1> QED BY <1>1 DEF Prints

LEMMA PrintsNone ==
  ASSUME NEW s \in Sessions, out \in [Sessions -> Seq(Output)], Prints(s, <<>>)
  PROVE  out' = out
<1>1. [i \in DOMAIN <<>> |-> <<<<>>[i], by'[s]>>] = <<>>
  OBVIOUS
<1>2. out[s] \o <<>> = out[s]
  OBVIOUS
<1> QED BY <1>1, <1>2 DEF Prints

LEMMA PrintsTypes ==
  ASSUME NEW s \in Sessions, out \in [Sessions -> Seq(Output)],
         by'[s] \in Requests \cup {Nobody}, NEW a \in Words, NEW b \in Words,
         Prints(s, <<>>) \/ Prints(s, <<a>>) \/ Prints(s, <<a, b>>)
  PROVE  /\ out' \in [Sessions -> Seq(Output)]
         /\ \A q \in Sessions : q # s => out'[q] = out[q]
         /\ Prints(s, <<>>) => out'[s] = out[s]
         /\ Prints(s, <<a>>) => out'[s] = out[s] \o <<<<a, by'[s]>>>>
         /\ Prints(s, <<a, b>>) => out'[s] = out[s] \o <<<<a, by'[s]>>, <<b, by'[s]>>>>
<1>1. <<<<a, by'[s]>>>> \in Seq(Output) /\ <<<<a, by'[s]>>, <<b, by'[s]>>>> \in Seq(Output)
  BY DEF Output
<1> DEFINE Printed(w) == /\ out' \in [Sessions -> Seq(Output)]
                         /\ \A q \in Sessions : q # s => out'[q] = out[q]
                         /\ out'[s] = w
<1>2. Prints(s, <<>>) => Printed(out[s])
  BY PrintsNone
<1>3. ASSUME Prints(s, <<a>>) PROVE Printed(out[s] \o <<<<a, by'[s]>>>>)
  <2>1. out' = [out EXCEPT ![s] = @ \o <<<<a, by'[s]>>>>]
    BY <1>3, PrintsOne
  <2>2. out[s] \o <<<<a, by'[s]>>>> \in Seq(Output)
    BY <1>1
  <2> QED BY <2>1, <2>2
<1>4. ASSUME Prints(s, <<a, b>>)
      PROVE  Printed(out[s] \o <<<<a, by'[s]>>, <<b, by'[s]>>>>)
  <2>1. out' = [out EXCEPT ![s] = @ \o <<<<a, by'[s]>>, <<b, by'[s]>>>>]
    BY <1>4, PrintsTwo
  <2>2. out[s] \o <<<<a, by'[s]>>, <<b, by'[s]>>>> \in Seq(Output)
    BY <1>1
  <2> QED BY <2>1, <2>2
<1> QED BY <1>2, <1>3, <1>4

-----------------------------------------------------------------------------
LEMMA InitTypes == Init => Types
<1> SUFFICES ASSUME Init PROVE Types
  OBVIOUS
<1>1. PICK u \in Before \cup {None} : user = [s \in Sessions |-> u]
  BY DEF Init
<1>2. u \in Users \cup {None}
  BY UsersAssumption
<1>3. as = [s \in Sessions |-> u] /\ as \in [Sessions -> Lines]
  BY <1>1, <1>2 DEF Init, Lines, Names
<1>4. TypeOK
  BY <1>1, <1>2 DEF Init, TypeOK, Modes, Points, Requests
<1>5. /\ in \in [Sessions -> Seq(Entries)]
      /\ out \in [Sessions -> Seq(Output)] /\ todo \in [Requests -> Seq(Lines)]
  BY DEF Init
<1>6. \A r \in Requests : kind[r] # "login"
  BY DEF Init, None
<1> QED BY <1>3, <1>4, <1>5, <1>6 DEF Init, Types, Lines, Kinds

\* What a step of the program in s may change.
Untaken ==
  <<user, lock, stage, request, disk, stopped, asked, orig, lagged>>

LEMMA TakesTypes ==
  ASSUME Types, NEW s \in Sessions, NEW l, Takes(s, l)
  PROVE  /\ by' \in [Sessions -> Requests \cup {Nobody}] /\ by'[s] \in Requests
         /\ in' \in [Sessions -> Seq(Entries)]
         /\ Line(s) \in Lines /\ ~stopped /\ at[s] = l /\ UNCHANGED Untaken
         /\ by'[s] = Head(in[s]).by /\ in[s] # <<>> /\ in'[s] = Tail(in[s])
         /\ \A q \in Sessions : q # s => by'[q] = by[q] /\ in'[q] = in[q]
<1>1. in[s] \in Seq(Entries) /\ in[s] # <<>>
  BY DEF Types, Takes
<1>2. Head(in[s]) \in Entries /\ Tail(in[s]) \in Seq(Entries)
  BY <1>1, HeadTailProperties
<1>3. Head(in[s]).line \in Lines /\ Head(in[s]).by \in Requests
  BY <1>2 DEF Entries
<1> QED BY <1>1, <1>2, <1>3 DEF Types, Takes, Line, Untaken

\* The types of what a step of the program changes are those of the rest.
LEMMA ProgramFrame ==
  ASSUME Types, UNCHANGED Untaken,
         at' \in [Sessions -> Modes],
         as' \in [Sessions -> Lines], by' \in [Sessions -> Requests \cup {Nobody}],
         in' \in [Sessions -> Seq(Entries)],
         out' \in [Sessions -> Seq(Output)],
         sender' \in [Requests -> {None, "started", "over"}],
         ran' \in [Requests -> Lines], sent' = sent
  PROVE  Types'
BY DEF Types, TypeOK, Modes, Points, Untaken, request, disk

LEMMA MenuTypes ==
  ASSUME Types, NEW s \in Sessions, Menu(s)
  PROVE  Types'
<1>1. /\ by' \in [Sessions -> Requests \cup {Nobody}] /\ by'[s] \in Requests
      /\ in' \in [Sessions -> Seq(Entries)] /\ UNCHANGED Untaken
  BY TakesTypes DEF Menu
<1>2. at' \in [Sessions -> Modes]
      /\ UNCHANGED <<as, run>>
  BY DEF Menu, Now, Types, TypeOK, Modes, Points
<1>3. out' \in [Sessions -> Seq(Output)]
  <2>1. "ask>" \in Words /\ "invalid" \in Words /\ "menu>" \in Words
    BY DEF Words
  <2>2. Prints(s, <<"ask>">>) \/ Prints(s, <<"invalid", "menu>">>)
    BY DEF Menu
  <2> QED BY <1>1, <2>1, <2>2, PrintsTypes DEF Types
<1> QED BY <1>1, <1>2, <1>3, ProgramFrame DEF run, Types

LEMMA SignInTypes ==
  ASSUME Types, NEW s \in Sessions, SignIn(s)
  PROVE  Types'
<1>0. Takes(s, "user") \/ Takes(s, "password")
  BY DEF SignIn
<1>1. /\ by' \in [Sessions -> Requests \cup {Nobody}] /\ by'[s] \in Requests
      /\ in' \in [Sessions -> Seq(Entries)] /\ UNCHANGED Untaken
      /\ Line(s) \in Lines
  BY <1>0, TakesTypes
<1>2. /\ at' \in [Sessions -> Modes]
      /\ as' \in [Sessions -> Lines] /\ UNCHANGED run
  <2>1. Now(s, "password") \/ Now(s, "app")
    BY DEF SignIn
  <2>2. at' \in [Sessions -> Modes]
    BY <2>1 DEF Now, Types, TypeOK, Modes
  <2>3. as' = as \/ as' = [as EXCEPT ![s] = Line(s)]
    BY DEF SignIn
  <2>4. as' \in [Sessions -> Lines]
    BY <2>3, <1>1 DEF Types
  <2> QED BY <2>2, <2>4 DEF SignIn
<1>3. out' \in [Sessions -> Seq(Output)]
  <2>1. "ask>" \in Words /\ "logged_in" \in Words /\ "@app>" \in Words
    BY DEF Words
  <2>2. Prints(s, <<"ask>">>) \/ Prints(s, <<"logged_in", "@app>">>)
    BY DEF SignIn
  <2> QED BY <1>1, <2>1, <2>2, PrintsTypes DEF Types
<1> QED BY <1>1, <1>2, <1>3, ProgramFrame DEF run, Types

LEMMA SignUpTypes ==
  ASSUME Types, NEW s \in Sessions, SignUp(s)
  PROVE  Types'
<1>0. Takes(s, "new_user") \/ Takes(s, "new_password")
  BY DEF SignUp
<1>1. /\ by' \in [Sessions -> Requests \cup {Nobody}] /\ by'[s] \in Requests
      /\ in' \in [Sessions -> Seq(Entries)] /\ UNCHANGED Untaken
  BY <1>0, TakesTypes
<1>2. /\ at' \in [Sessions -> Modes]
      /\ UNCHANGED <<as, run>>
  BY DEF SignUp, Now, Types, TypeOK, Modes, Points
<1>3. out' \in [Sessions -> Seq(Output)]
  <2>1. "ask>" \in Words /\ "authenticating" \in Words
    BY DEF Words
  <2>2. Prints(s, <<"ask>">>) \/ Prints(s, <<"authenticating">>)
    BY DEF SignUp
  <2> QED BY <1>1, <2>1, <2>2, PrintsTypes DEF Types
<1> QED BY <1>1, <1>2, <1>3, ProgramFrame DEF run, Types

LEMMA AppTypes ==
  ASSUME Types, NEW s \in Sessions, App(s)
  PROVE  Types'
<1>1. /\ by' \in [Sessions -> Requests \cup {Nobody}] /\ by'[s] \in Requests
      /\ in' \in [Sessions -> Seq(Entries)] /\ UNCHANGED Untaken
  BY TakesTypes DEF App
<1>2. /\ at' \in [Sessions -> Modes]
      /\ UNCHANGED as
  BY DEF App, Now, Types, TypeOK, Modes, Points
<1>3. out' \in [Sessions -> Seq(Output)]
  <2>1. /\ "menu>" \in Words /\ "running" \in Words /\ "unknown" \in Words
        /\ "@app>" \in Words
    BY DEF Words
  <2>2. \/ Prints(s, <<"menu>">>) \/ Prints(s, <<"running">>) \/ Prints(s, <<>>)
        \/ Prints(s, <<"unknown", "@app>">>)
    BY DEF App
  <2> QED BY <1>1, <2>1, <2>2, PrintsTypes DEF Types
<1>4. /\ sender' \in [Requests -> {None, "started", "over"}]
      /\ ran' \in [Requests -> Lines] /\ sent' = sent
  BY <1>1 DEF App, run, Types
<1> QED BY <1>1, <1>2, <1>3, <1>4, ProgramFrame DEF Types

LEMMA RepliesTypes ==
  ASSUME Types, NEW s \in Sessions, Replies(s)
  PROVE  Types'
<1>1. by' = by /\ by'[s] \in Requests \cup {Nobody}
  BY DEF Replies, Types
<1>2. /\ at' \in [Sessions -> Modes]
      /\ UNCHANGED <<as, in, run, Untaken>>
  BY DEF Replies, Now, Untaken, Types, TypeOK, Modes, Points
<1>3. out' \in [Sessions -> Seq(Output)]
  <2>1. "response" \in Words /\ "menu>" \in Words /\ "@app>" \in Words
    BY DEF Words
  <2>2. Prints(s, <<"response", "menu>">>) \/ Prints(s, <<"response", "@app>">>)
    BY DEF Replies
  <2> QED BY <1>1, <2>1, <2>2, PrintsTypes DEF Types
<1> QED BY <1>1, <1>2, <1>3, ProgramFrame DEF run, Types

LEMMA DiesTypes ==
  ASSUME Types, NEW s \in Sessions, Dies(s)
  PROVE  Types'
<1>1. /\ at' \in [Sessions -> Modes]
      /\ UNCHANGED <<out, run, Untaken>>
  BY DEF Dies, Now, Untaken, Types, TypeOK, Modes, Points
<1>2. None \in Lines /\ <<>> \in Seq(Entries)
  BY DEF Lines
<1>3. /\ as' \in [Sessions -> Lines] /\ by' \in [Sessions -> Requests \cup {Nobody}]
      /\ in' \in [Sessions -> Seq(Entries)]
  BY <1>2 DEF Dies, Types
<1> QED BY <1>1, <1>3, ProgramFrame DEF run, Types

\* Requests and the rest of the server: the program keeps still, or is replaced.
LEMMA BeginsTypes ==
  ASSUME Types, NEW r \in Requests, Begins(r)
  PROVE  Types'
<1>1. PICK s \in Sessions, k \in Commands \cup {"login", "signup", "logout"} :
         /\ of' = [of EXCEPT ![r] = s] /\ kind' = [kind EXCEPT ![r] = k]
         /\ \E n \in IF k = "login" THEN Users
                     ELSE IF k = "signup" THEN Newcomers ELSE {None} :
              who' = [who EXCEPT ![r] = n]
         /\ Goto(r, IF k = "send" THEN "stage" ELSE "lock")
  BY DEF Begins
<1>2. PICK n \in Names \cup {None} : who' = [who EXCEPT ![r] = n] /\ (k = "login" => n \in Users)
  BY <1>1 DEF Names
<1>3. /\ of' \in [Requests -> Sessions \cup {0}] /\ kind' \in [Requests -> Kinds]
      /\ who' \in [Requests -> Names \cup {None}]
      /\ \A q \in Requests : kind'[q] = "login" => who'[q] \in Users
  BY <1>1, <1>2 DEF Types, Kinds
<1>4. pc' \in [Requests -> Points]
  BY <1>1 DEF Goto, Types, TypeOK, Modes, Points
<1>5. UNCHANGED <<cli, user, lock, stage, todo, last, seen, disk, run, stopped, asked,
                  orig, lagged>>
  BY DEF Begins
<1> QED BY <1>3, <1>4, <1>5 DEF Types, TypeOK, Modes, Points, cli, disk, run

LEMMA StagingTypes ==
  ASSUME Types, NEW r \in Requests, Stages(r) \/ Restores(r)
  PROVE  Types'
<1>1. UNCHANGED <<cli, user, lock, of, kind, who, todo, last, seen, run, stopped, asked, orig,
                  lagged>>
  BY DEF Stages, Restores
<1>2. /\ pc' \in [Requests -> Points]
      /\ stage' \in Requests \cup {Nobody} /\ backup' \subseteq Requests
      /\ file' \in Requests \cup {Nobody, Orig}
  BY DEF Stages, Restores, Goto, Types, TypeOK, Modes, Points
<1> QED BY <1>1, <1>2 DEF Types, TypeOK, Modes, Points, cli, run

LEMMA ScriptTypes ==
  ASSUME Types, NEW r \in Requests, NEW shown \in Users \cup {None}
  PROVE  Script(r, shown) \in Seq(Lines)
<1>1. kind[r] \in Kinds /\ who[r] \in Names \cup {None}
  BY DEF Types
<1>2. /\ kind[r] \in Lines \/ Auth(r)
      /\ who[r] \in Lines /\ "logout" \in Lines /\ "1" \in Lines /\ "2" \in Lines
      /\ "secret" \in Lines
  BY <1>1 DEF Lines, Kinds, Commands, Auth
<1>3. CASE Auth(r)
  <2> DEFINE w == <<IF kind[r] = "login" THEN "1" ELSE "2", who[r], "secret">>
             v == IF shown = None THEN <<>> ELSE <<"logout">>
  <2>1. w \in Seq(Lines)
    BY <1>2
  <2>2. v \in Seq(Lines)
    BY <1>2
  <2> HIDE DEF v, w
  <2>3. v \o w \in Seq(Lines)
    BY <2>1, <2>2
  <2> QED BY <1>3, <2>3 DEF Script, v, w
<1>4. CASE ~Auth(r)
  BY <1>2, <1>4 DEF Script
<1> QED BY <1>3, <1>4

LEMMA PreparesTypes ==
  ASSUME Types, NEW r \in Requests, NEW shown \in Users \cup {None}, Prepares(r, shown)
  PROVE  /\ todo' \in [Requests -> Seq(Lines)] /\ todo'[r] = Script(r, shown)
         /\ asked' \in [Requests -> Users \cup {None}]
         /\ asked'[r] = IF Auth(r) THEN asked[r] ELSE shown
         /\ pc' \in [Requests -> Points]
         /\ pc'[r] = IF Script(r, shown) = <<>> THEN "unlock" ELSE "write"
         /\ \A q \in Requests : q # r => /\ todo'[q] = todo[q] /\ asked'[q] = asked[q]
                                         /\ pc'[q] = pc[q]
<1> DEFINE script == Script(r, shown)
<1>1. script \in Seq(Lines)
  BY ScriptTypes
<1>2. /\ todo' = [todo EXCEPT ![r] = script]
      /\ asked' = IF Auth(r) THEN asked ELSE [asked EXCEPT ![r] = shown]
      /\ pc' = [pc EXCEPT ![r] = IF script = <<>> THEN "unlock" ELSE "write"]
  BY DEF Prepares, Goto
<1>3. /\ todo \in [Requests -> Seq(Lines)] /\ asked \in [Requests -> Users \cup {None}]
      /\ pc \in [Requests -> Points]
  BY DEF Types, TypeOK, Modes, Points
<1>4. "unlock" \in Points /\ "write" \in Points
  BY DEF Points
<1> HIDE DEF script
<1>5. todo' \in [Requests -> Seq(Lines)] /\ asked' \in [Requests -> Users \cup {None}]
  BY <1>1, <1>2, <1>3
<1>6. pc' \in [Requests -> Points]
  BY <1>2, <1>3, <1>4
<1>7. /\ todo'[r] = script /\ asked'[r] = IF Auth(r) THEN asked[r] ELSE shown
      /\ pc'[r] = IF script = <<>> THEN "unlock" ELSE "write"
      /\ \A q \in Requests : q # r => /\ todo'[q] = todo[q] /\ asked'[q] = asked[q]
                                      /\ pc'[q] = pc[q]
  BY <1>2, <1>3
<1> QED BY <1>5, <1>6, <1>7 DEF script

LEMMA SenderTypes ==
  ASSUME Types, NEW r \in Requests, SenderOpens(r)
  PROVE  Types'
<1>1. /\ sender' \in [Requests -> {None, "started", "over"}]
      /\ sent' \in [Requests -> Requests \cup {Nobody, Orig}]
  BY DEF SenderOpens, Types, TypeOK
<1>2. UNCHANGED <<cli, user, lock, stage, request, disk, ran, stopped, asked, orig, lagged>>
  BY DEF SenderOpens
<1> QED BY <1>1, <1>2 DEF Types, TypeOK, cli, request, disk

LEMMA LocksTypes ==
  ASSUME Types, NEW r \in Requests, Locks(r), of[r] \in Sessions
  PROVE  Types'
<1> DEFINE s == of[r]
<1>1. /\ lock' \in [Sessions -> Requests \cup {Nobody}]
      /\ UNCHANGED <<stage, of, kind, who, last, seen, disk, run, stopped, orig, lagged, as,
                     by, in>>
  BY DEF Locks, Mine, Types, cli
<1>2. CASE at[s] # "gone"
  <2>1. user[s] \in Users \cup {None}
    BY DEF Types, TypeOK
  <2>2. Prepares(r, user[s]) /\ UNCHANGED <<cli, user>>
    BY <1>2 DEF Locks, Mine
  <2>3. /\ todo' \in [Requests -> Seq(Lines)]
        /\ asked' \in [Requests -> Users \cup {None}] /\ pc' \in [Requests -> Points]
    BY <2>1, <2>2, PreparesTypes
  <2>4. UNCHANGED <<at, out, user, file, backup, stage, stopped, lagged, sender, ran, sent>>
    BY <1>1, <2>2 DEF cli, disk, run
  <2>5. TypeOK'
    BY <1>1, <2>3, <2>4 DEF Types, TypeOK, Points
  <2> QED BY <1>1, <2>3, <2>4, <2>5 DEF Types
<1>3. CASE at[s] = "gone"
  <2>1. /\ at' = [at EXCEPT ![s] = "menu"] /\ out' = [out EXCEPT ![s] = <<<<"menu>", Nobody>>>>]
        /\ user' = [user EXCEPT ![s] = None] /\ UNCHANGED <<todo, asked>>
        /\ pc' = [pc EXCEPT ![r] = "start"]
    BY <1>3 DEF Locks, Mine, Goto
  <2>2. <<<<"menu>", Nobody>>>> \in Seq(Output)
    BY DEF Output, Words
  <2> QED BY <1>1, <2>1, <2>2 DEF Types, TypeOK, disk, run
<1> QED BY <1>2, <1>3

LEMMA StartedTypes ==
  ASSUME Types, NEW r \in Requests, Started(r), of[r] \in Sessions
  PROVE  Types'
<1>1. user[of[r]] \in Users \cup {None} /\ Prepares(r, user[of[r]])
  BY DEF Types, TypeOK, Started, Mine
<1>2. /\ todo' \in [Requests -> Seq(Lines)]
      /\ asked' \in [Requests -> Users \cup {None}] /\ pc' \in [Requests -> Points]
  BY <1>1, PreparesTypes
<1>3. /\ UNCHANGED <<at, as, by, in, user, lock, stage, of, kind, who, last, seen, disk, run,
                     stopped, orig, lagged>>
      /\ out' \in [Sessions -> Seq(Output)]
  BY DEF Started, Mine, Types
<1> QED BY <1>2, <1>3 DEF Types, TypeOK, Points, disk, run

LEMMA WritesTypes ==
  ASSUME Types, NEW r \in Requests, Writes(r), of[r] \in Sessions, todo[r] # <<>>
  PROVE  Types'
<1>1. todo[r] \in Seq(Lines)
  BY DEF Types
<1>2. Head(todo[r]) \in Lines /\ Tail(todo[r]) \in Seq(Lines)
  BY <1>1, HeadTailProperties
<1>3. [line |-> Head(todo[r]), by |-> r] \in Entries
  BY <1>2 DEF Entries
<1>4. Append(in[of[r]], [line |-> Head(todo[r]), by |-> r]) \in Seq(Entries)
  BY <1>3 DEF Types
<1>5. in' \in [Sessions -> Seq(Entries)]
  BY <1>4 DEF Types, Writes, Mine
<1>6. /\ todo' \in [Requests -> Seq(Lines)]
      /\ last' \in [Requests -> Words \cup {None}] /\ pc' \in [Requests -> Points]
  BY <1>2 DEF Types, TypeOK, Points, Writes, Goto
<1>7. UNCHANGED <<at, as, by, out, user, lock, stage, of, kind, who, seen, disk, run, stopped,
                 asked, orig, lagged>>
  BY DEF Writes
<1> QED BY <1>5, <1>6, <1>7 DEF Types, TypeOK, Points, disk, run

LEMMA AfterReadTypes ==
  ASSUME Types, NEW r \in Requests, AfterRead(r)
  PROVE  pc' \in [Requests -> Points]
BY DEF AfterRead, Goto, Types, TypeOK, Points

LEMMA ReadsTypes ==
  ASSUME Types, NEW r \in Requests, Reads(r), of[r] \in Sessions
  PROVE  Types'
<1>1. out[of[r]] \in Seq(Output) /\ out[of[r]] # <<>>
  BY DEF Types, Reads, Mine
<1>2. Last(out[of[r]]) \in Output /\ ToSet(out[of[r]]) \subseteq Output
  BY <1>1 DEF Last, ToSet
<1>3. Last(out[of[r]])[1] \in Words
  BY <1>2 DEF Output
<1>4. /\ last' \in [Requests -> Words \cup {None}]
      /\ out' \in [Sessions -> Seq(Output)]
  BY <1>3 DEF Types, Reads, Mine
<1>5. seen' \in [Requests -> SUBSET Output]
  <2>1. (IF Forgets(r) THEN {} ELSE seen[r] \cup ToSet(out[of[r]])) \in SUBSET Output
    BY <1>2 DEF Types
  <2> QED BY <2>1 DEF Types, Reads, Mine
<1>6. pc' \in [Requests -> Points]
  BY AfterReadTypes DEF Reads, Types, TypeOK, Points
<1>7. UNCHANGED <<at, as, by, in, user, lock, stage, of, kind, who, todo, disk, run, stopped,
                 asked, orig, lagged>>
  BY DEF Reads
<1> QED BY <1>4, <1>5, <1>6, <1>7 DEF Types, TypeOK, Points, disk, run

LEMMA ReadEndsTypes ==
  ASSUME Types, NEW r \in Requests, ReadEnds(r)
  PROVE  Types'
<1>1. pc' \in [Requests -> Points]
  BY AfterReadTypes DEF ReadEnds
<1>2. /\ lagged' \in BOOLEAN
      /\ UNCHANGED <<cli, user, lock, stage, of, kind, who, todo, last, seen, disk, run,
                     stopped, asked, orig>>
  BY DEF ReadEnds, TooEarly
<1> QED BY <1>1, <1>2 DEF Types, TypeOK, Points, cli, disk, run

LEMMA UnlocksTypes ==
  ASSUME Types, NEW r \in Requests, Unlocks(r)
  PROVE  Types'
<1>1. SignedIn(r) => who[r] \in Users
  BY DEF Types, SignedIn
<1>2. /\ user' \in [Sessions -> Users \cup {None}]
      /\ lock' \in [Sessions -> Requests \cup {Nobody}]
      /\ file' \in Requests \cup {Nobody, Orig}
      /\ pc' \in [Requests -> Points]
  BY <1>1 DEF Unlocks, Goto, Mine, Types, TypeOK, Points
<1>3. UNCHANGED <<cli, stage, of, kind, who, todo, last, seen, backup, run, stopped, asked,
                 orig, lagged>>
  BY DEF Unlocks
<1> QED BY <1>2, <1>3 DEF Types, TypeOK, Points, cli, run

LEMMA AnswersTypes ==
  ASSUME Types, NEW r \in Requests, Answers(r)
  PROVE  Types'
<1>1. /\ pc' \in [Requests -> Points] /\ kind' \in [Requests -> Kinds]
      /\ who' \in [Requests -> Names \cup {None}]
      /\ last' \in [Requests -> Words \cup {None}] /\ seen' \in [Requests -> SUBSET Output]
      /\ asked' \in [Requests -> Users \cup {None}] /\ ran' \in [Requests -> Lines]
      /\ sent' \in [Requests -> Requests \cup {Nobody, Orig}]
      /\ \A q \in Requests : kind'[q] = "login" => who'[q] \in Users
  BY DEF Answers, Goto, Types, TypeOK, Points, Kinds, Lines, None
<1>2. UNCHANGED <<cli, user, lock, stage, of, todo, disk, sender, stopped, orig, lagged>>
  BY DEF Answers
<1> QED BY <1>1, <1>2 DEF Types, TypeOK, Points, cli, disk

LEMMA StopsTypes ==
  ASSUME Types, ServerStops
  PROVE  Types'
<1>1. /\ backup' = {} /\ at' = [s \in Sessions |-> "gone"]
      /\ in' = [s \in Sessions |-> <<>>] /\ out' = [s \in Sessions |-> <<>>]
      /\ user' = [s \in Sessions |-> None] /\ as' = [s \in Sessions |-> None]
      /\ lock' = [s \in Sessions |-> Nobody] /\ by' = [s \in Sessions |-> Nobody]
      /\ pc' = [r \in Requests |-> IF pc[r] = "idle" THEN "idle" ELSE "done"]
      /\ kind' = [r \in Requests |-> None] /\ who' = [r \in Requests |-> None]
      /\ last' = [r \in Requests |-> None] /\ ran' = [r \in Requests |-> None]
      /\ asked' = [r \in Requests |-> None] /\ sender' = [r \in Requests |-> None]
      /\ of' = [r \in Requests |-> 0] /\ sent' = [r \in Requests |-> Nobody]
      /\ todo' = [r \in Requests |-> <<>>] /\ seen' = [r \in Requests |-> {}]
      /\ UNCHANGED <<stage, file, orig, lagged>> /\ stopped' = TRUE
  BY DEF ServerStops, Nobody
<1>2. /\ <<>> \in Seq(Entries) /\ <<>> \in Seq(Output) /\ <<>> \in Seq(Lines)
      /\ None \in Lines /\ None \in Kinds
  BY DEF Lines, Kinds
<1>3. /\ at' \in [Sessions -> Modes] /\ pc' \in [Requests -> Points]
  BY <1>1 DEF Modes, Points
<1>4. TypeOK'
  BY <1>1, <1>3 DEF Types, TypeOK, Modes, Points
<1>5. /\ in' \in [Sessions -> Seq(Entries)] /\ out' \in [Sessions -> Seq(Output)]
      /\ todo' \in [Requests -> Seq(Lines)]
  BY <1>1, <1>2
<1>6. \A q \in Requests : kind'[q] # "login"
  BY <1>1 DEF None
<1> QED BY <1>1, <1>2, <1>4, <1>5, <1>6 DEF Types

-----------------------------------------------------------------------------
(* The two locks *)

Guarded == Staging /\ Locking

LEMMA GuardedFrame ==
  ASSUME Guarded, UNCHANGED <<pc, of, kind, todo, lock, stage, file, backup, orig>>
  PROVE  Guarded'
BY DEF Guarded, Staging, Locking, Staged, Holding

LEMMA BeginsGuarded ==
  ASSUME Types, Guarded, NEW r \in Requests, Begins(r)
  PROVE  Guarded'
<1>1. PICK s \in Sessions, k \in Commands \cup {"login", "signup", "logout"} :
         /\ of' = [of EXCEPT ![r] = s] /\ kind' = [kind EXCEPT ![r] = k]
         /\ pc' = [pc EXCEPT ![r] = IF k = "send" THEN "stage" ELSE "lock"]
  BY DEF Begins, Goto
<1>2. pc[r] = "idle" /\ UNCHANGED <<lock, stage, file, backup, orig, todo>>
  BY DEF Begins, At, disk
<1>3. k # None
  BY DEF Commands, None
<1>4. pc \in [Requests -> Points] /\ of \in [Requests -> Sessions \cup {0}]
      /\ kind \in [Requests -> Kinds] /\ backup \subseteq Requests
  BY DEF Types, TypeOK, Points
<1>5. \A q \in Requests : q # r => /\ pc'[q] = pc[q] /\ of'[q] = of[q] /\ kind'[q] = kind[q]
                                   /\ Staged(q)' = Staged(q) /\ Holding(q)' = Holding(q)
  BY <1>1, <1>4 DEF Staged, Holding
<1>6. /\ pc'[r] \in {"stage", "lock"} /\ (pc'[r] = "stage" <=> kind'[r] = "send")
      /\ of'[r] = s /\ kind'[r] = k
      /\ ~Staged(r)' /\ ~Holding(r)' /\ ~Staged(r) /\ ~Holding(r)
  BY <1>1, <1>2, <1>4 DEF Staged, Holding
<1>7. Staging'
  BY <1>2, <1>4, <1>5, <1>6 DEF Guarded, Staging
<1>8. Locking'
  BY <1>2, <1>3, <1>5, <1>6 DEF Guarded, Locking
<1> QED BY <1>7, <1>8 DEF Guarded

LEMMA StagesGuarded ==
  ASSUME Types, Guarded, NEW r \in Requests, Stages(r)
  PROVE  Guarded'
<1>1. /\ pc[r] = "stage" /\ stage = Nobody /\ stage' = r /\ file' = r
      /\ backup' = IF file # Nobody THEN backup \cup {r} ELSE backup
      /\ UNCHANGED <<lock, of, kind, todo, orig>>
  BY DEF Stages, At
<1>2. pc \in [Requests -> Points] /\ pc' \in [Requests -> Points]
      /\ pc'[r] \in {"lock", "restore"}
      /\ \A q \in Requests : q # r => pc'[q] = pc[q]
  BY DEF Stages, Goto, Types, TypeOK, Points
<1>3. kind[r] = "send" /\ file = orig /\ ~Staged(r)
  BY <1>1 DEF Guarded, Staging, Staged
<1>4. r # Nobody /\ orig \in {Nobody, Orig} /\ Orig # Nobody
  BY DEF Requests, Nobody, Orig, Types
<1>5. \A q \in Requests : ~Staged(q) /\ pc[q] # "restore" /\ q \notin backup
  BY <1>1 DEF Guarded, Staging, Requests, Nobody
<1>6. \A q \in Requests : q # r => Staged(q)' = Staged(q) /\ Holding(q)' = Holding(q)
  BY <1>1, <1>2 DEF Staged, Holding
<1>7. ~Holding(r) /\ ~Holding(r)' /\ (Staged(r)' <=> pc'[r] = "lock")
  BY <1>1, <1>2, <1>3 DEF Staged, Holding
<1>8. r \in backup' <=> orig = Orig
  BY <1>1, <1>3, <1>4, <1>5
<1>9. Staging'
  <2>1. \A q \in Requests : q # r => ~Staged(q)' /\ pc'[q] # "restore" /\ q \notin backup'
    BY <1>1, <1>2, <1>5, <1>6
  <2> QED BY <2>1, <1>1, <1>2, <1>3, <1>4, <1>7, <1>8 DEF Guarded, Staging
<1>10. Locking'
  BY <1>1, <1>2, <1>6, <1>7 DEF Guarded, Locking
<1> QED BY <1>9, <1>10 DEF Guarded

LEMMA RestoresGuarded ==
  ASSUME Types, Guarded, NEW r \in Requests, Restores(r)
  PROVE  Guarded'
<1>1. /\ pc[r] = "restore" /\ stage' = Nobody /\ backup' = backup \ {r}
      /\ file' = IF r \in backup THEN Orig ELSE Nobody
      /\ UNCHANGED <<lock, of, kind, todo, orig>>
  BY DEF Restores, At
<1>2. pc'[r] = "answer" /\ \A q \in Requests : q # r => pc'[q] = pc[q]
  BY DEF Restores, Goto, Types, TypeOK
<1>3. stage = r /\ (r \in backup <=> orig = Orig) /\ orig \in {Nobody, Orig}
  BY <1>1 DEF Guarded, Staging, Types
<1>4. \A q \in Requests : q # r => ~Staged(q) /\ pc[q] # "restore" /\ q \notin backup
  BY <1>3 DEF Guarded, Staging
<1>5. \A q \in Requests : q # r => Staged(q)' = Staged(q) /\ Holding(q)' = Holding(q)
  BY <1>1, <1>2 DEF Staged, Holding
<1>6. ~Holding(r) /\ ~Holding(r)' /\ ~Staged(r)' /\ ~Staged(r)
  BY <1>1, <1>2 DEF Staged, Holding
<1>7. file' = orig
  BY <1>1, <1>3
<1>8. Staging'
  BY <1>1, <1>2, <1>4, <1>5, <1>6, <1>7 DEF Guarded, Staging
<1>9. Locking'
  BY <1>1, <1>2, <1>5, <1>6 DEF Guarded, Locking
<1> QED BY <1>8, <1>9 DEF Guarded

\* The holder of a lock goes on.
LEMMA HolderGuarded ==
  ASSUME Types, Guarded, NEW r \in Requests, Holding(r),
         UNCHANGED <<lock, of, kind, stage, file, backup, orig>>,
         pc'[r] \in {"write", "read", "unlock"},
         pc'[r] = "write" => todo'[r] # <<>>,
         \A q \in Requests : q # r => pc'[q] = pc[q] /\ todo'[q] = todo[q]
  PROVE  Guarded'
<1>1. \A q \in Requests : Staged(q)' = Staged(q) /\ Holding(q)' = Holding(q)
  BY DEF Staged, Holding
<1>2. pc[r] \notin {"idle", "done", "stage", "restore"}
  BY DEF Holding
<1>3. Staging'
  BY <1>1, <1>2 DEF Guarded, Staging
<1>4. Locking'
  BY <1>1, <1>2 DEF Guarded, Locking
<1> QED BY <1>3, <1>4 DEF Guarded

LEMMA LocksGuarded ==
  ASSUME Types, Guarded, NEW r \in Requests, Locks(r)
  PROVE  Guarded'
<1> DEFINE s == of[r]
<1>1. /\ pc[r] = "lock" /\ lock[s] = Nobody /\ lock' = [lock EXCEPT ![s] = r]
      /\ UNCHANGED <<stage, of, kind, file, backup, orig>>
  BY DEF Locks, At, Mine, disk
<1>2. s \in Sessions /\ kind[r] # None
  BY <1>1 DEF Guarded, Locking
<1>3. /\ pc'[r] \in {"start", "write", "unlock"} /\ (pc'[r] = "write" => todo'[r] # <<>>)
      /\ \A q \in Requests : q # r => pc'[q] = pc[q] /\ todo'[q] = todo[q]
  <2>1. CASE at[s] # "gone"
    <3>1. user[s] \in Users \cup {None}
      BY <1>2 DEF Types, TypeOK
    <3>2. Prepares(r, user[s])
      BY <2>1 DEF Locks, Mine
    <3> QED BY <3>1, <3>2, PreparesTypes
  <2>2. CASE at[s] = "gone"
    BY <2>2 DEF Locks, Mine, Goto, Types, TypeOK
  <2> QED BY <2>1, <2>2
<1>4. /\ lock'[s] = r /\ \A q \in Sessions : q # s => lock'[q] = lock[q]
      /\ \A q \in Sessions : lock[q] \in Requests \cup {Nobody}
      /\ Nobody \notin Requests
  BY <1>1, <1>2 DEF Types, Requests, Nobody
<1>5. \A q \in Requests : q # r => Staged(q)' = Staged(q) /\ Holding(q)' = Holding(q)
  BY <1>1, <1>3 DEF Staged, Holding
<1>6. /\ ~Holding(r) /\ Holding(r)' /\ Staged(r)' = Staged(r)
  BY <1>1, <1>3 DEF Staged, Holding
<1>7. Staging'
  BY <1>1, <1>3, <1>5, <1>6 DEF Guarded, Staging
<1>8. Locking'
  <2>1. \A q \in Requests : /\ pc'[q] # "idle" => of'[q] \in Sessions
                            /\ pc'[q] \notin {"idle", "done"} => kind'[q] # None
                            /\ pc'[q] = "write" => todo'[q] # <<>>
    BY <1>1, <1>2, <1>3 DEF Guarded, Locking
  <2>2. ASSUME NEW p \in Sessions, NEW q \in Requests
        PROVE  lock'[p] = q <=> Holding(q)' /\ of'[q] = p
    <3>1. lock[p] = q <=> Holding(q) /\ of[q] = p
      BY DEF Guarded, Locking
    <3>2. lock[s] # q /\ of' = of
      BY <1>1, <1>4
    <3> QED BY <3>1, <3>2, <1>4, <1>5, <1>6
  <2> QED BY <2>1, <2>2 DEF Locking
<1> QED BY <1>7, <1>8 DEF Guarded

LEMMA UnlocksGuarded ==
  ASSUME Types, Guarded, NEW r \in Requests, Unlocks(r)
  PROVE  Guarded'
<1> DEFINE s == of[r]
<1>1. /\ pc[r] = "unlock" /\ lock' = [lock EXCEPT ![s] = Nobody]
      /\ UNCHANGED <<stage, of, kind, todo, backup, orig>>
      /\ file' = IF kind[r] = "send" /\ asked[r] # None THEN Nobody ELSE file
  BY DEF Unlocks, At, Mine
<1>2. /\ pc'[r] = IF kind[r] = "send" THEN "restore" ELSE "answer"
      /\ \A q \in Requests : q # r => pc'[q] = pc[q]
  BY DEF Unlocks, Goto, Types, TypeOK
<1>3. /\ Holding(r) /\ ~Holding(r)' /\ ~Staged(r)' /\ s \in Sessions /\ lock[s] = r
      /\ (Staged(r) <=> kind[r] = "send") /\ kind[r] # None
  BY <1>1, <1>2 DEF Guarded, Locking, Staged, Holding
<1>4. \A q \in Requests : q # r => Staged(q)' = Staged(q) /\ Holding(q)' = Holding(q)
  BY <1>1, <1>2 DEF Staged, Holding
<1>5. /\ lock'[s] = Nobody /\ \A q \in Sessions : q # s => lock'[q] = lock[q]
      /\ \A q \in Sessions : lock[q] \in Requests \cup {Nobody}
      /\ Nobody \notin Requests
  BY <1>1, <1>3 DEF Types, Requests, Nobody
<1>6. Staging'
  <2>1. CASE kind[r] = "send"
    <3>1. stage = r /\ (r \in backup <=> orig = Orig)
      BY <1>3, <2>1 DEF Guarded, Staging
    <3>2. \A q \in Requests : q # r => ~Staged(q) /\ pc[q] # "restore" /\ q \notin backup
      BY <3>1 DEF Guarded, Staging
    <3> QED BY <3>1, <3>2, <2>1, <1>1, <1>2, <1>3, <1>4, <1>5 DEF Guarded, Staging
  <2>2. CASE kind[r] # "send"
    BY <2>2, <1>1, <1>2, <1>3, <1>4 DEF Guarded, Staging
  <2> QED BY <2>1, <2>2
<1>7. Locking'
  <2>1. \A q \in Requests : /\ pc'[q] # "idle" => of'[q] \in Sessions
                            /\ pc'[q] \notin {"idle", "done"} => kind'[q] # None
                            /\ pc'[q] = "write" => todo'[q] # <<>>
    BY <1>1, <1>2, <1>3 DEF Guarded, Locking
  <2>2. ASSUME NEW p \in Sessions, NEW q \in Requests
        PROVE  lock'[p] = q <=> Holding(q)' /\ of'[q] = p
    <3>1. lock[p] = q <=> Holding(q) /\ of[q] = p
      BY DEF Guarded, Locking
    <3>2. of' = of
      BY <1>1
    <3> QED BY <3>1, <3>2, <1>3, <1>4, <1>5
  <2> QED BY <2>1, <2>2 DEF Locking
<1> QED BY <1>6, <1>7 DEF Guarded

LEMMA AnswersGuarded ==
  ASSUME Types, Guarded, NEW r \in Requests, Answers(r)
  PROVE  Guarded'
<1>1. pc[r] = "answer" /\ UNCHANGED <<lock, stage, of, todo, file, backup, orig>>
  BY DEF Answers, At, disk
<1>2. /\ pc'[r] = "done" /\ kind'[r] = None
      /\ \A q \in Requests : q # r => pc'[q] = pc[q] /\ kind'[q] = kind[q]
  BY DEF Answers, Goto, Types, TypeOK
<1>3. \A q \in Requests : q # r => Staged(q)' = Staged(q) /\ Holding(q)' = Holding(q)
  BY <1>1, <1>2 DEF Staged, Holding
<1>4. ~Holding(r) /\ ~Holding(r)' /\ ~Staged(r) /\ ~Staged(r)' /\ r \notin backup
  BY <1>1, <1>2 DEF Staged, Holding, Guarded, Staging
<1>5. Staging'
  BY <1>1, <1>2, <1>3, <1>4 DEF Guarded, Staging
<1>6. Locking'
  BY <1>1, <1>2, <1>3, <1>4 DEF Guarded, Locking
<1> QED BY <1>5, <1>6 DEF Guarded

\* The read of r is over.
LEMMA AfterReadGoes ==
  ASSUME Types, NEW r \in Requests, AfterRead(r)
  PROVE  /\ pc'[r] = IF todo[r] = <<>> THEN "unlock" ELSE "write"
         /\ \A q \in Requests : q # r => pc'[q] = pc[q]
BY DEF AfterRead, Goto, Types, TypeOK

LEMMA HandlerGuarded ==
  ASSUME Types, Guarded, NEW r \in Requests, Handler(r)
  PROVE  Guarded'
<1>1. CASE Stages(r)
  BY <1>1, StagesGuarded
<1>2. CASE Locks(r)
  BY <1>2, LocksGuarded
<1>3. CASE Started(r)
  <2>1. pc[r] = "start" /\ UNCHANGED <<lock, of, kind, stage, file, backup, orig>>
    BY <1>3 DEF Started, At, disk
  <2>2. of[r] \in Sessions /\ Prepares(r, user[of[r]])
    BY <1>3, <2>1 DEF Guarded, Locking, Started, Mine
  <2>3. user[of[r]] \in Users \cup {None}
    BY <2>2 DEF Types, TypeOK
  <2>4. /\ pc'[r] \in {"write", "unlock"} /\ (pc'[r] = "write" => todo'[r] # <<>>)
        /\ \A q \in Requests : q # r => pc'[q] = pc[q] /\ todo'[q] = todo[q]
    BY <2>2, <2>3, PreparesTypes
  <2> QED BY <2>1, <2>4, HolderGuarded DEF Holding
<1>4. CASE Writes(r)
  <2>1. pc[r] = "write" /\ UNCHANGED <<lock, of, kind, stage, file, backup, orig>>
    BY <1>4 DEF Writes, At, disk
  <2>2. /\ pc'[r] = "read"
        /\ \A q \in Requests : q # r => pc'[q] = pc[q] /\ todo'[q] = todo[q]
    BY <1>4 DEF Writes, Goto, Types, TypeOK
  <2> QED BY <2>1, <2>2, HolderGuarded DEF Holding
<1>5. CASE Reads(r)
  <2>1. pc[r] = "read" /\ UNCHANGED <<lock, of, kind, stage, file, backup, orig, todo>>
    BY <1>5 DEF Reads, At, disk
  <2>2. /\ pc'[r] \in {"write", "read", "unlock"} /\ (pc'[r] = "write" => todo'[r] # <<>>)
        /\ \A q \in Requests : q # r => pc'[q] = pc[q]
    BY <1>5, <2>1, AfterReadGoes DEF Reads
  <2> QED BY <2>1, <2>2, HolderGuarded DEF Holding
<1>6. CASE ReadEnds(r)
  <2>1. pc[r] = "read" /\ UNCHANGED <<lock, of, kind, stage, file, backup, orig, todo>>
    BY <1>6 DEF ReadEnds, At, disk
  <2>2. /\ pc'[r] \in {"write", "unlock"} /\ (pc'[r] = "write" => todo'[r] # <<>>)
        /\ \A q \in Requests : q # r => pc'[q] = pc[q]
    BY <1>6, <2>1, AfterReadGoes DEF ReadEnds
  <2> QED BY <2>1, <2>2, HolderGuarded DEF Holding
<1>7. CASE Unlocks(r)
  BY <1>7, UnlocksGuarded
<1>8. CASE Restores(r)
  BY <1>8, RestoresGuarded
<1>9. CASE Answers(r)
  BY <1>9, AnswersGuarded
<1> QED BY <1>1, <1>2, <1>3, <1>4, <1>5, <1>6, <1>7, <1>8, <1>9 DEF Handler

LEMMA ProgramFrames ==
  ASSUME NEW s \in Sessions, Program(s)
  PROVE  ~stopped /\ UNCHANGED Untaken
BY DEF Program, Menu, SignIn, SignUp, App, Takes, Replies, Dies, Untaken

\* Types, and the locks of a server that is not stopped.
Kept == Types /\ (~stopped => Guarded)

LEMMA InitKept == Init => Kept
<1> SUFFICES ASSUME Init PROVE Guarded
  BY InitTypes DEF Kept
<1>1. \A r \in Requests : pc[r] = "idle" /\ ~Staged(r) /\ ~Holding(r) /\ r \notin backup
  BY DEF Init, Staged, Holding
<1>2. file = orig /\ \A s \in Sessions : lock[s] = Nobody
  BY DEF Init
<1>3. Nobody \notin Requests
  BY DEF Requests, Nobody
<1> QED BY <1>1, <1>2, <1>3 DEF Guarded, Staging, Locking

LEMMA NextKept == Kept /\ [Next]_vars => Kept'
<1> SUFFICES ASSUME Kept, [Next]_vars PROVE Kept'
  OBVIOUS
<1> USE DEF Kept
<1>1. ASSUME NEW s \in Sessions, Program(s) PROVE Kept'
  <2>1. Types'
    BY <1>1, MenuTypes, SignInTypes, SignUpTypes, AppTypes, RepliesTypes, DiesTypes
       DEF Program
  <2>2. ~stopped /\ Guarded'
    BY <1>1, ProgramFrames, GuardedFrame DEF Untaken, request, disk
  <2> QED BY <2>1, <2>2
<1>2. ASSUME NEW r \in Requests, SenderOpens(r) PROVE Kept'
  <2>1. ~stopped /\ Guarded'
    BY <1>2, GuardedFrame DEF SenderOpens, request, disk
  <2> QED BY <2>1, <1>2, SenderTypes
<1>3. ASSUME NEW r \in Requests, Begins(r) PROVE Kept'
  <2>1. ~stopped
    BY <1>3 DEF Begins, At
  <2> QED BY <2>1, <1>3, BeginsTypes, BeginsGuarded
<1>4. ASSUME NEW r \in Requests, Handler(r) PROVE Kept'
  <2>1. ~stopped /\ pc[r] # "idle"
    BY <1>4 DEF Handler, At, Stages, Locks, Started, Writes, Reads, ReadEnds, Unlocks,
                Restores, Answers
  <2>2. of[r] \in Sessions /\ (Writes(r) => todo[r] # <<>>)
    BY <2>1 DEF Guarded, Locking, Writes, At
  <2>3. Types'
    BY <1>4, <2>2, StagingTypes, LocksTypes, StartedTypes, WritesTypes, ReadsTypes,
       ReadEndsTypes, UnlocksTypes, AnswersTypes DEF Handler
  <2> QED BY <2>1, <2>3, <1>4, HandlerGuarded
<1>5. CASE ServerStops
  BY <1>5, StopsTypes DEF ServerStops
<1>6. CASE UNCHANGED vars
  <2>1. Types'
    BY <1>6 DEF vars, cli, request, disk, run, Types, TypeOK
  <2>2. (~stopped => Guarded)'
    BY <1>6, GuardedFrame DEF vars, request, disk
  <2> QED BY <2>1, <2>2
<1> QED BY <1>1, <1>2, <1>3, <1>4, <1>5, <1>6 DEF Next

-----------------------------------------------------------------------------
(* Sessions and their holders *)

LEMMA HeldFrame ==
  ASSUME NEW r \in Requests, Types, Held(r), SameRequest(r), Holding(r) => SameSession(of[r])
  PROVE  Held(r)'
<1>1. CASE ~Holding(r)
  <2>1. pc'[r] \notin {"start", "write", "read", "unlock"}
    BY <1>1 DEF Holding, SameRequest
  <2> QED BY <2>1 DEF Held
<1>2. CASE Holding(r)
  <2> DEFINE s == of[r]
             k == Len(todo[r])
  <2>1. SameSession(s) /\ of'[r] = s /\ Len(todo'[r]) = k
    BY <1>2 DEF SameRequest
  <2>2. /\ Quiet(s)' = Quiet(s) /\ OutBy(r)' = OutBy(r) /\ Unprompted(r)' = Unprompted(r)
    BY <2>1 DEF SameSession, Quiet, OutBy, Unprompted
  <2>3. \A i \in Int : LineAt(r, i)' = LineAt(r, i)
    BY DEF SameRequest, LineAt, Auth
  <2>4. k \in Nat
    BY DEF Types
  <2>5. \A i \in Int : Stands(r, i)' = Stands(r, i)
    BY <2>1, <2>3 DEF SameRequest, SameSession, Stands, Awaits, Auth
  <2>6. /\ Waiting(r, k)' = Waiting(r, k) /\ Working(r, k)' = Working(r, k)
        /\ Through(r, k)' = Through(r, k) /\ Died(r)' = Died(r) /\ Over(r)' = Over(r)
    BY <2>1, <2>2, <2>3, <2>4, <2>5
       DEF SameRequest, SameSession, Waiting, Working, Through, Died, Over, Texts
  <2>7. /\ Auth(r)' = Auth(r) /\ Most(r)' = Most(r)
    BY DEF Auth, Most, SameRequest
  <2> QED BY <2>1, <2>2, <2>3, <2>4, <2>5, <2>6, <2>7 DEF Held, SameRequest, SameSession
<1> QED BY <1>1, <1>2

\* A step of the session s and of r, who has its lock, or takes it, or gives it back.
LEMMA SessionStep ==
  ASSUME Types, Guarded, Sessioned, NEW s \in Sessions, NEW r \in Requests,
         lock[s] \in {r, Nobody},
         \A p \in Sessions : p # s => SameSession(p) /\ lock'[p] = lock[p],
         \A q \in Requests : q # r => SameRequest(q),
         Held(r)', sender'[r] = "started" => pc'[r] = "read" /\ kind'[r] = "send",
         lock'[s] = Nobody => Quiet(s)' /\ Settled(s)'
  PROVE  Sessioned'
<1>1. ASSUME NEW p \in Sessions, lock'[p] = Nobody PROVE Quiet(p)' /\ Settled(p)'
  <2>1. CASE p # s
    BY <2>1, <1>1 DEF Sessioned, SameSession, Quiet, Settled
  <2> QED BY <2>1, <1>1
<1>2. ASSUME NEW q \in Requests PROVE Held(q)'
  <2>1. CASE q # r
    <3>1. Holding(q) => of[q] \in Sessions /\ lock[of[q]] = q
      BY DEF Guarded, Locking, Holding
    <3>2. Holding(q) => of[q] # s
      BY <3>1, <2>1 DEF Requests, Nobody
    <3> QED BY <3>1, <3>2, <2>1, HeldFrame DEF Sessioned
  <2> QED BY <2>1
<1>3. ASSUME NEW q \in Requests, sender'[q] = "started" PROVE pc'[q] = "read" /\ kind'[q] = "send"
  BY <1>3 DEF Sessioned, SameRequest
<1> QED BY <1>1, <1>2, <1>3 DEF Sessioned

\* A step of a request that has no lock.
LEMMA OtherStep ==
  ASSUME Types, Sessioned, NEW r \in Requests, ~Holding(r), ~Holding(r)',
         \A p \in Sessions : SameSession(p), lock' = lock,
         \A q \in Requests : q # r => SameRequest(q), sender' = sender,
         \A q \in Requests : of[q] \in Sessions \/ ~Holding(q)
  PROVE  Sessioned'
<1>1. ASSUME NEW p \in Sessions, lock'[p] = Nobody PROVE Quiet(p)' /\ Settled(p)'
  BY <1>1 DEF Sessioned, SameSession, Quiet, Settled
<1>2. ASSUME NEW q \in Requests PROVE Held(q)'
  <2>1. CASE q # r
    BY <2>1, HeldFrame DEF Sessioned
  <2>2. CASE q = r
    <3>1. pc'[q] \notin {"start", "write", "read", "unlock"}
      BY <2>2 DEF Holding
    <3> QED BY <3>1 DEF Held
  <2> QED BY <2>1, <2>2
<1>3. ASSUME NEW q \in Requests, sender'[q] = "started" PROVE pc'[q] = "read" /\ kind'[q] = "send"
  <2>1. pc[q] = "read" /\ kind[q] = "send" /\ q # r
    BY <1>3 DEF Sessioned, Holding
  <2> QED BY <2>1 DEF SameRequest
<1> QED BY <1>1, <1>2, <1>3 DEF Sessioned

\* Only the holder of the lock has anything in the terminal.
LEMMA Holder ==
  ASSUME Types, Guarded, Sessioned, NEW s \in Sessions,
         in[s] # <<>> \/ at[s] \in {"busy", "adding"}
  PROVE  \E r \in Requests :
           /\ lock[s] = r /\ of[r] = s /\ pc[r] = "read" /\ Holding(r)
           /\ Len(todo[r]) \in 0..(Most(r) - 1) /\ kind[r] \in Kinds \ {None}
           /\ Waiting(r, Len(todo[r])) \/ Working(r, Len(todo[r]))
           /\ in[s] # <<>> => Waiting(r, Len(todo[r]))
           /\ at[s] \in {"busy", "adding"} => Working(r, Len(todo[r]))
<1>1. lock[s] # Nobody
  BY DEF Sessioned, Quiet
<1>2. PICK r \in Requests : lock[s] = r
  BY <1>1 DEF Types
<1>3. Holding(r) /\ of[r] = s /\ kind[r] \in Kinds \ {None} /\ Held(r)
  BY <1>2 DEF Guarded, Locking, Sessioned, Holding, Types
<1>4. pc[r] = "read"
  BY <1>3 DEF Held, Holding, Over, Quiet
<1> DEFINE k == Len(todo[r])
<1>5. k \in 0..(Most(r) - 1)
  BY <1>3, <1>4 DEF Held, Most
<1>6. \A i \in Int : Stands(r, i) => at[s] \notin {"busy", "adding"}
  BY <1>3 DEF Stands, Awaits
<1>7. \/ Waiting(r, k) /\ at[s] \notin {"busy", "adding"}
      \/ Working(r, k) /\ in[s] = <<>>
      \/ Through(r, k) \/ Died(r)
  <2>1. Waiting(r, k) \/ Working(r, k) \/ Through(r, k) \/ Died(r)
    BY <1>3, <1>4 DEF Held
  <2>2. k \in Int /\ k + 1 \in Int
    BY DEF Types
  <2>3. Waiting(r, k) => at[s] \notin {"busy", "adding"}
    BY <1>3, <1>6, <2>2 DEF Waiting
  <2>4. Working(r, k) => in[s] = <<>>
    BY <1>3 DEF Working
  <2> QED BY <2>1, <2>3, <2>4
<1>8. Through(r, k) \/ Died(r) => in[s] = <<>> /\ at[s] \notin {"busy", "adding"}
  BY <1>3, <1>5, <1>6 DEF Through, Died
<1>9. Waiting(r, k) \/ Working(r, k)
  BY <1>7, <1>8
<1>10. /\ in[s] # <<>> => Waiting(r, k)
       /\ at[s] \in {"busy", "adding"} => Working(r, k)
  BY <1>7, <1>8
<1> QED BY <1>2, <1>3, <1>4, <1>5, <1>9, <1>10

\* The line taken is the next one of the holder, who reads.
LEMMA Taking ==
  ASSUME Types, Guarded, Sessioned, NEW s \in Sessions, NEW l, Takes(s, l)
  PROVE  \E r \in Requests, k \in Nat :
           /\ lock[s] = r /\ of[r] = s /\ pc[r] = "read" /\ k = Len(todo[r])
           /\ k < Most(r) /\ kind[r] \in Kinds \ {None}
           /\ Line(s) = LineAt(r, k + 1) /\ Stands(r, k + 1) /\ Awaits(r, k + 1, at[s])
           /\ sender[r] # "started" /\ at[s] = l
           /\ by'[s] = r /\ in'[s] = <<>> /\ out[s] = <<>>
<1>1. /\ in[s] # <<>> /\ at[s] = l /\ in'[s] = Tail(in[s]) /\ by'[s] = Head(in[s]).by
  BY TakesTypes
<1>2. PICK r \in Requests :
           /\ lock[s] = r /\ of[r] = s /\ pc[r] = "read"
           /\ Len(todo[r]) \in 0..(Most(r) - 1) /\ kind[r] \in Kinds \ {None}
           /\ Waiting(r, Len(todo[r]))
  BY <1>1, Holder
<1> DEFINE k == Len(todo[r])
           e == [line |-> LineAt(r, k + 1), by |-> r]
<1>3. k \in Nat /\ k < Most(r)
  BY <1>2 DEF Most
<1>4. /\ in[s] = <<e>> /\ out[s] = <<>> /\ Stands(r, k + 1) /\ at[s] # "gone"
      /\ sender[r] # "started"
  BY <1>2 DEF Waiting
<1>5. Awaits(r, k + 1, at[s])
  BY <1>2, <1>4 DEF Stands
<1>6. Head(in[s]) = e /\ Tail(in[s]) = <<>>
  BY <1>4
<1>7. Line(s) = LineAt(r, k + 1) /\ by'[s] = r /\ in'[s] = <<>>
  BY <1>1, <1>6 DEF Line
<1> QED BY <1>1, <1>2, <1>3, <1>4, <1>5, <1>7

-----------------------------------------------------------------------------
(* Steps of the program *)

\* Nothing changes but the program of s, and what r has run.
LEMMA ProgramStep ==
  ASSUME Types, Guarded, Sessioned, NEW s \in Sessions, NEW r \in Requests, lock[s] = r,
         UNCHANGED Untaken,
         \A p \in Sessions : p # s => /\ at'[p] = at[p] /\ as'[p] = as[p] /\ by'[p] = by[p]
                                      /\ in'[p] = in[p] /\ out'[p] = out[p],
         \A q \in Requests : q # r => sender'[q] = sender[q],
         sender'[r] = "started" => kind[r] = "send",
         Len(todo[r]) \in 0..(Most(r) - 1), pc[r] = "read", of[r] = s,
         Waiting(r, Len(todo[r]))' \/ Working(r, Len(todo[r]))' \/ Through(r, Len(todo[r]))'
           \/ Died(r)'
  PROVE  Sessioned'
<1>1. /\ lock' = lock /\ user' = user /\ todo' = todo /\ pc' = pc /\ of' = of /\ kind' = kind
      /\ who' = who /\ last' = last /\ seen' = seen /\ asked' = asked
  BY DEF Untaken, request
<1>2. \A i \in Int : LineAt(r, i)' = LineAt(r, i)
  BY <1>1 DEF LineAt, Auth
<1>3. Held(r)
  BY DEF Sessioned
<1>4. Held(r)'
  <2>1. Most(r)' = Most(r) /\ Auth(r)' = Auth(r)
    BY <1>1 DEF Most, Auth
  <2>2. Len(todo[r]) < Most(r) /\ Len(todo[r]) \in Nat /\ Most(r) \in Nat
    BY DEF Most
  <2>3. \A i \in 1..Len(todo[r]) : todo[r][i] = LineAt(r, Len(todo[r]) + 1 - i)
    BY <1>3 DEF Held
  <2>4. ~Auth(r) => asked[r] = user[s] /\ user[s] # None
    BY <1>3 DEF Held
  <2> QED BY <1>1, <1>2, <2>1, <2>2, <2>3, <2>4 DEF Held
<1>5. \A p \in Sessions : p # s => SameSession(p) /\ lock'[p] = lock[p]
  BY <1>1 DEF SameSession
<1>6. \A q \in Requests : q # r => SameRequest(q)
  BY <1>1 DEF SameRequest
<1>7. lock'[s] # Nobody
  BY <1>1 DEF Requests, Nobody
<1> QED BY <1>1, <1>4, <1>5, <1>6, <1>7, SessionStep

\* What the reader knows when a line was answered with a prompt.
LEMMA Prompted ==
  ASSUME NEW r \in Requests, NEW a \in Words, NEW b \in Words, of'[r] \in Sessions,
         \/ out'[of'[r]] = <<<<b, r>>>>
         \/ out'[of'[r]] = <<<<a, r>>, <<b, r>>>>
  PROVE  /\ OutBy(r)' /\ Last(out'[of'[r]])[1] = b /\ out'[of'[r]] # <<>>
         /\ b \in Prompts => ~Unprompted(r)'
         /\ b \notin Prompts => Unprompted(r)'
<1> DEFINE w == out'[of'[r]]
<1>1. CASE w = <<<<b, r>>>>
  <2>1. Len(w) = 1 /\ w[1] = <<b, r>> /\ Last(w) = <<b, r>> /\ w # <<>>
    BY <1>1 DEF Last
  <2> HIDE DEF w
  <2>2. \A i \in 1..Len(w) : w[i][2] = r
    BY <2>1
  <2>3. Last(w)[1] = b
    BY <2>1
  <2> QED BY <2>1, <2>2, <2>3 DEF w, OutBy, Unprompted
<1>2. CASE w = <<<<a, r>>, <<b, r>>>>
  <2>1. Len(w) = 2 /\ w[1] = <<a, r>> /\ w[2] = <<b, r>> /\ Last(w) = <<b, r>> /\ w # <<>>
    BY <1>2 DEF Last
  <2> HIDE DEF w
  <2>2. \A i \in 1..Len(w) : w[i][2] = r
    BY <2>1
  <2>3. Last(w)[1] = b
    BY <2>1
  <2> QED BY <2>1, <2>2, <2>3 DEF w, OutBy, Unprompted
<1> QED BY <1>1, <1>2

\* Printing on an empty terminal.
LEMMA PrintsFresh ==
  ASSUME Types, NEW s \in Sessions, NEW r \in Requests, by'[s] = r, out[s] = <<>>,
         NEW a \in Words, NEW b \in Words,
         Prints(s, <<>>) \/ Prints(s, <<a>>) \/ Prints(s, <<a, b>>)
  PROVE  /\ \A q \in Sessions : q # s => out'[q] = out[q]
         /\ Prints(s, <<>>) => out'[s] = <<>>
         /\ Prints(s, <<a>>) => out'[s] = <<<<a, r>>>>
         /\ Prints(s, <<a, b>>) => out'[s] = <<<<a, r>>, <<b, r>>>>
<1>1. <<<<a, r>>>> \in Seq(Output) /\ <<<<a, r>>, <<b, r>>>> \in Seq(Output)
  BY DEF Output
<1>2. <<>> \o <<<<a, r>>>> = <<<<a, r>>>>
      /\ <<>> \o <<<<a, r>>, <<b, r>>>> = <<<<a, r>>, <<b, r>>>>
  BY <1>1, ConcatEmptySeq
<1> QED BY <1>2, PrintsTypes DEF Types

LEMMA PrintsFreshOne ==
  ASSUME Types, NEW s \in Sessions, NEW r \in Requests, by'[s] = r, out[s] = <<>>,
         NEW a \in Words, Prints(s, <<a>>)
  PROVE  out'[s] = <<<<a, r>>>> /\ \A q \in Sessions : q # s => out'[q] = out[q]
BY PrintsFresh

LEMMA PrintsFreshTwo ==
  ASSUME Types, NEW s \in Sessions, NEW r \in Requests, by'[s] = r, out[s] = <<>>,
         NEW a \in Words, NEW b \in Words, Prints(s, <<a, b>>)
  PROVE  out'[s] = <<<<a, r>>, <<b, r>>>> /\ \A q \in Sessions : q # s => out'[q] = out[q]
BY PrintsFresh

\* What of r and its session does not change when a line is taken.
LEMMA TakingFrame ==
  ASSUME Types, Guarded, Sessioned, NEW s \in Sessions, NEW l, Takes(s, l),
         NEW state \in Modes, Now(s, state)
  PROVE  /\ UNCHANGED Untaken /\ at'[s] = state
         /\ user' = user /\ todo' = todo /\ pc' = pc /\ of' = of /\ kind' = kind /\ who' = who
         /\ asked' = asked
         /\ \A p \in Sessions : p # s => at'[p] = at[p] /\ by'[p] = by[p] /\ in'[p] = in[p]
<1>1. UNCHANGED Untaken /\ \A p \in Sessions : p # s => by'[p] = by[p] /\ in'[p] = in[p]
  BY TakesTypes
<1>2. at' = [at EXCEPT ![s] = state] /\ at \in [Sessions -> Modes]
  BY DEF Now, Types, TypeOK, Modes
<1> QED BY <1>1, <1>2 DEF Untaken, request

LEMMA MenuSessioned ==
  ASSUME Types, Guarded, Sessioned, NEW s \in Sessions, Menu(s)
  PROVE  Sessioned'
<1>1. Takes(s, "menu") /\ UNCHANGED <<as, run>>
  BY DEF Menu
<1>2. PICK r \in Requests, k \in Nat :
           /\ lock[s] = r /\ of[r] = s /\ pc[r] = "read" /\ k = Len(todo[r])
           /\ k < Most(r) /\ kind[r] \in Kinds \ {None}
           /\ Line(s) = LineAt(r, k + 1) /\ Stands(r, k + 1) /\ Awaits(r, k + 1, "menu")
           /\ sender[r] # "started" /\ at[s] = "menu"
           /\ by'[s] = r /\ in'[s] = <<>> /\ out[s] = <<>>
  BY <1>1, Taking
<1>3. "ask>" \in Words \cap Prompts /\ "invalid" \in Words /\ "menu>" \in Words \cap Prompts
  BY DEF Words, Prompts
<1>4. PICK state \in {"menu", "user", "new_user"} :
        /\ Now(s, state)
        /\ Prints(s, <<"ask>">>) \/ Prints(s, <<"invalid", "menu>">>)
        /\ state = "user" => Line(s) = "1"
        /\ state = "new_user" => Line(s) = "2"
        /\ state = "menu" => Line(s) \notin {"1", "2"}
  BY DEF Menu
<1>5. /\ UNCHANGED Untaken /\ at'[s] = state
      /\ user' = user /\ todo' = todo /\ pc' = pc /\ of' = of /\ kind' = kind /\ who' = who
      /\ \A p \in Sessions : p # s => at'[p] = at[p] /\ by'[p] = by[p] /\ in'[p] = in[p]
  BY <1>1, <1>4, TakingFrame DEF Modes
<1>6. /\ \A p \in Sessions : p # s => out'[p] = out[p]
      /\ out'[s] = <<<<"ask>", r>>>> \/ out'[s] = <<<<"invalid", r>>, <<"menu>", r>>>>
  BY <1>2, <1>3, <1>4, PrintsFresh
<1>7. OutBy(r)' /\ ~Unprompted(r)'
  BY <1>2, <1>3, <1>5, <1>6, Prompted
<1>8. Awaits(r, k, state)
  <2>1. Awaits(r, k + 1, "menu") /\ Line(s) = LineAt(r, k + 1)
    BY <1>2
  <2>2. CASE ~Auth(r)
    <3>1. Line(s) \notin {"1", "2"}
      BY <2>1, <2>2, <1>2 DEF LineAt, Kinds, Commands, Auth
    <3> QED BY <3>1, <2>2, <1>4 DEF Awaits
  <2>3. CASE Auth(r) /\ k = 3
    <3>1. Line(s) = "logout"
      BY <2>1, <2>3 DEF LineAt
    <3> QED BY <3>1, <2>3, <1>4 DEF Awaits
  <2>4. CASE Auth(r) /\ k = 2
    <3>1. Line(s) = IF kind[r] = "login" THEN "1" ELSE "2"
      BY <2>1, <2>4 DEF LineAt
    <3> QED BY <3>1, <2>4, <1>4 DEF Awaits, Auth
  <2>5. ~Auth(r) \/ k = 3 \/ k = 2
    BY <2>1 DEF Awaits
  <2> QED BY <2>2, <2>3, <2>4, <2>5
<1>9. Through(r, k)'
  <2>1. Stands(r, k)'
    BY <1>2, <1>4, <1>5, <1>8 DEF Stands, Awaits, Auth
  <2> QED BY <2>1, <1>1, <1>2, <1>4, <1>5, <1>7 DEF Through, run
<1>10. sender' = sender /\ as' = as
  BY <1>1 DEF run
<1>11. Through(r, Len(todo[r]))' /\ Len(todo[r]) \in 0..(Most(r) - 1)
  BY <1>2, <1>5, <1>9 DEF Most
<1> QED BY <1>2, <1>5, <1>6, <1>10, <1>11, ProgramStep

LEMMA SignInSessioned ==
  ASSUME Types, Guarded, Sessioned, NEW s \in Sessions, SignIn(s)
  PROVE  Sessioned'
<1>1. PICK l \in {"user", "password"} :
        /\ Takes(s, l) /\ UNCHANGED run
        /\ l = "user" => /\ Now(s, "password") /\ Prints(s, <<"ask>">>)
                         /\ as' = [as EXCEPT ![s] = Line(s)]
        /\ l = "password" => /\ Now(s, "app") /\ Prints(s, <<"logged_in", "@app>">>)
                             /\ UNCHANGED as
  BY DEF SignIn
<1>2. PICK r \in Requests, k \in Nat :
           /\ lock[s] = r /\ of[r] = s /\ pc[r] = "read" /\ k = Len(todo[r])
           /\ k < Most(r) /\ kind[r] \in Kinds \ {None}
           /\ Line(s) = LineAt(r, k + 1) /\ Stands(r, k + 1) /\ Awaits(r, k + 1, l)
           /\ sender[r] # "started" /\ at[s] = l
           /\ by'[s] = r /\ in'[s] = <<>> /\ out[s] = <<>>
  BY <1>1, Taking
<1>3. /\ "ask>" \in Words \cap Prompts /\ "logged_in" \in Words /\ "@app>" \in Words \cap Prompts
  BY DEF Words, Prompts
<1>4. kind[r] = "login" /\ (l = "user" => k = 1) /\ (l = "password" => k = 0)
  <2>1. Awaits(r, k + 1, l)
    BY <1>2
  <2>2. CASE l = "user"
    BY <2>1, <2>2 DEF Awaits
  <2>3. CASE l = "password"
    BY <2>1, <2>3 DEF Awaits
  <2> QED BY <2>2, <2>3
<1> DEFINE state == IF l = "user" THEN "password" ELSE "app"
<1>5. /\ UNCHANGED Untaken /\ at'[s] = state
      /\ user' = user /\ todo' = todo /\ pc' = pc /\ of' = of /\ kind' = kind /\ who' = who
      /\ \A p \in Sessions : p # s => at'[p] = at[p] /\ by'[p] = by[p] /\ in'[p] = in[p]
  <2>1. Now(s, state) /\ state \in Modes
    BY <1>1 DEF Modes
  <2> QED BY <2>1, <1>1, TakingFrame
<1>6. /\ \A p \in Sessions : p # s => out'[p] = out[p]
      /\ l = "user" => out'[s] = <<<<"ask>", r>>>>
      /\ l = "password" => out'[s] = <<<<"logged_in", r>>, <<"@app>", r>>>>
  <2>1. by'[s] = r /\ out[s] = <<>>
    BY <1>2
  <2>2. CASE l = "user"
    BY <2>1, <2>2, <1>1, <1>3, PrintsFreshOne
  <2>3. CASE l = "password"
    BY <2>1, <2>3, <1>1, <1>3, PrintsFreshTwo
  <2> QED BY <2>2, <2>3, <1>1
<1>7. OutBy(r)' /\ ~Unprompted(r)' /\ (l = "password" => Last(out'[s])[1] = "@app>")
  BY <1>1, <1>2, <1>3, <1>5, <1>6, Prompted
<1>8. as'[s] = who[r] /\ \A p \in Sessions : p # s => as'[p] = as[p]
  <2>1. ASSUME l = "user" PROVE Line(s) = who[r]
    <3>1. Line(s) = LineAt(r, k + 1) /\ k = 1 /\ Auth(r)
      BY <2>1, <1>2, <1>4 DEF Auth
    <3> QED BY <3>1 DEF LineAt
  <2>2. l = "password" => as[s] = who[r]
    BY <1>2 DEF Stands
  <2> QED BY <2>1, <2>2, <1>1 DEF Types
<1>9. Stands(r, k)'
  BY <1>1, <1>2, <1>4, <1>5, <1>8 DEF Stands, Awaits, Auth
<1>10. l = "password" => \E i \in 1..Len(out'[s]) : out'[s][i][1] = "logged_in"
  <2>1. l = "password" => 1 \in 1..Len(out'[s]) /\ out'[s][1] = <<"logged_in", r>>
    BY <1>6
  <2> QED BY <2>1
<1>11. sender' = sender
  BY <1>1 DEF run
<1>12. Through(r, k)'
  BY <1>1, <1>2, <1>5, <1>7, <1>9, <1>10, <1>11 DEF Through
<1>13. Through(r, Len(todo[r]))' /\ Len(todo[r]) \in 0..(Most(r) - 1)
  BY <1>2, <1>5, <1>12 DEF Most
<1> QED BY <1>2, <1>5, <1>6, <1>8, <1>11, <1>13, ProgramStep

LEMMA SignUpSessioned ==
  ASSUME Types, Guarded, Sessioned, NEW s \in Sessions, SignUp(s)
  PROVE  Sessioned'
<1>1. PICK l \in {"new_user", "new_password"} :
        /\ Takes(s, l) /\ UNCHANGED <<as, run>>
        /\ l = "new_user" => Now(s, "new_password") /\ Prints(s, <<"ask>">>)
        /\ l = "new_password" => Now(s, "adding") /\ Prints(s, <<"authenticating">>)
  BY DEF SignUp
<1>2. PICK r \in Requests, k \in Nat :
           /\ lock[s] = r /\ of[r] = s /\ pc[r] = "read" /\ k = Len(todo[r])
           /\ k < Most(r) /\ kind[r] \in Kinds \ {None}
           /\ Line(s) = LineAt(r, k + 1) /\ Stands(r, k + 1) /\ Awaits(r, k + 1, l)
           /\ sender[r] # "started" /\ at[s] = l
           /\ by'[s] = r /\ in'[s] = <<>> /\ out[s] = <<>>
  BY <1>1, Taking
<1>3. "ask>" \in Words \cap Prompts /\ "authenticating" \in Words \ Prompts
  BY DEF Words, Prompts
<1>4. kind[r] = "signup" /\ (l = "new_user" => k = 1) /\ (l = "new_password" => k = 0)
  <2>1. Awaits(r, k + 1, l)
    BY <1>2
  <2>2. CASE l = "new_user"
    BY <2>1, <2>2 DEF Awaits
  <2>3. CASE l = "new_password"
    BY <2>1, <2>3 DEF Awaits
  <2> QED BY <2>2, <2>3
<1> DEFINE state == IF l = "new_user" THEN "new_password" ELSE "adding"
<1>5. /\ UNCHANGED Untaken /\ at'[s] = state
      /\ user' = user /\ todo' = todo /\ pc' = pc /\ of' = of /\ kind' = kind /\ who' = who
      /\ \A p \in Sessions : p # s => at'[p] = at[p] /\ by'[p] = by[p] /\ in'[p] = in[p]
  <2>1. Now(s, state) /\ state \in Modes
    BY <1>1 DEF Modes
  <2> QED BY <2>1, <1>1, TakingFrame
<1>6. /\ \A p \in Sessions : p # s => out'[p] = out[p]
      /\ l = "new_user" => out'[s] = <<<<"ask>", r>>>>
      /\ l = "new_password" => out'[s] = <<<<"authenticating", r>>>>
  <2>1. by'[s] = r /\ out[s] = <<>>
    BY <1>2
  <2>2. CASE l = "new_user"
    BY <2>1, <2>2, <1>1, <1>3, PrintsFreshOne
  <2>3. CASE l = "new_password"
    BY <2>1, <2>3, <1>1, <1>3, PrintsFreshOne
  <2> QED BY <2>2, <2>3, <1>1
<1>7. OutBy(r)' /\ (l = "new_user" => ~Unprompted(r)') /\ (l = "new_password" => Unprompted(r)')
  BY <1>1, <1>2, <1>3, <1>5, <1>6, Prompted
<1>8. sender' = sender /\ as' = as
  BY <1>1 DEF run
<1>9. Through(r, k)' \/ Working(r, k)'
  <2>1. CASE l = "new_user"
    <3>1. Stands(r, k)'
      BY <2>1, <1>2, <1>4, <1>5 DEF Stands, Awaits, Auth
    <3> QED BY <3>1, <2>1, <1>2, <1>5, <1>7, <1>8 DEF Through
  <2>2. CASE l = "new_password"
    BY <2>2, <1>2, <1>4, <1>5, <1>7 DEF Working
  <2> QED BY <2>1, <2>2, <1>1
<1>10. /\ Through(r, Len(todo[r]))' \/ Working(r, Len(todo[r]))'
       /\ Len(todo[r]) \in 0..(Most(r) - 1)
  BY <1>2, <1>5, <1>9 DEF Most
<1> QED BY <1>2, <1>5, <1>6, <1>8, <1>10, ProgramStep

\* The command that is run is the reader's, and it is run for it.
LEMMA AppSessioned ==
  ASSUME Types, Guarded, Sessioned, NEW s \in Sessions, App(s)
  PROVE  /\ Sessioned' /\ UNCHANGED Untaken /\ sent' = sent
         /\ \A q \in Requests :
              ran'[q] # ran[q] => ran'[q] = asked[q] /\ pc[q] = "read"
<1>1. Takes(s, "app") /\ as' = as /\ sent' = sent
  BY DEF App, run
<1>2. PICK r \in Requests, k \in Nat :
           /\ lock[s] = r /\ of[r] = s /\ pc[r] = "read" /\ k = Len(todo[r])
           /\ k < Most(r) /\ kind[r] \in Kinds \ {None}
           /\ Line(s) = LineAt(r, k + 1) /\ Stands(r, k + 1) /\ Awaits(r, k + 1, "app")
           /\ sender[r] # "started" /\ at[s] = "app"
           /\ by'[s] = r /\ in'[s] = <<>> /\ out[s] = <<>>
  BY <1>1, Taking
<1>3. "menu>" \in Words \cap Prompts /\ "running" \in Words \ Prompts
  BY DEF Words, Prompts
<1>4. \/ ~Auth(r) /\ k = 0 /\ Line(s) = kind[r] /\ kind[r] \in Commands \cup {"logout"}
      \/ Auth(r) /\ k = 3 /\ Line(s) = "logout"
  <2>1. Awaits(r, k + 1, "app")
    BY <1>2
  <2>2. CASE Auth(r)
    <3>1. k = 3
      BY <2>1, <2>2 DEF Awaits
    <3>2. Line(s) = LineAt(r, k + 1)
      BY <1>2
    <3>3. Line(s) = "logout"
      BY <3>1, <3>2, <2>2 DEF LineAt
    <3> QED BY <3>1, <3>3, <2>2
  <2>3. CASE ~Auth(r)
    BY <2>3, <1>2 DEF Auth, Most, LineAt, Kinds
  <2> QED BY <2>2, <2>3
<1>5. ~Auth(r) => asked[r] = user[s] /\ user[s] # None
  BY <1>2 DEF Sessioned, Held
<1>6. as[s] = user[s] /\ user[s] # None
  <2>1. Stands(r, k + 1) /\ of[r] = s /\ at[s] = "app" /\ k + 1 # 0
    BY <1>2
  <2> QED BY <2>1 DEF Stands
<1>7. CASE Line(s) = "logout"
  <2>1. Now(s, "menu") /\ Prints(s, <<"menu>">>) /\ UNCHANGED run
    BY <1>7 DEF App, Commands
  <2>2. /\ UNCHANGED Untaken /\ at'[s] = "menu"
        /\ user' = user /\ todo' = todo /\ pc' = pc /\ of' = of /\ kind' = kind /\ who' = who
        /\ \A p \in Sessions : p # s => at'[p] = at[p] /\ by'[p] = by[p] /\ in'[p] = in[p]
    BY <1>1, <2>1, TakingFrame DEF Modes
  <2>3. out'[s] = <<<<"menu>", r>>>> /\ \A p \in Sessions : p # s => out'[p] = out[p]
    BY <1>2, <1>3, <2>1, PrintsFresh
  <2>4. OutBy(r)' /\ ~Unprompted(r)'
    BY <1>2, <1>3, <2>2, <2>3, Prompted
  <2>5. Stands(r, k)'
    BY <1>2, <1>4, <2>2 DEF Stands, Awaits, Auth
  <2>6. sender' = sender /\ ran' = ran
    BY <2>1 DEF run
  <2>7. Through(r, k)'
    BY <2>2, <2>4, <2>5, <2>6, <1>2 DEF Through
  <2>8. Through(r, Len(todo[r]))' /\ Len(todo[r]) \in 0..(Most(r) - 1)
    BY <2>2, <2>7, <1>2 DEF Most
  <2>9. Sessioned'
    BY <1>1, <1>2, <2>2, <2>3, <2>6, <2>8, ProgramStep
  <2> QED BY <2>2, <2>6, <2>9, <1>1
<1>8. CASE Line(s) # "logout"
  <2>1. ~Auth(r) /\ k = 0 /\ Line(s) = kind[r] /\ kind[r] \in Commands
    BY <1>4, <1>8
  <2>2. /\ Now(s, "busy")
        /\ Prints(s, <<"running">>) \/ Prints(s, <<>>)
        /\ ran' = [ran EXCEPT ![by'[s]] = as[s]]
        /\ sender' = [sender EXCEPT ![by'[s]] = IF Line(s) = "send" THEN "started" ELSE @]
    BY <1>8, <2>1 DEF App
  <2>3. /\ UNCHANGED Untaken /\ at'[s] = "busy"
        /\ user' = user /\ todo' = todo /\ pc' = pc /\ of' = of /\ kind' = kind /\ who' = who
        /\ \A p \in Sessions : p # s => at'[p] = at[p] /\ by'[p] = by[p] /\ in'[p] = in[p]
    BY <1>1, <2>2, TakingFrame DEF Modes
  <2>4. /\ out'[s] = <<<<"running", r>>>> \/ out'[s] = <<>>
        /\ \A p \in Sessions : p # s => out'[p] = out[p]
    BY <1>2, <1>3, <2>2, PrintsFresh
  <2>5. OutBy(r)' /\ Unprompted(r)'
    <3>1. CASE out'[s] = <<>>
      BY <3>1, <1>2, <2>3 DEF OutBy, Unprompted
    <3>2. CASE out'[s] = <<<<"running", r>>>>
      BY <3>2, <1>2, <1>3, <2>3, Prompted
    <3> QED BY <3>1, <3>2, <2>4
  <2>6. Working(r, k)'
    BY <1>1, <1>2, <1>6, <2>1, <2>3, <2>5 DEF Working
  <2>7. Working(r, Len(todo[r]))' /\ Len(todo[r]) \in 0..(Most(r) - 1)
    BY <2>3, <2>6, <1>2 DEF Most
  <2>8. /\ \A q \in Requests : q # r => sender'[q] = sender[q] /\ ran'[q] = ran[q]
        /\ sender'[r] = "started" => kind[r] = "send"
        /\ ran'[r] = asked[r]
    BY <1>2, <1>5, <1>6, <2>1, <2>2 DEF Types
  <2>9. Sessioned'
    BY <1>1, <1>2, <2>3, <2>4, <2>7, <2>8, ProgramStep
  <2> QED BY <2>3, <2>8, <2>9, <1>1, <1>2
<1> QED BY <1>7, <1>8

LEMMA RepliesSessioned ==
  ASSUME Types, Guarded, Sessioned, NEW s \in Sessions, Replies(s)
  PROVE  Sessioned'
<1>1. /\ at[s] \in {"busy", "adding"} /\ (at[s] = "busy" => sender[by[s]] # "started")
      /\ UNCHANGED <<as, by, in, run, Untaken>>
  BY DEF Replies, Untaken
<1>2. PICK r \in Requests :
           /\ lock[s] = r /\ of[r] = s /\ pc[r] = "read"
           /\ Len(todo[r]) \in 0..(Most(r) - 1)
           /\ Working(r, Len(todo[r]))
  BY <1>1, Holder
<1>3. /\ Len(todo[r]) = 0 /\ in[s] = <<>> /\ by[s] = r /\ OutBy(r)
      /\ \/ kind[r] = "signup" /\ at[s] = "adding"
         \/ kind[r] \in Commands /\ at[s] = "busy" /\ as[s] = user[s] /\ user[s] # None
  BY <1>2 DEF Working
<1> DEFINE b == IF at[s] = "busy" THEN "@app>" ELSE "menu>"
           state == IF at[s] = "busy" THEN "app" ELSE "menu"
           answer == <<<<"response", r>>, <<b, r>>>>
<1>4. "response" \in Words /\ "menu>" \in Words \cap Prompts /\ "@app>" \in Words \cap Prompts
  BY DEF Words, Prompts
<1>5. /\ at' = [at EXCEPT ![s] = state] /\ Prints(s, <<"response", b>>) /\ b \in Words \cap Prompts
  BY <1>4 DEF Replies, Now
<1>6. by'[s] = r /\ out \in [Sessions -> Seq(Output)]
  BY <1>1, <1>3 DEF Types
<1>7. out'[s] = out[s] \o answer /\ \A p \in Sessions : p # s => out'[p] = out[p]
  BY <1>4, <1>5, <1>6, PrintsTypes
<1>8. /\ at'[s] = state /\ user' = user /\ todo' = todo /\ pc' = pc /\ of' = of /\ kind' = kind
      /\ who' = who /\ sender' = sender
      /\ \A p \in Sessions : p # s => at'[p] = at[p]
  BY <1>1, <1>5 DEF Untaken, request, run, Types, TypeOK
<1>9. OutBy(r)' /\ ~Unprompted(r)' /\ Last(out'[s])[1] = b
  <2>1. out[s] \in Seq(Output) /\ answer \in Seq(Output) /\ Len(answer) = 2
        /\ answer[1] = <<"response", r>> /\ answer[2] = <<b, r>>
    BY <1>4, <1>5, <1>6 DEF Output
  <2>2. \A i \in 1..Len(out[s]) : out[s][i][2] = r
    BY <1>2, <1>3 DEF OutBy
  <2> DEFINE w == out[s] \o answer
  <2> HIDE DEF answer
  <2>3. /\ Len(w) = Len(out[s]) + 2 /\ w \in Seq(Output) /\ w # <<>> /\ Last(w) = answer[2]
        /\ \A i \in 1..Len(w) : w[i] = IF i \leq Len(out[s]) THEN out[s][i]
                                       ELSE answer[i - Len(out[s])]
    <3>0. /\ w \in Seq(Output) /\ Len(w) = Len(out[s]) + Len(answer)
          /\ \A i \in 1..(Len(out[s]) + Len(answer)) :
               w[i] = IF i <= Len(out[s]) THEN out[s][i] ELSE answer[i - Len(out[s])]
      BY <2>1, ConcatProperties, Zenon
    <3> HIDE DEF w
    <3>1. /\ Len(w) = Len(out[s]) + 2 /\ w \in Seq(Output)
          /\ \A i \in 1..Len(w) : w[i] = IF i \leq Len(out[s]) THEN out[s][i]
                                         ELSE answer[i - Len(out[s])]
      BY <2>1, <3>0
    <3>2. w # <<>> /\ w[Len(w)] = answer[2]
      BY <2>1, <3>1
    <3> QED BY <3>1, <3>2 DEF Last
  <2>4. ASSUME NEW i \in 1..Len(w) PROVE w[i][2] = r
    <3>1. CASE i \leq Len(out[s])
      BY <3>1, <2>1, <2>2, <2>3
    <3>2. CASE i = Len(out[s]) + 1
      BY <3>2, <2>1, <2>3
    <3>3. CASE i = Len(out[s]) + 2
      BY <3>3, <2>1, <2>3
    <3> QED BY <3>1, <3>2, <3>3, <2>1, <2>3
  <2>5. Last(w)[1] = b
    BY <2>1, <2>3
  <2> HIDE DEF w
  <2>6. out'[of'[r]] = w /\ out'[s] = w
    BY <1>2, <1>7, <1>8 DEF w, answer
  <2>7. w # <<>>
    BY <2>3
  <2> QED BY <2>4, <2>5, <2>6, <2>7, <1>5 DEF OutBy, Unprompted
<1>10. sender[r] # "started"
  BY <1>1, <1>3 DEF Sessioned, Commands
<1>11. Stands(r, 0)'
  BY <1>1, <1>2, <1>3, <1>8 DEF Stands, Awaits, Auth, Commands
<1>12. Through(r, 0)'
  BY <1>1, <1>2, <1>3, <1>8, <1>9, <1>10, <1>11 DEF Through, Commands
<1>13. Through(r, Len(todo[r]))'
  BY <1>3, <1>8, <1>12
<1> QED BY <1>1, <1>2, <1>7, <1>8, <1>10, <1>13, ProgramStep

LEMMA DiesSessioned ==
  ASSUME Types, Guarded, Sessioned, NEW s \in Sessions, Dies(s)
  PROVE  Sessioned'
<1>1. at[s] # "gone" /\ UNCHANGED <<out, run, Untaken>>
  BY DEF Dies, Untaken
<1>2. /\ at'[s] = "gone" /\ in'[s] = <<>> /\ out' = out /\ sender' = sender /\ lock' = lock
      /\ user' = user /\ todo' = todo /\ pc' = pc /\ of' = of /\ kind' = kind /\ who' = who
      /\ last' = last /\ seen' = seen /\ asked' = asked
      /\ \A p \in Sessions : p # s => /\ at'[p] = at[p] /\ as'[p] = as[p] /\ by'[p] = by[p]
                                      /\ in'[p] = in[p]
  BY <1>1 DEF Dies, Now, Untaken, request, run, Types, TypeOK
<1>3. /\ \A p \in Sessions : p # s => SameSession(p) /\ lock'[p] = lock[p]
      /\ \A q \in Requests : SameRequest(q)
  BY <1>2 DEF SameSession, SameRequest
<1>4. \A q \in Requests : sender'[q] = "started" => pc'[q] = "read" /\ kind'[q] = "send"
  BY <1>2 DEF Sessioned
<1>5. CASE lock[s] = Nobody
  <2>1. Quiet(s)' /\ Settled(s)'
    BY <1>2, <1>5 DEF Sessioned, Quiet, Settled
  <2>2. PICK r \in Requests : of[r] = s /\ pc[r] \notin {"idle", "done"}
    BY DEF Dies
  <2>3. ~Holding(r)
    BY <2>2, <1>5 DEF Guarded, Locking, Requests, Nobody
  <2>4. Held(r)'
    BY <2>3, <1>3, HeldFrame DEF Sessioned
  <2> QED BY <2>1, <2>4, <1>3, <1>4, <1>5, SessionStep
<1>6. CASE lock[s] # Nobody
  <2>1. PICK r \in Requests : lock[s] = r
    BY <1>6 DEF Types
  <2>2. Holding(r) /\ of[r] = s /\ Held(r)
    BY <2>1 DEF Guarded, Locking, Sessioned
  <2> DEFINE k == Len(todo[r])
  <2>3. k \in Nat /\ k' = k /\ Most(r)' = Most(r) /\ Auth(r)' = Auth(r)
        /\ \A i \in Int : LineAt(r, i)' = LineAt(r, i)
    BY <1>2 DEF Types, Most, Auth, LineAt
  <2>4. \A i \in Int : Stands(r, i)'
    BY <1>2, <2>2 DEF Stands
  <2>5. OutBy(r)' = OutBy(r) /\ Unprompted(r)' = Unprompted(r)
    BY <1>2 DEF OutBy, Unprompted
  <2>6. Held(r)'
    <3>1. CASE pc[r] = "start"
      BY <3>1, <1>2, <2>2 DEF Held
    <3>2. CASE pc[r] = "write"
      <4>1. Quiet(s)'
        BY <3>2, <1>2, <2>2 DEF Held, Quiet
      <4> QED BY <4>1, <3>2, <1>2, <2>2, <2>3, <2>4 DEF Held
    <3>3. CASE pc[r] = "read"
      <4>1. OutBy(r) /\ (sender[r] = "started" => Unprompted(r))
        <5>1. Waiting(r, k) \/ Working(r, k) \/ Through(r, k) \/ Died(r)
          BY <3>3, <2>2 DEF Held
        <5>2. CASE Waiting(r, k)
          BY <5>2, <2>2 DEF Waiting, OutBy
        <5>3. CASE Working(r, k)
          BY <5>3 DEF Working
        <5>4. CASE Through(r, k)
          BY <5>4 DEF Through
        <5>5. CASE Died(r)
          BY <5>5 DEF Died
        <5> QED BY <5>1, <5>2, <5>3, <5>4, <5>5
      <4>2. Died(r)'
        BY <4>1, <1>2, <2>2, <2>5 DEF Died
      <4> QED BY <4>2, <3>3, <1>2, <2>2, <2>3 DEF Held
    <3>4. CASE pc[r] = "unlock"
      <4>1. Over(r)'
        BY <3>4, <1>2, <2>2, <2>4 DEF Held, Over, Quiet
      <4> QED BY <4>1, <3>4, <1>2 DEF Held
    <3> QED BY <3>1, <3>2, <3>3, <3>4, <2>2 DEF Holding
  <2>7. lock'[s] # Nobody
    BY <1>2, <1>6
  <2> QED BY <2>1, <2>6, <2>7, <1>3, <1>4, SessionStep
<1> QED BY <1>5, <1>6

LEMMA OpensSessioned ==
  ASSUME Types, Guarded, Sessioned, NEW r \in Requests, SenderOpens(r)
  PROVE  Sessioned' /\ sent'[r] = r
<1>1. /\ sender[r] = "started" /\ sender' = [sender EXCEPT ![r] = "over"]
      /\ sent' = [sent EXCEPT ![r] = file]
      /\ UNCHANGED <<cli, user, lock, stage, request, disk, ran, stopped, asked, orig, lagged>>
  BY DEF SenderOpens
<1>2. pc[r] = "read" /\ kind[r] = "send"
  BY <1>1 DEF Sessioned
<1>3. file = r
  BY <1>2 DEF Guarded, Staging, Staged
<1>4. Holding(r) /\ of[r] \in Sessions /\ lock[of[r]] = r
  BY <1>2 DEF Guarded, Locking, Holding
<1> DEFINE s == of[r]
<1>5. /\ sender'[r] = "over" /\ at' = at /\ as' = as /\ by' = by /\ in' = in /\ out' = out
      /\ lock' = lock /\ user' = user /\ todo' = todo /\ pc' = pc /\ of' = of /\ kind' = kind
      /\ who' = who /\ last' = last /\ seen' = seen /\ asked' = asked
      /\ \A q \in Requests : q # r => sender'[q] = sender[q]
  BY <1>1 DEF cli, request, Types
<1>6. /\ \A p \in Sessions : SameSession(p)
      /\ \A q \in Requests : q # r => SameRequest(q)
  BY <1>5 DEF SameSession, SameRequest
<1>7. Held(r)'
  <2> DEFINE k == Len(todo[r])
  <2>1. /\ Most(r)' = Most(r) /\ Auth(r)' = Auth(r) /\ k' = k
        /\ \A i \in Int : LineAt(r, i)' = LineAt(r, i)
    BY <1>5 DEF Most, Auth, LineAt
  <2>2. k \in Nat /\ Held(r)
    BY DEF Types, Sessioned
  <2>3. Working(r, k) \/ Died(r)
    BY <1>1, <1>2, <2>2 DEF Held, Waiting, Through
  <2>4. Working(r, k)' = Working(r, k) /\ (Died(r) => Died(r)')
    BY <1>5 DEF Working, Died, OutBy, Unprompted
  <2> QED BY <1>2, <1>5, <2>1, <2>2, <2>3, <2>4 DEF Held
<1>8. Sessioned'
  <2>1. lock'[s] # Nobody
    BY <1>4, <1>5 DEF Requests, Nobody
  <2> QED BY <2>1, <1>4, <1>5, <1>6, <1>7, SessionStep
<1> QED BY <1>1, <1>3, <1>8 DEF Types

-----------------------------------------------------------------------------
(* Steps of the holder of a lock *)

\* The lines of auth and command, while the program is where the browser thinks.
LEMMA ScriptLines ==
  ASSUME Types, NEW r \in Requests, kind[r] \in Kinds \ {None}, NEW shown \in Users \cup {None}
  PROVE  LET w == Script(r, shown)
         IN  /\ w \in Seq(Lines)
             /\ Len(w) = IF Auth(r) THEN (IF shown = None THEN 3 ELSE 4)
                         ELSE (IF shown = None THEN 0 ELSE 1)
             /\ \A i \in 1..Len(w) : w[i] = LineAt(r, Len(w) + 1 - i)
<1> DEFINE w == Script(r, shown)
<1>1. w \in Seq(Lines)
  BY ScriptTypes
<1>2. CASE ~Auth(r)
  BY <1>1, <1>2 DEF Script, LineAt
<1>3. CASE Auth(r)
  <2> DEFINE v == <<IF kind[r] = "login" THEN "1" ELSE "2", who[r], "secret">>
  <2>1. v[1] = LineAt(r, 3) /\ v[2] = LineAt(r, 2) /\ v[3] = LineAt(r, 1)
    BY <1>3 DEF LineAt
  <2>2. LineAt(r, 4) = "logout"
    BY <1>3 DEF LineAt
  <2>3. w = IF shown = None THEN <<>> \o v ELSE <<"logout">> \o v
    BY <1>3 DEF Script
  <2>4. v \in Seq(Lines) /\ Len(v) = 3
    <3>1. who[r] \in Lines /\ "1" \in Lines /\ "2" \in Lines /\ "secret" \in Lines
      BY DEF Types, Lines
    <3> QED BY <3>1
  <2> HIDE DEF v
  <2>5. CASE shown = None
    <3>1. w = v
      BY <2>3, <2>4, <2>5
    <3>2. \A i \in 1..3 : v[i] = LineAt(r, 3 + 1 - i)
      <4>1. \A i \in 1..3 : \/ i = 1 /\ 3 + 1 - i = 3
                            \/ i = 2 /\ 3 + 1 - i = 2
                            \/ i = 3 /\ 3 + 1 - i = 1
        OBVIOUS
      <4> QED BY <4>1, <2>1
    <3> QED BY <3>1, <3>2, <2>4, <2>5, <1>1, <1>3
  <2>6. CASE shown # None
    <3> DEFINE u == <<"logout">>
    <3>1. u \in Seq(Lines) /\ Len(u) = 1 /\ u[1] = "logout"
      BY DEF Lines
    <3>2. w = u \o v
      BY <2>3, <2>6
    <3> HIDE DEF u, w
    <3>3. /\ Len(w) = 4 /\ w[1] = u[1] /\ w[2] = v[1] /\ w[3] = v[2] /\ w[4] = v[3]
      <4>1. /\ Len(u \o v) = Len(u) + Len(v)
            /\ \A i \in 1..(Len(u) + Len(v)) :
                 (u \o v)[i] = IF i <= Len(u) THEN u[i] ELSE v[i - Len(u)]
        BY <3>1, <2>4, ConcatProperties, Zenon
      <4> QED BY <4>1, <3>1, <3>2, <2>4
    <3>4. \A i \in 1..4 : w[i] = LineAt(r, 4 + 1 - i)
      <4>1. \A i \in 1..4 : \/ i = 1 /\ 4 + 1 - i = 4
                            \/ i = 2 /\ 4 + 1 - i = 3
                            \/ i = 3 /\ 4 + 1 - i = 2
                            \/ i = 4 /\ 4 + 1 - i = 1
        OBVIOUS
      <4> QED BY <4>1, <3>1, <3>3, <2>1, <2>2
    <3>5. w \in Seq(Lines)
      BY <1>1 DEF w
    <3> QED BY <3>3, <3>4, <3>5, <2>6, <1>3 DEF w
  <2> QED BY <2>5, <2>6
<1> QED BY <1>2, <1>3

\* The lines are ready for a program that nothing is on its way to.
LEMMA PreparesHeld ==
  ASSUME Types, NEW r \in Requests, kind[r] \in Kinds \ {None}, of[r] \in Sessions,
         Prepares(r, user[of[r]]),
         at[of[r]] \in {"menu", "app", "gone"},
         at[of[r]] = "app" => as[of[r]] = user[of[r]] /\ user[of[r]] # None,
         in[of[r]] = <<>>, out'[of[r]] = <<>>,
         UNCHANGED <<at, as, by, in, user, of, kind, who>>
  PROVE  Held(r)' /\ pc'[r] \in {"write", "unlock"}
<1> DEFINE s == of[r]
           w == Script(r, user[s])
           k == Len(w)
<1>0. w' = w /\ k' = k
  BY DEF Script, Auth
<1>1. user[s] \in Users \cup {None}
  BY DEF Types, TypeOK
<1>2. /\ todo'[r] = w /\ asked'[r] = (IF Auth(r) THEN asked[r] ELSE user[s])
      /\ pc'[r] = IF w = <<>> THEN "unlock" ELSE "write"
  BY <1>1, PreparesTypes
<1>3. /\ w \in Seq(Lines)
      /\ k = IF Auth(r) THEN (IF user[s] = None THEN 3 ELSE 4)
             ELSE (IF user[s] = None THEN 0 ELSE 1)
      /\ \A i \in 1..k : w[i] = LineAt(r, k + 1 - i)
  BY <1>1, ScriptLines
<1>4. /\ Auth(r)' = Auth(r) /\ Most(r)' = Most(r)
      /\ \A i \in Int : LineAt(r, i)' = LineAt(r, i)
  BY DEF Auth, Most, LineAt
<1>5. Quiet(s)'
  BY DEF Quiet
<1> HIDE DEF w
<1>6. Stands(r, k)'
  <2>1. at'[s] = at[s] /\ as'[s] = as[s] /\ user'[s] = user[s] /\ of'[r] = s /\ kind'[r] = kind[r]
    OBVIOUS
  <2>2. at[s] = "app" => user[s] # None
    OBVIOUS
  <2>3. at[s] = "gone" \/ Awaits(r, k, at[s])'
    BY <1>0, <1>3, <1>4, <2>1, <2>2 DEF Awaits
  <2>4. at[s] = "app" => ~(kind[r] = "login" /\ k = 0)
    BY <1>3 DEF Auth
  <2> QED BY <1>0, <2>1, <2>2, <2>3, <2>4 DEF Stands
<1>7. CASE w = <<>>
  <2>1. k = 0 /\ ~Auth(r) /\ user[s] = None
    BY <1>3, <1>7
  <2>2. at'[s] # "app" /\ Stands(r, 0)' /\ of'[r] = s
    BY <1>0, <2>1, <1>6
  <2>3. Over(r)'
    BY <2>2, <1>5 DEF Over
  <2> QED BY <2>3, <1>2, <1>7 DEF Held
<1>8. CASE w # <<>>
  <2>1. k > 0 /\ k \in 0..Most(r) /\ (~Auth(r) => user[s] # None)
    BY <1>3, <1>8 DEF Most
  <2>2. pc'[r] = "write" /\ Len(todo'[r]) = k /\ of'[r] = s /\ user'[s] = user[s]
    BY <1>2, <1>8
  <2>3. ~Auth(r) => asked'[r] = user[s]
    BY <1>2
  <2>4. \A i \in 1..k : todo'[r][i] = LineAt(r, k + 1 - i)'
    BY <1>0, <1>2, <1>3, <1>4
  <2> HIDE DEF k
  <2> QED BY <1>0, <1>4, <1>5, <1>6, <2>1, <2>2, <2>3, <2>4 DEF Held
<1> QED BY <1>7, <1>8, <1>2

LEMMA LocksSessioned ==
  ASSUME Types, Guarded, Sessioned, NEW r \in Requests, Locks(r)
  PROVE  Sessioned'
<1> DEFINE s == of[r]
<1>1. /\ pc[r] = "lock" /\ lock[s] = Nobody /\ lock' = [lock EXCEPT ![s] = r]
      /\ UNCHANGED <<of, kind, who, last, seen, sender, as, by, in>>
  BY DEF Locks, At, Mine, run, cli
<1>2. s \in Sessions /\ kind[r] \in Kinds \ {None} /\ ~Holding(r)
  BY <1>1 DEF Guarded, Locking, Types, Holding
<1>3. Quiet(s) /\ Settled(s)
  BY <1>1, <1>2 DEF Sessioned
<1>4. lock'[s] = r /\ \A p \in Sessions : p # s => lock'[p] = lock[p]
  BY <1>1, <1>2 DEF Types
<1>5. CASE at[s] # "gone"
  <2>1. Prepares(r, user[s]) /\ UNCHANGED <<at, out, user>>
    BY <1>5 DEF Locks, Mine, cli
  <2>2. user[s] \in Users \cup {None}
    BY <1>2 DEF Types, TypeOK
  <2>3. \A q \in Requests : q # r => /\ todo'[q] = todo[q] /\ asked'[q] = asked[q]
                                     /\ pc'[q] = pc[q]
    BY <2>1, <2>2, PreparesTypes
  <2>4. Held(r)'
    BY <1>1, <1>2, <1>3, <2>1, PreparesHeld DEF Quiet, Settled
  <2>5. \A q \in Requests : q # r => SameRequest(q)
    BY <1>1, <2>3 DEF SameRequest
  <2>6. \A p \in Sessions : SameSession(p)
    BY <1>1, <2>1 DEF SameSession
  <2>7. sender'[r] # "started"
    BY <1>1 DEF Sessioned
  <2>8. lock'[s] # Nobody
    BY <1>4 DEF Requests, Nobody
  <2> QED BY <1>1, <1>2, <1>4, <2>4, <2>5, <2>6, <2>7, <2>8, SessionStep
<1>6. CASE at[s] = "gone"
  <2>1. /\ at' = [at EXCEPT ![s] = "menu"]
        /\ out' = [out EXCEPT ![s] = <<<<"menu>", Nobody>>>>]
        /\ user' = [user EXCEPT ![s] = None]
        /\ pc' = [pc EXCEPT ![r] = "start"] /\ UNCHANGED <<todo, asked>>
    BY <1>6 DEF Locks, Mine, Goto
  <2>2. /\ at'[s] = "menu" /\ user'[s] = None /\ pc'[r] = "start" /\ of'[r] = s
        /\ in'[s] = <<>>
    BY <1>1, <1>2, <1>3, <2>1 DEF Types, TypeOK, Quiet
  <2>3. Held(r)'
    BY <2>2 DEF Held
  <2>4. \A q \in Requests : q # r => SameRequest(q)
    BY <1>1, <2>1 DEF SameRequest, Types, TypeOK
  <2>5. \A p \in Sessions : p # s => SameSession(p)
    BY <1>1, <2>1 DEF SameSession, Types, TypeOK
  <2>6. sender'[r] # "started"
    BY <1>1 DEF Sessioned
  <2>7. lock'[s] # Nobody
    BY <1>4 DEF Requests, Nobody
  <2> QED BY <1>1, <1>2, <1>4, <2>3, <2>4, <2>5, <2>6, <2>7, SessionStep
<1> QED BY <1>5, <1>6

LEMMA StartedSessioned ==
  ASSUME Types, Guarded, Sessioned, NEW r \in Requests, Started(r)
  PROVE  Sessioned'
<1> DEFINE s == of[r]
<1>1. /\ pc[r] = "start" /\ out' = [out EXCEPT ![s] = <<>>] /\ Prepares(r, user[s])
      /\ UNCHANGED <<at, as, by, in, user, lock, of, kind, who, last, seen, sender>>
  BY DEF Started, At, Mine, run
<1>2. s \in Sessions /\ kind[r] \in Kinds \ {None} /\ lock[s] = r
  BY <1>1 DEF Guarded, Locking, Types, Holding
<1>3. in[s] = <<>> /\ at[s] \in {"menu", "gone"}
  BY <1>1 DEF Sessioned, Held
<1>4. out'[s] = <<>> /\ \A p \in Sessions : p # s => out'[p] = out[p]
  BY <1>1, <1>2 DEF Types
<1>5. user[s] \in Users \cup {None}
  BY <1>2 DEF Types, TypeOK
<1>6. \A q \in Requests : q # r => /\ todo'[q] = todo[q] /\ asked'[q] = asked[q]
                                   /\ pc'[q] = pc[q]
  BY <1>1, <1>5, PreparesTypes
<1>7. Held(r)'
  BY <1>1, <1>2, <1>3, <1>4, PreparesHeld
<1>8. \A q \in Requests : q # r => SameRequest(q)
  BY <1>1, <1>6 DEF SameRequest
<1>9. \A p \in Sessions : p # s => SameSession(p) /\ lock'[p] = lock[p]
  BY <1>1, <1>4 DEF SameSession
<1>10. sender'[r] # "started" /\ lock'[s] # Nobody
  BY <1>1, <1>2 DEF Sessioned, Requests, Nobody
<1> QED BY <1>2, <1>7, <1>8, <1>9, <1>10, SessionStep

LEMMA WritesSessioned ==
  ASSUME Types, Guarded, Sessioned, NEW r \in Requests, Writes(r)
  PROVE  Sessioned'
<1> DEFINE s == of[r]
           e == [line |-> Head(todo[r]), by |-> r]
<1>0. PICK k \in Nat : k = Len(todo[r])
  BY DEF Types
<1>1. /\ pc[r] = "write" /\ pc' = [pc EXCEPT ![r] = "read"]
      /\ in' = IF at[s] = "gone" THEN in ELSE [in EXCEPT ![s] = Append(@, e)]
      /\ todo' = [todo EXCEPT ![r] = Tail(@)]
      /\ last' = [last EXCEPT ![r] = None]
      /\ UNCHANGED <<at, as, by, out, user, lock, of, kind, who, seen, sender, asked>>
  BY DEF Writes, At, Goto, Mine, run
<1>2. s \in Sessions /\ lock[s] = r /\ Holding(r)
  BY <1>1 DEF Guarded, Locking, Holding
<1>3. /\ k > 0 /\ k \in 0..Most(r) /\ Quiet(s) /\ Stands(r, k)
      /\ \A i \in 1..k : todo[r][i] = LineAt(r, k + 1 - i)
      /\ ~Auth(r) => asked[r] = user[s] /\ user[s] # None
  BY <1>0, <1>1 DEF Sessioned, Held
<1>4. /\ pc'[r] = "read" /\ todo'[r] = Tail(todo[r])
      /\ \A q \in Requests : q # r => pc'[q] = pc[q] /\ todo'[q] = todo[q] /\ last'[q] = last[q]
  BY <1>1 DEF Types, TypeOK
<1>5. /\ Len(todo'[r]) = k - 1
      /\ \A i \in 1..(k - 1) : todo'[r][i] = todo[r][i + 1]
      /\ Head(todo[r]) = LineAt(r, k)
  <2>1. todo[r] \in Seq(Lines) /\ todo[r] # <<>>
    BY <1>0, <1>3 DEF Types
  <2>2. /\ Len(Tail(todo[r])) = k - 1 /\ \A i \in 1..(k - 1) : Tail(todo[r])[i] = todo[r][i + 1]
        /\ Head(todo[r]) = todo[r][1]
    BY <1>0, <2>1
  <2>3. k + 1 - 1 = k /\ 1 \in 1..k
    BY <1>3
  <2>4. todo[r][1] = LineAt(r, k + 1 - 1)
    BY <2>3, <1>3
  <2> QED BY <2>2, <2>3, <2>4, <1>4
<1>6. \A i \in 1..(k - 1) : todo'[r][i] = LineAt(r, (k - 1) + 1 - i)
  <2> SUFFICES ASSUME NEW i \in 1..(k - 1) PROVE todo'[r][i] = LineAt(r, (k - 1) + 1 - i)
    OBVIOUS
  <2>1. k + 1 - (i + 1) = (k - 1) + 1 - i /\ i + 1 \in 1..k
    BY <1>3
  <2> QED BY <2>1, <1>3, <1>5
<1>7. /\ Most(r)' = Most(r) /\ Auth(r)' = Auth(r) /\ \A i \in Int : LineAt(r, i)' = LineAt(r, i)
      /\ \A i \in Int : Stands(r, i)' = Stands(r, i)
  BY <1>1 DEF Most, Auth, LineAt, Stands, Awaits
<1>8. sender[r] # "started"
  BY <1>1 DEF Sessioned
<1>9. Waiting(r, k - 1)' \/ Died(r)'
  <2>1. CASE at[s] = "gone"
    BY <2>1, <1>1, <1>3, <1>8 DEF Died, OutBy, Quiet
  <2>2. CASE at[s] # "gone"
    <3>1. in'[s] = <<e>> /\ e = [line |-> LineAt(r, k), by |-> r]
      <4>1. in'[s] = Append(in[s], e) /\ in[s] = <<>>
        BY <2>2, <1>1, <1>2, <1>3 DEF Types, Quiet
      <4> QED BY <4>1, <1>5
    <3>2. (k - 1) + 1 = k
      BY <1>3
    <3>3. LineAt(r, k)' = LineAt(r, k) /\ Stands(r, k)' /\ out'[s] = <<>>
      BY <1>1, <1>3, <1>7 DEF Quiet
    <3> QED BY <3>1, <3>2, <3>3, <2>2, <1>1, <1>8 DEF Waiting
  <2> QED BY <2>1, <2>2
<1>10. Held(r)'
  <2>0. PICK m \in Int : m = k - 1
    OBVIOUS
  <2>1. m \in 0..Most(r) /\ m < Most(r) /\ m \in Int
    BY <2>0, <1>3 DEF Most
  <2>2. Len(todo'[r]) = m /\ \A i \in 1..m : todo'[r][i] = LineAt(r, m + 1 - i)'
    BY <2>0, <1>3, <1>5, <1>6, <1>7
  <2>3. Waiting(r, Len(todo[r]))' \/ Died(r)'
    BY <1>9, <2>0, <2>2
  <2> QED BY <1>1, <1>3, <1>4, <1>7, <2>1, <2>2, <2>3 DEF Held
<1>11. \A q \in Requests : q # r => SameRequest(q)
  BY <1>1, <1>4 DEF SameRequest
<1>12. \A p \in Sessions : p # s => SameSession(p) /\ lock'[p] = lock[p]
  <2>1. \A p \in Sessions : p # s => in'[p] = in[p]
    BY <1>1 DEF Types
  <2> QED BY <2>1, <1>1 DEF SameSession
<1>13. sender'[r] # "started" /\ lock'[s] # Nobody
  BY <1>1, <1>2, <1>8 DEF Requests, Nobody
<1> QED BY <1>2, <1>10, <1>11, <1>12, <1>13, SessionStep

\* A read that ends with nothing on its way leads to the next line, or to the end.
LEMMA AfterReadHeld ==
  ASSUME Types, Guarded, Sessioned, NEW r \in Requests, pc[r] = "read", AfterRead(r),
         NEW k \in Nat, k = Len(todo[r]), Quiet(of[r])', Stands(r, k),
         UNCHANGED <<at, as, user, of, kind, who, todo, asked>>,
         k = 0 /\ at[of[r]] = "app" =>
           last'[r] = "@app>" /\ (kind[r] = "login" => "logged_in" \in {t[1] : t \in seen'[r]})
  PROVE  Held(r)'
<1> DEFINE s == of[r]
<1>1. /\ k \in 0..Most(r) /\ k < Most(r)
      /\ \A i \in 1..k : todo[r][i] = LineAt(r, k + 1 - i)
      /\ ~Auth(r) => asked[r] = user[s] /\ user[s] # None
  BY DEF Sessioned, Held
<1>2. /\ Most(r)' = Most(r) /\ Auth(r)' = Auth(r) /\ \A i \in Int : LineAt(r, i)' = LineAt(r, i)
      /\ \A i \in Int : Stands(r, i)' = Stands(r, i)
  BY DEF Most, Auth, LineAt, Stands, Awaits
<1>3. pc'[r] = IF k = 0 THEN "unlock" ELSE "write"
  <2>1. todo[r] \in Seq(Lines)
    BY DEF Types
  <2>2. todo[r] = <<>> <=> k = 0
    BY <2>1
  <2> QED BY <2>2, AfterReadGoes
<1>4. CASE k = 0
  <2>1. pc'[r] = "unlock"
    BY <1>3, <1>4
  <2>2. Stands(r, 0)'
    BY <1>2, <1>4
  <2>3. Over(r)'
    BY <1>4, <2>2 DEF Over, Texts
  <2> QED BY <2>1, <2>3 DEF Held
<1>5. CASE k # 0
  <2>1. pc'[r] = "write" /\ k > 0
    BY <1>3, <1>5
  <2>2. Stands(r, k)'
    BY <1>2
  <2>3. Len(todo'[r]) = k /\ \A i \in 1..k : todo'[r][i] = LineAt(r, k + 1 - i)'
    BY <1>1, <1>2
  <2> QED BY <1>1, <1>2, <2>1, <2>2, <2>3 DEF Held
<1> QED BY <1>4, <1>5

\* While the program works or the end is not in sight, the read goes on.
LEMMA ReadHeld ==
  ASSUME Types, Guarded, Sessioned, NEW r \in Requests, pc[r] = "read", pc'[r] = "read",
         NEW k \in Nat, k = Len(todo[r]),
         UNCHANGED <<user, of, kind, who, todo, asked>>,
         Working(r, k)' \/ Died(r)'
  PROVE  Held(r)'
<1>1. /\ k \in 0..Most(r) /\ k < Most(r)
      /\ \A i \in 1..k : todo[r][i] = LineAt(r, k + 1 - i)
      /\ ~Auth(r) => asked[r] = user[of[r]] /\ user[of[r]] # None
  BY DEF Sessioned, Held
<1>2. /\ Most(r)' = Most(r) /\ Auth(r)' = Auth(r) /\ \A i \in Int : LineAt(r, i)' = LineAt(r, i)
  BY DEF Most, Auth, LineAt
<1>3. Len(todo'[r]) = k /\ \A i \in 1..k : todo'[r][i] = LineAt(r, k + 1 - i)'
  BY <1>1, <1>2
<1>4. Working(r, Len(todo[r]))' \/ Died(r)'
  BY <1>3
<1> QED BY <1>1, <1>2, <1>3, <1>4 DEF Held

LEMMA ReadsSessioned ==
  ASSUME Types, Guarded, Sessioned, NEW r \in Requests, Reads(r)
  PROVE  Sessioned' /\ \A t \in seen'[r] : t \in seen[r] \/ t[2] = r
<1> DEFINE s == of[r]
           new == out[s]
<1>0. PICK k \in Nat : k = Len(todo[r])
  BY DEF Types
<1>1. /\ pc[r] = "read" /\ new # <<>> /\ out' = [out EXCEPT ![s] = <<>>]
      /\ last' = [last EXCEPT ![r] = Last(new)[1]]
      /\ seen' = [seen EXCEPT ![r] = IF Forgets(r) THEN {} ELSE @ \cup ToSet(new)]
      /\ IF Last(new)[1] \in Prompts THEN AfterRead(r) ELSE UNCHANGED pc
      /\ UNCHANGED <<at, as, by, in, user, lock, of, kind, who, todo, sender, asked>>
  BY DEF Reads, At, Mine, run
<1>2. s \in Sessions /\ lock[s] = r
  BY <1>1 DEF Guarded, Locking, Holding
<1>3. new \in Seq(Output) /\ ToSet(new) = {new[i] : i \in 1..Len(new)}
  BY <1>2 DEF Types, ToSet
<1>4. /\ out'[s] = <<>> /\ \A p \in Sessions : p # s => out'[p] = out[p]
      /\ last'[r] = Last(new)[1]
      /\ seen'[r] = IF Forgets(r) THEN {} ELSE seen[r] \cup ToSet(new)
      /\ \A q \in Requests : q # r => last'[q] = last[q] /\ seen'[q] = seen[q]
  BY <1>1, <1>2 DEF Types
<1>5. Working(r, k) \/ Through(r, k) \/ Died(r)
  BY <1>0, <1>1 DEF Sessioned, Held, Waiting
<1>6. OutBy(r)
  BY <1>5 DEF Working, Through, Died
<1>7. \A t \in ToSet(new) : t[2] = r
  BY <1>3, <1>6 DEF OutBy
<1>8. Unprompted(r) <=> Last(new)[1] \notin Prompts
  BY <1>1 DEF Unprompted
<1>9. OutBy(r)' /\ Unprompted(r)'
  BY <1>1, <1>4 DEF OutBy, Unprompted
<1>10. Held(r)' /\ (sender[r] = "started" => pc'[r] = "read")
  <2>1. CASE Unprompted(r)
    <3>1. pc'[r] = "read"
      BY <2>1, <1>1, <1>8
    <3>2. Working(r, k) \/ Died(r)
      BY <2>1, <1>5 DEF Through
    <3>3. Working(r, k)' \/ Died(r)'
      BY <3>2, <1>1, <1>9 DEF Working, Died
    <3> QED BY <3>1, <3>3, <1>0, <1>1, ReadHeld
  <2>2. CASE ~Unprompted(r)
    <3>1. AfterRead(r)
      BY <2>2, <1>1, <1>8
    <3>2. Through(r, k) \/ Died(r)
      BY <2>2, <1>5 DEF Working
    <3>3. in[s] = <<>> /\ Stands(r, k) /\ sender[r] # "started"
      BY <3>2, <2>2 DEF Through, Died, Stands
    <3>4. Quiet(s)'
      BY <3>3, <1>1, <1>4 DEF Quiet, Stands, Awaits
    <3>5. k = 0 /\ at[s] = "app" => last'[r] = "@app>"
      BY <3>2, <1>4 DEF Through, Died
    <3>6. ASSUME k = 0, at[s] = "app", kind[r] = "login"
          PROVE  "logged_in" \in {t[1] : t \in seen'[r]}
      <4>1. PICK i \in 1..Len(new) : new[i][1] = "logged_in"
        BY <3>2, <3>6 DEF Through, Died
      <4>2. new[i] \in ToSet(new)
        BY <1>3
      <4>3. ~Forgets(r)
        BY <1>0, <3>6 DEF Forgets
      <4>4. new[i] \in seen'[r]
        BY <4>2, <4>3, <1>4
      <4> QED BY <4>1, <4>4
    <3>7. Held(r)'
      BY <3>1, <3>3, <3>4, <3>5, <3>6, <1>0, <1>1, AfterReadHeld
    <3> QED BY <3>3, <3>7
  <2> QED BY <2>1, <2>2
<1>11. \A q \in Requests : q # r => pc'[q] = pc[q]
  BY <1>1, AfterReadGoes
<1>12. \A q \in Requests : q # r => SameRequest(q)
  BY <1>1, <1>4, <1>11 DEF SameRequest
<1>13. \A p \in Sessions : p # s => SameSession(p) /\ lock'[p] = lock[p]
  BY <1>1, <1>4 DEF SameSession
<1>14. sender'[r] = "started" => pc'[r] = "read" /\ kind'[r] = "send"
  BY <1>1, <1>10 DEF Sessioned
<1>15. lock'[s] # Nobody
  BY <1>1, <1>2 DEF Requests, Nobody
<1>16. Sessioned'
  BY <1>2, <1>10, <1>12, <1>13, <1>14, <1>15, SessionStep
<1>17. \A t \in seen'[r] : t \in seen[r] \/ t[2] = r
  BY <1>4, <1>7
<1> QED BY <1>16, <1>17

\* Without a prompt a read is over in time only where the program has died.
LEMMA ReadEndsSessioned ==
  ASSUME Types, Guarded, Sessioned, NEW r \in Requests, ReadEnds(r), ~lagged'
  PROVE  Sessioned'
<1> DEFINE s == of[r]
<1>0. PICK k \in Nat : k = Len(todo[r])
  BY DEF Types
<1>1. /\ pc[r] = "read" /\ Silent(s) /\ ~TooEarly(s) /\ AfterRead(r)
      /\ UNCHANGED <<at, as, by, in, out, user, lock, of, kind, who, todo, last, seen, sender,
                     asked>>
  BY DEF ReadEnds, At, Mine, run, cli
<1>2. s \in Sessions /\ lock[s] = r
  BY <1>1 DEF Guarded, Locking, Holding
<1>3. out[s] = <<>> /\ at[s] \notin {"busy", "adding"} /\ sender[r] # "started"
  BY <1>1 DEF Silent, TooEarly
<1>4. Died(r)
  <2>1. Waiting(r, k) \/ Working(r, k) \/ Through(r, k) \/ Died(r)
    BY <1>0, <1>1 DEF Sessioned, Held
  <2>2. ~Waiting(r, k)
    <3>1. ASSUME Waiting(r, k) PROVE in[s] # <<>> /\ at[s] # "gone"
      BY <3>1 DEF Waiting
    <3> QED BY <3>1, <1>1, <1>3 DEF Silent
  <2>3. ~Working(r, k)
    BY <1>3 DEF Working
  <2>4. ~Through(r, k)
    BY <1>3 DEF Through, Unprompted
  <2> QED BY <2>1, <2>2, <2>3, <2>4
<1>5. at[s] = "gone" /\ in[s] = <<>>
  BY <1>4 DEF Died
<1>6. Held(r)'
  <2>1. Stands(r, k) /\ Quiet(s)'
    BY <1>1, <1>3, <1>5 DEF Stands, Quiet
  <2> QED BY <2>1, <1>0, <1>1, <1>5, AfterReadHeld
<1>7. \A q \in Requests : q # r => SameRequest(q)
  BY <1>1, AfterReadGoes DEF SameRequest
<1>8. \A p \in Sessions : SameSession(p)
  BY <1>1 DEF SameSession
<1>9. sender'[r] # "started" /\ lock'[s] # Nobody
  BY <1>1, <1>2, <1>3 DEF Requests, Nobody
<1> QED BY <1>1, <1>2, <1>6, <1>7, <1>8, <1>9, SessionStep

LEMMA UnlocksSessioned ==
  ASSUME Types, Guarded, Sessioned, NEW r \in Requests, Unlocks(r)
  PROVE  Sessioned'
<1>0. PICK s \in Sessions : s = of[r]
  BY DEF Guarded, Locking, Unlocks, At
<1> DEFINE shown == IF SignedIn(r) THEN who[r] ELSE IF SignedOut(r) THEN None ELSE user[s]
<1>1. /\ pc[r] = "unlock" /\ lock' = [lock EXCEPT ![s] = Nobody]
      /\ user' = [user EXCEPT ![s] = shown]
      /\ UNCHANGED <<at, as, by, in, out, of, kind, who, todo, last, seen, sender, asked>>
  BY <1>0 DEF Unlocks, At, Mine, run, cli
<1>2. lock[s] = r
  BY <1>0, <1>1 DEF Guarded, Locking, Holding
<1>3. /\ pc'[r] \in {"restore", "answer"} /\ \A q \in Requests : q # r => pc'[q] = pc[q]
  BY DEF Unlocks, Goto, Types, TypeOK
<1>4. Over(r)
  BY <1>1 DEF Sessioned, Held
<1>5. user'[s] = shown /\ lock'[s] = Nobody
      /\ \A p \in Sessions : p # s => user'[p] = user[p] /\ lock'[p] = lock[p]
  BY <1>1 DEF Types, TypeOK
<1>6. Quiet(s)'
  BY <1>0, <1>1, <1>4 DEF Over, Quiet
<1>7. Settled(s)'
  <2>1. at[s] \in {"menu", "app", "gone"}
    BY <1>0, <1>4 DEF Over, Stands, Awaits
  <2>2. ASSUME at[s] = "app" PROVE as[s] = shown /\ shown # None
    <3>1. Stands(r, 0) /\ last[r] = "@app>" /\ (kind[r] = "login" => "logged_in" \in Texts(r))
      BY <2>2, <1>0, <1>4 DEF Over
    <3>2. CASE kind[r] = "login"
      <4>1. SignedIn(r) /\ as[s] = who[r]
        BY <3>1, <3>2, <2>2, <1>0 DEF SignedIn, Stands
      <4>2. who[r] # None
        BY <3>2, UsersAssumption DEF Types
      <4> QED BY <4>1, <4>2
    <3>3. CASE kind[r] # "login"
      <4>1. ~SignedIn(r) /\ ~SignedOut(r)
        BY <3>1, <3>3 DEF SignedIn, SignedOut
      <4>2. as[s] = user[s] /\ user[s] # None
        BY <3>1, <3>3, <2>2, <1>0 DEF Stands
      <4> QED BY <4>1, <4>2
    <3> QED BY <3>2, <3>3
  <2> QED BY <2>1, <2>2, <1>1, <1>5 DEF Settled
<1>8. Held(r)'
  BY <1>3 DEF Held
<1>9. \A q \in Requests : q # r => SameRequest(q)
  BY <1>1, <1>3 DEF SameRequest
<1>10. \A p \in Sessions : p # s => SameSession(p) /\ lock'[p] = lock[p]
  BY <1>1, <1>5 DEF SameSession
<1>11. sender'[r] # "started" /\ lock[s] \in {r, Nobody}
  BY <1>1, <1>2 DEF Sessioned
<1> QED BY <1>6, <1>7, <1>8, <1>9, <1>10, <1>11, SessionStep

-----------------------------------------------------------------------------
(* The whole *)

LEMMA ApartSessioned ==
  ASSUME Types, Guarded, Sessioned, NEW r \in Requests,
         Begins(r) \/ Stages(r) \/ Restores(r) \/ Answers(r)
  PROVE  Sessioned'
<1>1. UNCHANGED <<at, as, by, in, out, user, lock, sender>>
  BY DEF Begins, Stages, Restores, Answers, cli, run
<1>2. pc[r] \in {"idle", "stage", "restore", "answer"}
      /\ pc'[r] \in {"stage", "lock", "restore", "answer", "done"}
  BY DEF Begins, Stages, Restores, Answers, At, Goto, Types, TypeOK
<1>3. \A q \in Requests : q # r =>
        /\ pc'[q] = pc[q] /\ of'[q] = of[q] /\ kind'[q] = kind[q] /\ who'[q] = who[q]
        /\ todo'[q] = todo[q] /\ last'[q] = last[q] /\ seen'[q] = seen[q]
        /\ asked'[q] = asked[q]
  <2>1. CASE Begins(r)
    BY <2>1 DEF Begins, Goto, Types, TypeOK
  <2>2. CASE Stages(r) \/ Restores(r)
    BY <2>2 DEF Stages, Restores, Goto, Types, TypeOK
  <2>3. CASE Answers(r)
    BY <2>3 DEF Answers, Goto, Types, TypeOK
  <2> QED BY <2>1, <2>2, <2>3
<1>4. \A q \in Requests : q # r => SameRequest(q)
  BY <1>1, <1>3 DEF SameRequest
<1>5. \A p \in Sessions : SameSession(p)
  BY <1>1 DEF SameSession
<1>6. ~Holding(r) /\ ~Holding(r)' /\ \A q \in Requests : of[q] \in Sessions \/ ~Holding(q)
  BY <1>2 DEF Holding, Guarded, Locking
<1> QED BY <1>1, <1>4, <1>5, <1>6, OtherStep

\* What r has asked for, run and sent is left alone.
LEMMA DoneFrame ==
  ASSUME Done, NEW r \in Requests,
         ran' = ran, sent' = sent,
         \A q \in Requests : q # r => pc'[q] = pc[q] /\ asked'[q] = asked[q] /\ seen'[q] = seen[q],
         asked'[r] = asked[r] \/ ran[r] = None,
         pc'[r] \in {"idle", "stage", "lock", "start"} => ran[r] = None,
         \A t \in seen'[r] : t[2] = r, lagged \in BOOLEAN, ~lagged
  PROVE  Done'
BY DEF Done, RanAsShown, SentIsStaged

LEMMA HandlerDone ==
  ASSUME Types, Guarded, Sessioned, Done, NEW r \in Requests, ~lagged, ~lagged',
         Begins(r) \/ Handler(r)
  PROVE  Sessioned' /\ Done'
<1> USE DEF Done
<1>1. CASE Begins(r) \/ Stages(r) \/ Restores(r)
  <2>1. /\ ran' = ran /\ sent' = sent /\ asked' = asked /\ seen' = seen
        /\ \A q \in Requests : q # r => pc'[q] = pc[q]
        /\ pc'[r] \in {"idle", "stage", "lock", "start"} => pc[r] \in {"idle", "stage"}
    BY <1>1 DEF Begins, Stages, Restores, At, Goto, run, Types, TypeOK
  <2> QED BY <2>1, <1>1, ApartSessioned, DoneFrame DEF Types, TypeOK
<1>2. CASE Locks(r) \/ Started(r)
  <2>1. /\ ran' = ran /\ sent' = sent /\ seen' = seen /\ pc[r] \in {"lock", "start"}
    BY <1>2 DEF Locks, Started, At, run
  <2>2. of[r] \in Sessions
    BY <2>1 DEF Guarded, Locking
  <2>3. user[of[r]] \in Users \cup {None}
    BY <2>2 DEF Types, TypeOK
  <2>4. \A q \in Requests : q # r => pc'[q] = pc[q] /\ asked'[q] = asked[q]
    <3>1. CASE Prepares(r, user[of[r]])
      BY <3>1, <2>3, PreparesTypes
    <3>2. CASE Goto(r, "start") /\ asked' = asked
      BY <3>2 DEF Goto, Types, TypeOK
    <3> QED BY <3>1, <3>2, <1>2 DEF Locks, Started, Mine
  <2>5. ran[r] = None /\ \A t \in seen'[r] : t[2] = r
    BY <2>1
  <2>6. Sessioned'
    BY <1>2, LocksSessioned, StartedSessioned
  <2>7. Done'
    BY <2>1, <2>4, <2>5, DoneFrame DEF Types, TypeOK
  <2> QED BY <2>6, <2>7
<1>3. CASE Writes(r)
  <2>1. /\ ran' = ran /\ sent' = sent /\ seen' = seen /\ asked' = asked /\ pc'[r] = "read"
        /\ \A q \in Requests : q # r => pc'[q] = pc[q]
    BY <1>3 DEF Writes, Goto, run, Types, TypeOK
  <2> QED BY <2>1, <1>3, WritesSessioned, DoneFrame DEF Types, TypeOK
<1>4. CASE Reads(r)
  <2>1. /\ ran' = ran /\ sent' = sent /\ asked' = asked /\ pc'[r] \in {"read", "write", "unlock"}
        /\ \A q \in Requests : q # r => pc'[q] = pc[q] /\ seen'[q] = seen[q]
    BY <1>4, AfterReadGoes DEF Reads, At, run, Types
  <2>2. Sessioned' /\ \A t \in seen'[r] : t[2] = r
    BY <1>4, ReadsSessioned
  <2> QED BY <2>1, <2>2, DoneFrame DEF Types, TypeOK
<1>5. CASE ReadEnds(r)
  <2>1. /\ ran' = ran /\ sent' = sent /\ asked' = asked /\ seen' = seen
        /\ pc'[r] \in {"write", "unlock"}
        /\ \A q \in Requests : q # r => pc'[q] = pc[q]
    BY <1>5, AfterReadGoes DEF ReadEnds, run
  <2> QED BY <2>1, <1>5, ReadEndsSessioned, DoneFrame DEF Types, TypeOK
<1>6. CASE Unlocks(r)
  <2>1. /\ ran' = ran /\ sent' = sent /\ asked' = asked /\ seen' = seen
        /\ pc'[r] \in {"restore", "answer"}
        /\ \A q \in Requests : q # r => pc'[q] = pc[q]
    BY <1>6 DEF Unlocks, Goto, run, Types, TypeOK
  <2> QED BY <2>1, <1>6, UnlocksSessioned, DoneFrame DEF Types, TypeOK
<1>7. CASE Answers(r)
  <2>1. /\ asked'[r] = None /\ ran'[r] = None /\ sent'[r] = Nobody /\ seen'[r] = {}
        /\ \A q \in Requests : q # r => /\ pc'[q] = pc[q] /\ asked'[q] = asked[q]
                                        /\ ran'[q] = ran[q] /\ sent'[q] = sent[q]
                                        /\ seen'[q] = seen[q]
    BY <1>7 DEF Answers, Goto, Types, TypeOK
  <2>2. Sessioned'
    BY <1>7, ApartSessioned
  <2> QED BY <2>1, <2>2 DEF RanAsShown, SentIsStaged
<1> QED BY <1>1, <1>2, <1>3, <1>4, <1>5, <1>6, <1>7 DEF Handler

LEMMA ProgramDone ==
  ASSUME Types, Guarded, Sessioned, Done, NEW s \in Sessions, Program(s), ~lagged
  PROVE  Sessioned' /\ Done'
<1>1. ~stopped /\ UNCHANGED Untaken
  BY ProgramFrames
<1>2. asked' = asked /\ pc' = pc /\ seen' = seen
  BY <1>1 DEF Untaken, request
<1>3. CASE App(s)
  <2>1. /\ Sessioned' /\ sent' = sent
        /\ \A q \in Requests : ran'[q] # ran[q] => ran'[q] = asked[q] /\ pc[q] = "read"
    BY <1>3, AppSessioned
  <2> QED BY <2>1, <1>2 DEF Done, RanAsShown, SentIsStaged
<1>4. CASE ~App(s)
  <2>1. Sessioned'
    BY <1>4, MenuSessioned, SignInSessioned, SignUpSessioned, RepliesSessioned, DiesSessioned
       DEF Program
  <2>2. ran' = ran /\ sent' = sent
    BY <1>4 DEF Program, Menu, SignIn, SignUp, Replies, Dies, run
  <2> QED BY <2>1, <2>2, <1>2 DEF Done, RanAsShown, SentIsStaged
<1> QED BY <1>3, <1>4

LEMMA OpensDone ==
  ASSUME Types, Guarded, Sessioned, Done, NEW r \in Requests, SenderOpens(r)
  PROVE  Sessioned' /\ Done'
<1>1. Sessioned' /\ sent'[r] = r
  BY OpensSessioned
<1>2. UNCHANGED <<asked, pc, seen, ran, lagged>> /\ \A q \in Requests : q # r => sent'[q] = sent[q]
  BY DEF SenderOpens, request, Types
<1> QED BY <1>1, <1>2 DEF Done, RanAsShown, SentIsStaged

LEMMA InitIInv == Init => IInv
<1> SUFFICES ASSUME Init PROVE IInv
  OBVIOUS
<1>1. Types /\ Guarded
  BY InitKept DEF Kept, Init
<1>2. PICK u \in Before \cup {None} : user = [s \in Sessions |-> u]
  BY DEF Init
<1>3. \A r \in Requests : /\ pc[r] = "idle" /\ ran[r] = None /\ sent[r] = Nobody
                          /\ seen[r] = {} /\ sender[r] = None
  BY DEF Init
<1>4. Done /\ AnswerIsOwn
  BY <1>3 DEF Done, RanAsShown, SentIsStaged, AnswerIsOwn
<1>5. \A s \in Sessions : Quiet(s) /\ Settled(s)
  BY <1>2 DEF Init, Quiet, Settled
<1>6. \A r \in Requests : Held(r)
  BY <1>3 DEF Held
<1>7. Sessioned
  BY <1>3, <1>5, <1>6 DEF Sessioned, None
<1>8. UsersFileKept
  BY DEF Init, UsersFileKept
<1> QED BY <1>1, <1>4, <1>7, <1>8 DEF IInv, Guarded, Done

LEMMA RunningIInv ==
  ASSUME Kept', ~stopped', ~lagged' => Sessioned' /\ Done'
  PROVE  IInv'
<1>1. Types' /\ Staging' /\ Locking'
  BY DEF Kept, Guarded
<1>2. UsersFileKept'
  BY <1>1 DEF Staging, UsersFileKept
<1>3. RanAsShown' /\ SentIsStaged' /\ AnswerIsOwn'
  BY DEF Done, RanAsShown, SentIsStaged, AnswerIsOwn
<1> QED BY <1>1, <1>2, <1>3 DEF IInv

LEMMA NextIInv == IInv /\ [Next]_vars => IInv'
<1> SUFFICES ASSUME IInv, [Next]_vars PROVE IInv'
  OBVIOUS
<1>1. Kept /\ Kept'
  BY NextKept DEF IInv, Kept, Guarded
<1>2. CASE UNCHANGED vars
  <2>1. UNCHANGED <<stage, file, orig, ran, asked, sent, pc, seen, stopped, lagged>>
    BY <1>2 DEF vars, request, disk, run
  <2>2. UsersFileKept' /\ RanAsShown' /\ SentIsStaged' /\ AnswerIsOwn'
    BY <2>1 DEF IInv, UsersFileKept, RanAsShown, SentIsStaged, AnswerIsOwn
  <2>3. ASSUME ~stopped', ~lagged' PROVE Sessioned' /\ Done'
    <3>1. Types /\ Sessioned /\ Done
      BY <2>1, <2>3 DEF IInv
    <3>2. /\ \A p \in Sessions : SameSession(p)
          /\ \A q \in Requests : SameRequest(q)
          /\ lock' = lock
      BY <1>2 DEF vars, cli, request, run, SameSession, SameRequest
    <3>3. \A q \in Requests : of[q] \in Sessions \/ ~Holding(q)
      BY <2>1, <2>3 DEF IInv, Locking, Holding
    <3>4. \A q \in Requests : Held(q)'
      BY <3>1, <3>2, <3>3, HeldFrame DEF Sessioned
    <3>5. \A s \in Sessions : lock'[s] = Nobody => Quiet(s)' /\ Settled(s)'
      BY <3>1, <3>2 DEF Sessioned, SameSession, Quiet, Settled
    <3>6. \A q \in Requests : sender'[q] = "started" => pc'[q] = "read" /\ kind'[q] = "send"
      BY <3>1, <3>2 DEF Sessioned, SameRequest
    <3>7. Done'
      BY <3>1, <2>1 DEF Done, RanAsShown, SentIsStaged
    <3> QED BY <3>4, <3>5, <3>6, <3>7 DEF Sessioned
  <2> QED BY <2>2, <2>3, <1>1 DEF IInv, Kept, Guarded
<1>3. CASE ServerStops
  <2>1. /\ stopped' = TRUE /\ UNCHANGED <<stage, file, orig, lagged>>
        /\ ran' = [r \in Requests |-> None] /\ sent' = [r \in Requests |-> Nobody]
        /\ \A r \in Requests : pc'[r] # "answer"
    BY <1>3 DEF ServerStops, Nobody
  <2>2. UsersFileKept' /\ RanAsShown' /\ SentIsStaged' /\ AnswerIsOwn'
    BY <2>1 DEF IInv, UsersFileKept, RanAsShown, SentIsStaged, AnswerIsOwn
  <2> QED BY <2>1, <2>2, <1>1 DEF IInv, Kept
<1>4. ASSUME NEW s \in Sessions, Program(s) PROVE IInv'
  <2>1. ~stopped /\ stopped' = stopped /\ lagged' = lagged
    BY <1>4, ProgramFrames DEF Untaken
  <2>2. ~lagged' => Sessioned' /\ Done'
    BY <1>4, <2>1, ProgramDone DEF IInv, Guarded
  <2> QED BY <1>1, <2>1, <2>2, RunningIInv
<1>5. ASSUME NEW r \in Requests, SenderOpens(r) PROVE IInv'
  <2>1. ~stopped /\ stopped' = stopped /\ lagged' = lagged
    BY <1>5 DEF SenderOpens
  <2>2. ~lagged' => Sessioned' /\ Done'
    BY <1>5, <2>1, OpensDone DEF IInv, Guarded
  <2> QED BY <1>1, <2>1, <2>2, RunningIInv
<1>6. ASSUME NEW r \in Requests, Begins(r) \/ Handler(r) PROVE IInv'
  <2>1. ~stopped /\ stopped' = stopped /\ (lagged => lagged')
    <3>1. CASE ReadEnds(r)
      BY <3>1 DEF ReadEnds, At
    <3>2. CASE ~ReadEnds(r)
      <4>1. ~stopped /\ UNCHANGED <<stopped, lagged>>
        BY <1>6, <3>2 DEF Begins, Handler, At, Stages, Locks, Started, Writes, Reads, Unlocks,
                          Restores, Answers
      <4> QED BY <4>1
    <3> QED BY <3>1, <3>2
  <2>2. ~lagged' => Sessioned' /\ Done'
    BY <1>6, <2>1, HandlerDone DEF IInv, Guarded
  <2> QED BY <1>1, <2>1, <2>2, RunningIInv
<1> QED BY <1>2, <1>3, <1>4, <1>5, <1>6 DEF Next

LEMMA Invariance == Spec => []IInv
  BY InitIInv, NextIInv, PTL DEF Spec

(* The browser shows nobody but users who signed in, and requests, locks   *)
(* and staged files are whose they can be, for any number of sessions.     *)
THEOREM TypeCorrect == Spec => []TypeOK
  BY Invariance, PTL DEF IInv, Types

(* For any number of requests and sessions: until a read is over too early *)
(* every command runs as the user the browser showed when it was given,    *)
(* whatever other tabs of the session do and whenever the program dies.    *)
THEOREM CommandsRunAsShown == Spec => []RanAsShown
  BY Invariance, PTL DEF IInv

(* Until a read is over too early, what ./sender transmits is the file     *)
(* that came with the request, however many sessions stage that name.      *)
THEOREM SendsAreStaged == Spec => []SentIsStaged
  BY Invariance, PTL DEF IInv

(* Until a read is over too early, an answer is made of the output of its  *)
(* own lines.                                                              *)
THEOREM AnswersAreOwn == Spec => []AnswerIsOwn
  BY Invariance, PTL DEF IInv

(* Early reads or not: when nothing is staged, the user's file is under    *)
(* its name, or nothing if there was none.                                 *)
THEOREM OwnFilesAreKept == Spec => []UsersFileKept
  BY Invariance, PTL DEF IInv

=============================================================================
