------------------------------ MODULE WebStage ------------------------------
(***************************************************************************)
(* The web front end webui.py over the text menus of server_api: a session *)
(* owns a server_api process on a pseudo-terminal, a request writes lines  *)
(* into it and takes for the answer what comes back up to a prompt, or up  *)
(* to 1.5 s of silence after some output, or 60 s.  A file to be sent is   *)
(* staged in the directory of the program, where the user has files too.   *)
(*                                                                         *)
(* Requests are threads.  A session has a lock, staging another one for    *)
(* all sessions.  A terminal keeps lines nobody has read yet.              *)
(***************************************************************************)
EXTENDS Integers, FiniteSets, Sequences, SequencesExt

CONSTANTS MaxSessions, MaxRequests,   \* bounds, numbers
          Users,      \* who signs in
          Before,     \* those of them who may have done so before
          Newcomers   \* who signs up

ASSUME BoundsAssumption == MaxSessions \in Nat /\ MaxRequests \in Nat

Sessions == 1..MaxSessions
Requests == 1..MaxRequests

VARIABLES
  at, as, by,         \* server_api: where, signed in as whom, for which request
  in, out,            \* its terminal: lines to it, output from it
  user,               \* self.user of each session, shown in the browser
  lock, stage,        \* holders of the session's lock and of STAGE_LOCK
  pc, of, kind, who,  \* of a request: where it is, its session, what it asks, for whom
  todo,               \* lines it still has to write
  last, seen,         \* last output of this read, all output so far
  file,               \* what is under the staged file's name in the directory
  backup,             \* who moved the user's file away
  sender,             \* the ./sender of each request
  stopped,            \* Ctrl-C
  (* history *)
  asked, ran,         \* user shown when a command began, user it ran as
  sent,               \* what was sent
  orig,               \* what was under the name at first
  lagged              \* a read was over before the program was through

cli == <<at, as, by, in, out>>
request == <<pc, of, kind, who, todo, last, seen>>
disk == <<file, backup>>
run == <<sender, ran, sent>>
vars == <<cli, user, lock, stage, request, disk, run, stopped, asked, orig, lagged>>

None == "none"
Nobody == 0           \* no request, and no file of one
Orig == -1             \* the user's file
Names == Users \cup Newcomers
ASSUME UsersAssumption == Before \subseteq Users /\ None \notin Users

Commands == {"send", "other"}
Prompts == {"menu>", "ask>", "@app>"}

Init ==
  /\ \E u \in Before \cup {None} : user = [s \in Sessions |-> u]
  /\ as = user
  /\ at = [s \in Sessions |-> IF user[s] = None THEN "menu" ELSE "app"]
  /\ by = [s \in Sessions |-> Nobody]
  /\ in = [s \in Sessions |-> <<>>] /\ out = [s \in Sessions |-> <<>>]
  /\ lock = [s \in Sessions |-> Nobody] /\ stage = Nobody
  /\ pc = [r \in Requests |-> "idle"]
  /\ of = [r \in Requests |-> 0]
  /\ kind = [r \in Requests |-> None] /\ who = [r \in Requests |-> None]
  /\ todo = [r \in Requests |-> <<>>]
  /\ last = [r \in Requests |-> None] /\ seen = [r \in Requests |-> {}]
  /\ file \in {Nobody, Orig} /\ orig = file
  /\ backup = {} /\ stopped = FALSE /\ lagged = FALSE
  /\ sender = [r \in Requests |-> None]
  /\ asked = [r \in Requests |-> None] /\ ran = [r \in Requests |-> None]
  /\ sent = [r \in Requests |-> Nobody]

----------------------------------------------------------------------------
(* server_api.c.  Output is what was printed, and for which request.       *)
Line(s) == Head(in[s]).line
Prints(s, texts) ==
  out' = [out EXCEPT ![s] = @ \o [i \in DOMAIN texts |-> <<texts[i], by'[s]>>]]

\* fgets takes a line, wherever the program is.
Takes(s, state) ==
  /\ ~stopped /\ at[s] = state /\ in[s] # <<>>
  /\ in' = [in EXCEPT ![s] = Tail(@)]
  /\ by' = [by EXCEPT ![s] = Head(in[s]).by]
  /\ UNCHANGED <<user, lock, stage, request, disk, stopped, asked, orig, lagged>>

Now(s, state) == at' = [at EXCEPT ![s] = state]

Menu(s) ==
  /\ Takes(s, "menu")
  /\ \/ Line(s) = "1" /\ Now(s, "user") /\ Prints(s, <<"ask>">>)
     \/ Line(s) = "2" /\ Now(s, "new_user") /\ Prints(s, <<"ask>">>)
     \/ Line(s) \notin {"1", "2"} /\ Now(s, "menu") /\ Prints(s, <<"invalid", "menu>">>)
  /\ UNCHANGED <<as, run>>

\* Any name and password will do: nobody asks the server.
SignIn(s) ==
  /\ \/ /\ Takes(s, "user") /\ Now(s, "password") /\ Prints(s, <<"ask>">>)
        /\ as' = [as EXCEPT ![s] = Line(s)]
     \/ /\ Takes(s, "password") /\ Now(s, "app") /\ Prints(s, <<"logged_in", "@app>">>)
        /\ UNCHANGED as
  /\ UNCHANGED run

SignUp(s) ==
  /\ \/ Takes(s, "new_user") /\ Now(s, "new_password") /\ Prints(s, <<"ask>">>)
     \/ Takes(s, "new_password") /\ Now(s, "adding") /\ Prints(s, <<"authenticating">>)
  /\ UNCHANGED <<as, run>>

\* send and sync say what they run before they run it, the others nothing.
App(s) ==
  /\ Takes(s, "app")
  /\ \/ /\ Line(s) = "logout" /\ Now(s, "menu") /\ Prints(s, <<"menu>">>)
        /\ UNCHANGED run
     \/ /\ Line(s) \in Commands /\ Now(s, "busy")
        /\ \/ Prints(s, <<"running">>)
           \/ Line(s) = "other" /\ Prints(s, <<>>)
        /\ ran' = [ran EXCEPT ![by'[s]] = as[s]]
        /\ sender' = [sender EXCEPT ![by'[s]] = IF Line(s) = "send" THEN "started" ELSE @]
        /\ UNCHANGED sent
     \/ /\ Line(s) \notin Commands \cup {"logout"} /\ Now(s, "app")
        /\ Prints(s, <<"unknown", "@app>">>) /\ UNCHANGED run
  /\ UNCHANGED as

\* The server's answer, or the end of the program that was run.
Replies(s) ==
  /\ ~stopped /\ at[s] \in {"busy", "adding"}
  /\ at[s] = "busy" => sender[by[s]] # "started"
  /\ UNCHANGED by
  /\ IF at[s] = "busy" THEN Now(s, "app") /\ Prints(s, <<"response", "@app>">>)
     ELSE Now(s, "menu") /\ Prints(s, <<"response", "menu>">>)
  /\ UNCHANGED <<as, in, user, lock, stage, request, disk, run, stopped, asked, orig, lagged>>

\* sender.c opens the file when the server has given it a port.
SenderOpens(r) ==
  /\ ~stopped /\ sender[r] = "started"
  /\ sender' = [sender EXCEPT ![r] = "over"]
  /\ sent' = [sent EXCEPT ![r] = file]
  /\ UNCHANGED <<cli, user, lock, stage, request, disk, ran, stopped, asked, orig, lagged>>

\* The program ends; a sender it started goes on.  While the session has no
\* request, it makes no difference when.
Dies(s) ==
  /\ ~stopped /\ at[s] # "gone" /\ Now(s, "gone")
  /\ \E r \in Requests : of[r] = s /\ pc[r] \notin {"idle", "done"}
  /\ in' = [in EXCEPT ![s] = <<>>]
  /\ as' = [as EXCEPT ![s] = None] /\ by' = [by EXCEPT ![s] = Nobody]
  /\ UNCHANGED <<out, user, lock, stage, request, disk, run, stopped, asked,
                 orig, lagged>>

Program(s) == Menu(s) \/ SignIn(s) \/ SignUp(s) \/ App(s) \/ Replies(s) \/ Dies(s)

----------------------------------------------------------------------------
(* webui.py.                                                               *)
At(r, l) == ~stopped /\ pc[r] = l
Goto(r, l) == pc' = [pc EXCEPT ![r] = l]
Mine(r) == of[r]

\* do_POST: what is asked for, in which session; both are numbered as they
\* first come.  Sessions share nothing but the directory, so requests of two
\* sessions are sends.  After a read that was over too early the requests under
\* way go on, and no new ones come.
Begins(r) ==
  /\ At(r, "idle") /\ ~lagged
  /\ \A q \in 1..(r - 1) : pc[q] # "idle"
  /\ \E s \in Sessions, k \in Commands \cup {"login", "signup", "logout"} :
       /\ s <= r /\ of' = [of EXCEPT ![r] = s]
       /\ s > 1 => k = "send" /\ \A q \in 1..(r - 1) : kind[q] \in {"send", None}
       /\ kind' = [kind EXCEPT ![r] = k]
       /\ \E n \in IF k = "login" THEN Users
                   ELSE IF k = "signup" THEN Newcomers ELSE {None} :
            who' = [who EXCEPT ![r] = n]
       /\ Goto(r, IF k = "send" THEN "stage" ELSE "lock")
  /\ UNCHANGED <<cli, user, lock, stage, todo, last, seen, disk, run, stopped, asked,
                 orig, lagged>>

\* Bug: nobody keeps a second file out.
StagesAnyway(r) ==
  /\ At(r, "stage")
  /\ stage' = r
  /\ backup' = IF file # Nobody THEN backup \cup {r} ELSE backup
  /\ file' = r
  /\ \E genre \in BOOLEAN : Goto(r, IF genre THEN "lock" ELSE "restore")
  /\ UNCHANGED <<cli, user, lock, of, kind, who, todo, last, seen, run, stopped, asked,
                 orig, lagged>>

\* The user's file is moved away, the new one written.  Without a genre for
\* the admin that was all.
Stages(r) ==
  /\ At(r, "stage") /\ stage = Nobody
  /\ stage' = r
  /\ backup' = IF file # Nobody THEN backup \cup {r} ELSE backup
  /\ file' = r
  /\ \E genre \in BOOLEAN : Goto(r, IF genre THEN "lock" ELSE "restore")
  /\ UNCHANGED <<cli, user, lock, of, kind, who, todo, last, seen, run, stopped, asked,
                 orig, lagged>>

\* auth and command, once the program is there: the lines to write.
Auth(r) == kind[r] \in {"login", "signup"}
Script(r, shown) ==
  IF Auth(r)
  THEN (IF shown = None THEN <<>> ELSE <<"logout">>)
         \o <<IF kind[r] = "login" THEN "1" ELSE "2", who[r], "secret">>
  ELSE IF shown = None THEN <<>> ELSE <<kind[r]>>

Prepares(r, shown) ==
  /\ todo' = [todo EXCEPT ![r] = Script(r, shown)]
  /\ asked' = IF Auth(r) THEN asked ELSE [asked EXCEPT ![r] = shown]
  /\ Goto(r, IF Script(r, shown) = <<>> THEN "unlock" ELSE "write")

\* Bug: the lock of the session is forgotten.
LocksAnyway(r) ==
  /\ At(r, "lock")
  /\ lock' = [lock EXCEPT ![Mine(r)] = r]
  /\ IF at[Mine(r)] # "gone"
     THEN Prepares(r, user[Mine(r)]) /\ UNCHANGED <<cli, user>>
     ELSE /\ at' = [at EXCEPT ![Mine(r)] = "menu"]
          /\ out' = [out EXCEPT ![Mine(r)] = <<<<"menu>", Nobody>>>>]
          /\ user' = [user EXCEPT ![Mine(r)] = None]
          /\ Goto(r, "start")
          /\ UNCHANGED <<as, by, in, todo, asked>>
  /\ UNCHANGED <<stage, of, kind, who, last, seen, disk, run, stopped, orig, lagged>>

\* ensure starts a new program for one that is gone, and nobody is signed in.
Locks(r) ==
  /\ At(r, "lock") /\ lock[Mine(r)] = Nobody
  /\ lock' = [lock EXCEPT ![Mine(r)] = r]
  /\ IF at[Mine(r)] # "gone"
     THEN Prepares(r, user[Mine(r)]) /\ UNCHANGED <<cli, user>>
     ELSE /\ at' = [at EXCEPT ![Mine(r)] = "menu"]
          /\ out' = [out EXCEPT ![Mine(r)] = <<<<"menu>", Nobody>>>>]
          /\ user' = [user EXCEPT ![Mine(r)] = None]
          /\ Goto(r, "start")
          /\ UNCHANGED <<as, by, in, todo, asked>>
  /\ UNCHANGED <<stage, of, kind, who, last, seen, disk, run, stopped, orig, lagged>>

\* start reads up to the first prompt and drops it.
Started(r) ==
  /\ At(r, "start")
  /\ out' = [out EXCEPT ![Mine(r)] = <<>>]
  /\ Prepares(r, user[Mine(r)])
  /\ UNCHANGED <<at, as, by, in, user, lock, stage, of, kind, who, last, seen, disk, run,
                 stopped, orig, lagged>>

Writes(r) ==
  /\ At(r, "write") /\ Goto(r, "read")
  /\ in' = IF at[Mine(r)] = "gone" THEN in
           ELSE [in EXCEPT ![Mine(r)] = Append(@, [line |-> Head(todo[r]), by |-> r])]
  /\ todo' = [todo EXCEPT ![r] = Tail(@)]
  /\ last' = [last EXCEPT ![r] = None]
  /\ UNCHANGED <<at, as, by, out, user, lock, stage, of, kind, who, seen, disk, run, stopped,
                 asked, orig, lagged>>

\* A read is over.  Only auth goes on from one read to the next; it forgets
\* what the read after "logout" brought.
AfterRead(r) == Goto(r, IF todo[r] = <<>> THEN "unlock" ELSE "write")
Forgets(r) == Auth(r) /\ Len(todo[r]) = 3

\* Bug: the first output is taken for all of it.
ReadsOnce(r) ==
  LET new == out[Mine(r)] IN
  /\ At(r, "read") /\ new # <<>>
  /\ out' = [out EXCEPT ![Mine(r)] = <<>>]
  /\ last' = [last EXCEPT ![r] = Last(new)[1]]
  /\ seen' = [seen EXCEPT ![r] = IF Forgets(r) THEN {} ELSE @ \cup ToSet(new)]
  /\ AfterRead(r)
  /\ UNCHANGED <<at, as, by, in, user, lock, stage, of, kind, who, todo, disk, run, stopped,
                 asked, orig, lagged>>

\* All there is; a prompt at its end is the end.
Reads(r) ==
  LET new == out[Mine(r)] IN
  /\ At(r, "read") /\ new # <<>>
  /\ out' = [out EXCEPT ![Mine(r)] = <<>>]
  /\ last' = [last EXCEPT ![r] = Last(new)[1]]
  /\ seen' = [seen EXCEPT ![r] = IF Forgets(r) THEN {} ELSE @ \cup ToSet(new)]
  /\ IF Last(new)[1] \in Prompts THEN AfterRead(r) ELSE UNCHANGED pc
  /\ UNCHANGED <<at, as, by, in, user, lock, stage, of, kind, who, todo, disk, run, stopped,
                 asked, orig, lagged>>

\* The program takes a line at once, unless it waits for the server.
Silent(s) == out[s] = <<>> /\ (in[s] # <<>> => at[s] \in {"busy", "adding", "gone"})
TooEarly(s) ==
  \/ at[s] \in {"busy", "adding"}
  \/ \E q \in Requests : of[q] = s /\ sender[q] = "started"

\* Bug: no timeout where nothing has come.
ReadEndsAfterOutput(r) ==
  /\ At(r, "read") /\ Silent(Mine(r))
  /\ last[r] # None \/ at[Mine(r)] = "gone"
  /\ lagged' = (lagged \/ TooEarly(Mine(r)))
  /\ AfterRead(r)
  /\ UNCHANGED <<cli, user, lock, stage, of, kind, who, todo, last, seen, disk, run, stopped,
                 asked, orig>>

\* Silence for 1.5 s after some output, 60 s, or the program is gone.
ReadEnds(r) ==
  /\ At(r, "read") /\ Silent(Mine(r))
  /\ lagged' = (lagged \/ TooEarly(Mine(r)))
  /\ AfterRead(r)
  /\ UNCHANGED <<cli, user, lock, stage, of, kind, who, todo, last, seen, disk, run, stopped,
                 asked, orig>>

\* What the output says about who is signed in.
Texts(r) == {t[1] : t \in seen[r]}
SignedIn(r) == kind[r] = "login" /\ last[r] = "@app>" /\ "logged_in" \in Texts(r)
SignedOut(r) == ~Auth(r) /\ "menu>" \in Texts(r) /\ last[r] # "@app>"

\* The answer is sent, and the request forgotten.
Answers(r) ==
  /\ At(r, "answer") /\ Goto(r, "done")
  /\ kind' = [kind EXCEPT ![r] = None] /\ who' = [who EXCEPT ![r] = None]
  /\ last' = [last EXCEPT ![r] = None] /\ seen' = [seen EXCEPT ![r] = {}]
  /\ asked' = [asked EXCEPT ![r] = None] /\ ran' = [ran EXCEPT ![r] = None]
  /\ sent' = [sent EXCEPT ![r] = Nobody]
  /\ UNCHANGED <<cli, user, lock, stage, of, todo, disk, sender, stopped, orig, lagged>>

\* Bug: the name is kept whatever the mode and the output.
UnlocksKeepingName(r) ==
  /\ At(r, "unlock")
  /\ Goto(r, IF kind[r] = "send" THEN "restore" ELSE "answer")
  /\ lock' = [lock EXCEPT ![Mine(r)] = Nobody]
  /\ user' = [user EXCEPT ![Mine(r)] = IF Auth(r) THEN who[r]
                                       ELSE IF SignedOut(r) THEN None ELSE @]
  /\ file' = IF kind[r] = "send" THEN Nobody ELSE file
  /\ UNCHANGED <<cli, stage, of, kind, who, todo, last, seen, backup, run, stopped, asked,
                 orig, lagged>>

\* The rest of auth and command: a staged file is removed as soon as the
\* command is taken to be over.
Unlocks(r) ==
  /\ At(r, "unlock")
  /\ Goto(r, IF kind[r] = "send" THEN "restore" ELSE "answer")
  /\ lock' = [lock EXCEPT ![Mine(r)] = Nobody]
  /\ user' = [user EXCEPT ![Mine(r)] = IF SignedIn(r) THEN who[r]
                                       ELSE IF SignedOut(r) THEN None ELSE @]
  /\ file' = IF kind[r] = "send" /\ asked[r] # None THEN Nobody ELSE file
  /\ UNCHANGED <<cli, stage, of, kind, who, todo, last, seen, backup, run, stopped, asked,
                 orig, lagged>>

\* Bug: the user's file comes back after a command only.
RestoresAfterCommand(r) ==
  /\ At(r, "restore") /\ Goto(r, "answer")
  /\ stage' = Nobody
  /\ file' = IF r \in backup /\ asked[r] # None THEN Orig ELSE Nobody
  /\ backup' = backup \ {r}
  /\ UNCHANGED <<cli, user, lock, of, kind, who, todo, last, seen, run, stopped, asked, orig,
                 lagged>>

\* finally: the staged file goes if it is still there, the user's comes back.
Restores(r) ==
  /\ At(r, "restore") /\ Goto(r, "answer")
  /\ stage' = Nobody
  /\ file' = IF r \in backup THEN Orig ELSE Nobody
  /\ backup' = backup \ {r}
  /\ UNCHANGED <<cli, user, lock, of, kind, who, todo, last, seen, run, stopped, asked, orig,
                 lagged>>

\* Ctrl-C: the sessions' temporary directories are removed, the backups with
\* them, and all processes and threads end where they are.
ServerStops ==
  /\ ~stopped /\ stopped' = TRUE
  /\ backup' = {}
  /\ at' = [s \in Sessions |-> "gone"]
  /\ in' = [s \in Sessions |-> <<>>] /\ out' = in'
  /\ user' = [s \in Sessions |-> None] /\ lock' = [s \in Sessions |-> Nobody]
  /\ as' = user' /\ by' = lock'
  /\ pc' = [r \in Requests |-> IF pc[r] = "idle" THEN "idle" ELSE "done"]
  /\ kind' = [r \in Requests |-> None] /\ who' = kind' /\ last' = kind' /\ ran' = kind'
  /\ asked' = kind' /\ sender' = kind'
  /\ of' = [r \in Requests |-> 0] /\ sent' = of'
  /\ todo' = [r \in Requests |-> <<>>] /\ seen' = [r \in Requests |-> {}]
  /\ UNCHANGED <<stage, file, orig, lagged>>

Handler(r) ==
  \/ Stages(r) \/ Locks(r) \/ Started(r) \/ Writes(r) \/ Reads(r) \/ ReadEnds(r)
  \/ Unlocks(r) \/ Restores(r) \/ Answers(r)

Next ==
  \/ \E s \in Sessions : Program(s)
  \/ \E r \in Requests : SenderOpens(r) \/ Begins(r) \/ Handler(r)
  \/ ServerStops

\* Threads run, the program takes its lines, and every read ends after 60 s.
\* Nothing is assumed of the server, nor that the program lives.
Spec == /\ Init /\ [][Next]_vars
        /\ \A r \in Requests : WF_vars(Handler(r))
        /\ \A s \in Sessions : WF_vars(Menu(s) \/ SignIn(s) \/ SignUp(s) \/ App(s))

----------------------------------------------------------------------------
(* The name the browser shows is that of somebody who signed in.           *)
TypeOK ==
  /\ user \in [Sessions -> Users \cup {None}]
  /\ at \in [Sessions -> {"menu", "user", "password", "new_user", "new_password", "adding",
                          "app", "busy", "gone"}]
  /\ \A s \in Sessions : lock[s] \in Requests \cup {Nobody}
  /\ stage \in Requests \cup {Nobody} /\ backup \subseteq Requests
  /\ file \in Requests \cup {Nobody, Orig}
  /\ pc \in [Requests -> {"idle", "stage", "lock", "start", "write", "read", "unlock",
                          "restore", "answer", "done"}]
  /\ {lagged, stopped} \subseteq BOOLEAN

(* A command runs as the user the browser showed when it was given, through *)
(* sign-ups, sign-ins by other tabs of the session, and new programs.       *)
RanAsShown == ~lagged => \A r \in Requests : ran[r] \in {None, asked[r]}

(* What a send transmits is the file that came with it, also when two       *)
(* sessions stage files of one name, or one that the user has already.      *)
SentIsStaged == ~lagged => \A r \in Requests : sent[r] \in {Nobody, r}

(* An answer has the output of its own lines and nothing else.              *)
AnswerIsOwn ==
  ~lagged => \A r \in Requests : pc[r] = "answer" => \A t \in seen[r] : t[2] = r

(* The user's own file is under its name whenever nothing is staged, also   *)
(* after reads that ended early, and for good when the server was stopped.  *)
UsersFileKept == stage = Nobody => file = orig

(* Every request is answered unless the server is stopped, whatever the     *)
(* program does or fails to do.                                             *)
Answered == \A r \in Requests : pc[r] # "idle" ~> pc[r] = "done" \/ stopped
=============================================================================
