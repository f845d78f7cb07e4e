--------------------------- MODULE Authentication ---------------------------
(***************************************************************************)
(* How a client comes by its session (auth.py, auth_store.py,              *)
(* auth_refresh.py and its worker, auth_browser.py, browser_sentinel.py    *)
(* and the construction of a client in client.py): clients, refreshes,     *)
(* logins and Sentinel captures of several threads and processes over one  *)
(* auth file and one persistent browser profile.                           *)
(*                                                                         *)
(* The n-th session the server issues, and its access token, are n; a      *)
(* cookie jar is what it holds in the plain session cookie and in its      *)
(* chunks: 0 for nothing and Blank for a cookie with an empty value.       *)
(***************************************************************************)
EXTENDS Integers, FiniteSets, Sequences

CONSTANTS
  Actors, Processes,
  ProcessOf,   \* the process a thread belongs to
  NoActor,
  Starts,      \* the file, profile and environment there may be at first
  Plans,       \* each a function from Actors to the operation it is at
  Shrinks,     \* the server may go back from chunks to the plain cookie
  MaxSessions, MaxCrashes

\* A client with and without auto_login (which may capture), auth refresh,
\* auth login with and without --force.
Ops == {"client", "auto", "refresh", "login", "force"}

ASSUME AuthAssumption ==
  /\ ProcessOf \in [Actors -> Processes]
  /\ NoActor \notin Actors
  /\ Plans \subseteq [Actors -> Ops]
  /\ Shrinks \in BOOLEAN
  /\ MaxSessions \in Nat \ {0} /\ MaxCrashes \in Nat

VARIABLES
  file,      \* auth_data.json
  profile,   \* the cookies of the browser profile
  holder,    \* who has the flock beside the profile
  writer,    \* who has _AUTH_FILE_LOCK, in each process
  issued,    \* the sessions the server has issued
  near,      \* access tokens up to this one expire within the skew
  dead,      \* access tokens up to this one have expired
  env,       \* an accessToken is in the environment
  crashes, call,
  saved      \* history: the session the last save was told of, if it was

vars == <<file, profile, holder, writer, issued, near, dead, env, crashes,
          call, saved>>

-----------------------------------------------------------------------------
(* Cookies, files and clients                                              *)

Blank == -1

Sessions == 1..MaxSessions

\* The token of the environment is not one this model lets expire.
EnvToken == MaxSessions + 1

NoJar == [plain |-> 0, chunk |-> 0]

Jars == [plain : Sessions \cup {0, Blank}, chunk : Sessions \cup {0, Blank}]

\* browserCookies is a list: no records at all, or those of one jar.
Records == {<<>>} \cup {<<jar>> : jar \in Jars}

Auths == [access : Sessions \cup {0, EnvToken}, jar : Jars, records : Records]

NoAuth == [access |-> 0, jar |-> NoJar, records |-> <<>>]

Files == [exists : BOOLEAN, session : Sessions \cup {0}, auth : Auths]

NoFile == [exists |-> FALSE, session |-> 0, auth |-> NoAuth]

HasSession(jar) == jar.plain # 0 \/ jar.chunk # 0

Usable(jar) == jar.plain > 0 \/ jar.chunk > 0

\* A deletion leaves a plain cookie blank only beside chunks.
Whole(jar) == jar.chunk # Blank /\ (jar.plain = Blank => jar.chunk # 0)

\* A browser drops what it is told to delete.
Clean(jar) == jar.plain # Blank /\ jar.chunk # Blank

CleanRecords(records) == \A k \in DOMAIN records : Clean(records[k])

ASSUME StartsAssumption ==
  /\ Starts \subseteq [file : Files, profile : Jars, env : BOOLEAN]
  /\ \A start \in Starts :
       /\ Clean(start.profile)
       /\ Whole(start.file.auth.jar) /\ CleanRecords(start.file.auth.records)

Normalize(jar) == IF jar.chunk # 0 THEN [jar EXCEPT !.plain = 0] ELSE jar

Seeded(jar, session) ==
  IF HasSession(jar) THEN jar ELSE [jar EXCEPT !.plain = session]

\* What load_auth_data makes of a file it reads in one go.
SessionOf(f) == Normalize(Seeded(f.auth.jar, f.session))

\* The token file first, then the environment; expired ones are skipped.
Candidate(access) ==
  CASE access > dead  -> access
    [] access <= dead -> IF env THEN EnvToken ELSE 0

NeedsRefresh(access) == access <= near

Without(jar, names) ==
  [plain |-> IF names.plain # 0 THEN 0 ELSE jar.plain,
   chunk |-> IF names.chunk # 0 THEN 0 ELSE jar.chunk]

Overlay(jar, new) ==
  [plain |-> IF new.plain # 0 THEN new.plain ELSE jar.plain,
   chunk |-> IF new.chunk # 0 THEN new.chunk ELSE jar.chunk]

\* Set-Cookie headers read as name and value: a deletion leaves a blank cookie.
AfterSetCookie(jar, session) ==
  LET Gone(old) == IF old = 0 THEN 0 ELSE Blank
      toPlain == [plain |-> session, chunk |-> Gone(jar.chunk)]
      toChunk == [plain |-> Gone(jar.plain), chunk |-> session]
  IN CASE jar.chunk = 0            -> {toPlain, toChunk}
       [] jar.chunk # 0 /\ Shrinks -> {toPlain, toChunk}
       [] OTHER -> {[jar EXCEPT !.chunk = session]}

\* The browser deletes what it is told to; a stale plain cookie may be left
\* beside the chunks.
AfterBrowser(jar, session) ==
  {[plain |-> session, chunk |-> 0], [plain |-> 0, chunk |-> session],
   [jar EXCEPT !.chunk = session]}

\* persist_auth_data without a session_token takes the plain cookie's value
\* and keeps the saved one if there is none.
Merged(base, auth, told) ==
  [exists  |-> TRUE,
   session |-> CASE told # 0 -> told
                 [] told = 0 /\ auth.jar.plain > 0 -> auth.jar.plain
                 [] OTHER -> base.session,
   auth    |-> [auth EXCEPT !.access = IF @ = 0 THEN base.auth.access ELSE @]]

-----------------------------------------------------------------------------
(* Calls                                                                   *)

PCs == {"idle", "load", "seed", "ask", "merge", "replace", "profile", "open",
        "session", "capture", "close", "ready", "ended", "failed", "dead"}

Calls ==
  [pc : PCs, op : Ops, phase : {"start", "login", "capture"}, auth : Auths,
   names : Jars,          \* the cookies a login was seeded with
   cleared : BOOLEAN, told : Sessions \cup {0}, base : Files, tries : 0..2,
   ok : BOOLEAN]

Fresh(op) ==
  [pc |-> "load", op |-> op, phase |-> "start", auth |-> NoAuth,
   names |-> NoJar, cleared |-> FALSE, told |-> 0, base |-> NoFile,
   tries |-> 0, ok |-> FALSE]

Browsing == {"open", "session", "capture", "close"}

UsesProfile(a) ==
  \/ call[a].pc \in Browsing
  \/ call[a].pc \in {"load", "seed", "merge", "replace"} /\ call[a].phase # "start"

Init ==
  /\ \E start \in Starts :
       file = start.file /\ profile = start.profile /\ env = start.env
  /\ holder = NoActor
  /\ writer = [p \in Processes |-> NoActor]
  /\ issued = 1 /\ near = 0 /\ dead = 0
  /\ crashes = 0
  /\ \E plan \in Plans :
       call = [a \in Actors |-> [Fresh(plan[a]) EXCEPT !.pc = "idle"]]
  /\ saved = 0

\* Of a call that is over only its end is kept.
Become(a, c) ==
  call' = [call EXCEPT ![a] = IF c.pc \in {"ended", "failed"}
                                THEN [Fresh("client") EXCEPT !.pc = c.pc] ELSE c]

\* ChatGPTWebClient(auto_login=True) turns an AuthError into a login.
AuthError(c) ==
  IF c.op = "auto" /\ c.phase = "start"
    THEN [c EXCEPT !.pc = "profile", !.phase = "login"]
    ELSE [c EXCEPT !.pc = "failed"]

Begin(a) ==
  /\ call[a].pc = "idle"
  /\ LET op == call[a].op IN
       Become(a, IF op \in {"login", "force"}
                   THEN [Fresh(op) EXCEPT !.pc = "profile", !.phase = "login"]
                   ELSE Fresh(op))
  /\ UNCHANGED <<file, profile, holder, writer, issued, near, dead, env,
                 crashes, saved>>

\* The end of load_auth_data, for a client and for the seeds of a login.
Loaded(c, auth) ==
  LET access == Candidate(auth.access)
      read   == [access |-> access, jar |-> Normalize(auth.jar),
                 records |-> auth.records]
      found  == access # 0 \/ HasSession(auth.jar)
  IN CASE c.phase = "login" ->
            [c EXCEPT !.pc = "open", !.auth = IF found THEN read ELSE NoAuth]
       [] c.phase = "start" /\ ~found -> AuthError(c)
       [] OTHER -> [c EXCEPT !.auth = read,
                             !.pc = IF NeedsRefresh(access) \/ c.op = "refresh"
                                      THEN "ask" ELSE "ready"]

\* AuthData.from_json; a jar without a session cookie costs a second read.
Load(a) ==
  /\ call[a].pc = "load"
  /\ Become(a, IF HasSession(file.auth.jar) \/ ~file.exists
                 THEN Loaded(call[a], file.auth)
                 ELSE [call[a] EXCEPT !.pc = "seed", !.auth = file.auth])
  /\ UNCHANGED <<file, profile, holder, writer, issued, near, dead, env,
                 crashes, saved>>

\* _seed_session_cookie_from_auth_file, of what the file is by then.
Seed(a) ==
  /\ call[a].pc = "seed"
  /\ Become(a, Loaded(call[a], [call[a].auth EXCEPT
                                  !.jar = Seeded(@, file.session)]))
  /\ UNCHANGED <<file, profile, holder, writer, issued, near, dead, env,
                 crashes, saved>>

\* Mutant: the save comes before the response's cookies are applied.
AskThenApply(a) ==
  /\ call[a].pc = "ask"
  /\ \/ /\ Become(a, AuthError(call[a]))
        /\ UNCHANGED issued
     \/ /\ Usable(call[a].auth.jar) /\ issued < MaxSessions
        /\ issued' = issued + 1
        /\ Become(a, [call[a] EXCEPT !.auth.access = issued',
                                     !.told = issued', !.pc = "merge"])
  /\ UNCHANGED <<file, profile, holder, writer, near, dead, env, crashes, saved>>

\* refresh_auth_session up to the save: the worker answers within its
\* deadline, or the refresh fails; without a session cookie it never asks.
AskSession(a) ==
  /\ call[a].pc = "ask"
  /\ \/ /\ Become(a, AuthError(call[a]))
        /\ UNCHANGED issued
     \/ /\ Usable(call[a].auth.jar) /\ issued < MaxSessions
        /\ issued' = issued + 1
        /\ \E jar \in AfterSetCookie(call[a].auth.jar, issued') :
             Become(a, [call[a] EXCEPT !.auth.jar = jar,
                                       !.auth.access = issued',
                                       !.told = issued', !.pc = "merge"])
  /\ UNCHANGED <<file, profile, holder, writer, near, dead, env, crashes, saved>>

\* Mutant: the file is opened for writing, and empty until it is written.
BeginSaveInPlace(a) ==
  LET p == ProcessOf[a] IN
  /\ call[a].pc = "merge"
  /\ writer[p] = NoActor
  /\ writer' = [writer EXCEPT ![p] = a]
  /\ file' = NoFile
  /\ Become(a, [call[a] EXCEPT !.base = file, !.pc = "replace"])
  /\ UNCHANGED <<profile, holder, issued, near, dead, env, crashes, saved>>

\* persist_auth_data: the lock of the process, and the file as it is.
BeginSave(a) ==
  LET p == ProcessOf[a] IN
  /\ call[a].pc = "merge"
  /\ writer[p] = NoActor
  /\ writer' = [writer EXCEPT ![p] = a]
  /\ Become(a, [call[a] EXCEPT !.base = file, !.pc = "replace"])
  /\ UNCHANGED <<file, profile, holder, issued, near, dead, env, crashes, saved>>

\* _atomic_write_json ends in os.replace.
EndSave(a) ==
  LET c == call[a] IN
  /\ c.pc = "replace"
  /\ file' = Merged(c.base, c.auth, c.told)
  /\ saved' = c.told
  /\ writer' = [writer EXCEPT ![ProcessOf[a]] = NoActor]
  /\ Become(a, [c EXCEPT !.base = NoFile, !.told = 0,
                         !.pc = IF c.phase # "start" THEN "close"
                                ELSE IF c.op = "refresh" THEN "ended" ELSE "ready"])
  /\ UNCHANGED <<profile, holder, issued, near, dead, env, crashes>>

\* Mutant: the lock is not asked for.
AcquireAnyway(a) ==
  LET c == call[a] IN
  /\ c.pc = "profile"
  /\ holder' = a
  /\ Become(a, [c EXCEPT !.ok = FALSE, !.cleared = FALSE, !.tries = 0,
                         !.auth = IF c.phase = "capture" THEN @ ELSE NoAuth,
                         !.pc = IF c.phase = "capture" THEN "capture"
                                ELSE IF c.op # "force" /\ file.exists THEN "load"
                                ELSE "open"])
  /\ UNCHANGED <<file, profile, writer, issued, near, dead, env, crashes, saved>>

\* BrowserProfileLock.acquire and what follows it up to the browser's start.
AcquireProfile(a) ==
  LET c == call[a] IN
  /\ c.pc = "profile"
  /\ holder = NoActor
  /\ holder' = a
  /\ Become(a, [c EXCEPT !.ok = FALSE, !.cleared = FALSE, !.tries = 0,
                         !.auth = IF c.phase = "capture" THEN @ ELSE NoAuth,
                         !.pc = IF c.phase = "capture" THEN "capture"
                                ELSE IF c.op # "force" /\ file.exists THEN "load"
                                ELSE "open"])
  /\ UNCHANGED <<file, profile, writer, issued, near, dead, env, crashes, saved>>

ProfileBusy(a) ==
  /\ call[a].pc = "profile"
  /\ holder # NoActor
  /\ Become(a, [call[a] EXCEPT !.pc =
                   IF call[a].phase = "capture" THEN "ended" ELSE "failed"])
  /\ UNCHANGED <<file, profile, holder, writer, issued, near, dead, env,
                 crashes, saved>>

\* A forced login deletes every session cookie of the profile; another one
\* deletes those it has seeds for and sets the saved records instead, or the
\* flat cookies when no records were saved.
Open(a) ==
  LET c     == call[a]
      names == IF c.op = "force" THEN NoJar ELSE c.auth.jar
      seeds == IF c.auth.records = <<>> THEN c.auth.jar ELSE Head(c.auth.records)
  IN
  /\ c.pc = "open"
  /\ profile' = CASE c.op = "force" -> NoJar
                  [] OTHER -> Overlay(Without(profile, names), seeds)
  /\ Become(a, [c EXCEPT !.pc = "session", !.names = names])
  /\ UNCHANGED <<file, holder, writer, issued, near, dead, env, crashes, saved>>

\* The page is signed in, by its cookies or by the user.  Chunks are kept in
\* preference to a plain cookie, in the profile and in what is saved.
SignedIn(a) ==
  /\ call[a].pc = "session"
  /\ issued < MaxSessions
  /\ issued' = issued + 1
  /\ \E jar \in AfterBrowser(profile, issued') :
       /\ profile' = Normalize(jar)
       /\ Become(a, [call[a] EXCEPT !.pc = "merge", !.ok = TRUE,
                       !.told = issued',
                       !.auth = [access |-> issued', jar |-> Normalize(jar),
                                 records |-> <<Normalize(jar)>>]])
  /\ UNCHANGED <<file, holder, writer, near, dead, env, crashes, saved>>

\* After eight seconds the seeds are taken back, once.
ClearSeeds(a) ==
  LET c == call[a] IN
  /\ c.pc = "session" /\ ~c.cleared /\ HasSession(c.names)
  /\ profile' = Without(profile, c.names)
  /\ Become(a, [c EXCEPT !.cleared = TRUE])
  /\ UNCHANGED <<file, holder, writer, issued, near, dead, env, crashes, saved>>

\* Mutant: the loop over the session endpoint has no deadline.
SignInPatiently(a) ==
  /\ call[a].pc = "session" /\ FALSE
  /\ UNCHANGED vars

SignInTimesOut(a) ==
  /\ call[a].pc = "session"
  /\ Become(a, [call[a] EXCEPT !.pc = "close"])
  /\ UNCHANGED <<file, profile, holder, writer, issued, near, dead, env,
                 crashes, saved>>

\* A client built with auto_sentinel needs a bundle for a write.
BeginCapture(a) ==
  /\ call[a].pc = "ready" /\ call[a].phase # "capture"
  /\ Become(a, [call[a] EXCEPT !.pc = "profile", !.phase = "capture"])
  /\ UNCHANGED <<file, profile, holder, writer, issued, near, dead, env,
                 crashes, saved>>

\* The page finalizes a bundle; visiting it may have renewed the session.
\* _sync_chatgpt_cookies puts the profile's cookies over the client's.
Captured(a) ==
  /\ call[a].pc = "capture"
  /\ \/ UNCHANGED <<profile, issued>>
     \/ /\ HasSession(profile) /\ issued < MaxSessions
        /\ issued' = issued + 1
        /\ profile' \in AfterBrowser(profile, issued')
  /\ Become(a, [call[a] EXCEPT !.pc = "merge", !.ok = TRUE,
                               !.auth.jar = Overlay(@, profile'),
                               !.auth.records = <<profile'>>])
  /\ UNCHANGED <<file, holder, writer, near, dead, env, crashes, saved>>

\* max_attempts tries under one hold of the lock.
CaptureFails(a) ==
  LET c == call[a] IN
  /\ c.pc = "capture"
  /\ Become(a, [c EXCEPT !.tries = @ + 1,
                         !.pc = IF c.tries = 1 THEN "close" ELSE "capture"])
  /\ UNCHANGED <<file, profile, holder, writer, issued, near, dead, env,
                 crashes, saved>>

\* The browser is closed before the lock is released.
Close(a) ==
  LET c == call[a] IN
  /\ c.pc = "close"
  /\ holder' = NoActor
  /\ Become(a, [c EXCEPT !.names = NoJar, !.tries = 0,
                  !.pc = CASE c.phase = "capture"         -> "ended"
                           [] c.phase = "login" /\ ~c.ok  -> "failed"
                           [] OTHER -> IF c.op = "auto" THEN "ready" ELSE "ended"])
  /\ UNCHANGED <<file, profile, writer, issued, near, dead, env, crashes, saved>>

\* The kernel drops the flock of a process that dies; its browser dies with it.
Crash(p) ==
  LET Dies(a) == ProcessOf[a] = p /\ call[a].pc \notin {"idle", "dead"} IN
  /\ crashes < MaxCrashes
  /\ \E a \in Actors : Dies(a)
  /\ crashes' = crashes + 1
  /\ call' = [a \in Actors |-> IF Dies(a) THEN [Fresh("client") EXCEPT !.pc = "dead"]
                                          ELSE call[a]]
  /\ holder' = IF holder # NoActor /\ ProcessOf[holder] = p THEN NoActor ELSE holder
  /\ writer' = [writer EXCEPT ![p] = NoActor]
  /\ UNCHANGED <<file, profile, issued, near, dead, env, saved>>

\* Access tokens first come within the skew of their expiry, then expire.
Age ==
  /\ \/ near < issued /\ near' = issued /\ UNCHANGED dead
     \/ dead < near /\ dead' = near /\ UNCHANGED near
  /\ UNCHANGED <<file, profile, holder, writer, issued, env, crashes, call, saved>>

Step(a) ==
  \/ Load(a) \/ Seed(a) \/ AskSession(a) \/ BeginSave(a) \/ EndSave(a)
  \/ AcquireProfile(a) \/ ProfileBusy(a) \/ Open(a) \/ ClearSeeds(a)
  \/ SignInTimesOut(a) \/ Captured(a) \/ CaptureFails(a) \/ Close(a)

Next ==
  \/ \E a \in Actors : Step(a) \/ Begin(a) \/ SignedIn(a) \/ BeginCapture(a)
  \/ \E p \in Processes : Crash(p)
  \/ Age

Spec == Init /\ [][Next]_vars

\* Every step of a call has its timeout or is one the process just takes; only
\* the user's sign-in may never come.
FairSpec == Spec /\ \A a \in Actors : WF_vars(Step(a))

-----------------------------------------------------------------------------
(* Properties                                                              *)

\* Every variable keeps its type; the blank value a deleted cookie leaves
\* never becomes the saved sessionToken (auth_store.py:85-90).
TypeOK ==
  /\ file \in Files /\ profile \in Jars
  /\ holder \in Actors \cup {NoActor}
  /\ writer \in [Processes -> Actors \cup {NoActor}]
  /\ issued \in Sessions /\ near \in 0..issued /\ dead \in 0..near
  /\ env \in BOOLEAN /\ crashes \in 0..MaxCrashes
  /\ call \in [Actors -> Calls]
  /\ saved \in Sessions \cup {0}

\* From the start of the browser to its end no other thread or process runs
\* one on the profile, whichever fails or dies (browser_profile_lock.py:20-47,
\* auth_browser.py:149-318, browser_sentinel.py:158-190).
ProfileIsExclusive ==
  \A a, b \in Actors : UsesProfile(a) /\ UsesProfile(b) => a = b

\* After a refresh or a login has saved, the session cookie a load takes from
\* the file is of the session the server just issued, whether the server
\* changed from the plain cookie to chunks or the profile still had a plain
\* one (auth.py:89-93, auth_refresh.py:245-266, auth_browser.py:239-260).
SavedSession ==
  saved # 0 => SessionOf(file) \in {[plain |-> saved, chunk |-> 0],
                                    [plain |-> 0, chunk |-> saved]}

\* While the browser profile has a session, a file with a session a refresh
\* can be tried with never becomes one without, whatever stale clients save
\* over each other and die of: what a capture saves has the profile's cookies,
\* and they are still the profile's (auth_store.py:17-104,
\* browser_sentinel.py:76-85, 312-430).
SessionSurvives ==
  [][Usable(SessionOf(file)) /\ HasSession(profile)
       => Usable(SessionOf(file'))]_vars

\* Every client, refresh and login comes to an end, at the latest by its
\* timeouts (auth_browser.py:195-225, browser_profile_lock.py:20-47).
EveryCallEnds ==
  \A a \in Actors :
    call[a].pc # "idle" ~> call[a].pc \in {"ready", "ended", "failed", "dead"}

-----------------------------------------------------------------------------
(* What the code does not keep: see "Seen while modelling" in the README.  *)

\* A file with a session never becomes one without.
SessionIsKept ==
  [][Usable(SessionOf(file)) => Usable(SessionOf(file'))]_vars
=============================================================================
