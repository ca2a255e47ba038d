-------------------------- MODULE AssistanceProofs --------------------------
(***************************************************************************)
(* Five theorems of Assistance for every set of users, every glossary and  *)
(* every request: SecretsStay and AnswersFit of the assistance, and of the *)
(* Terms it is composed with GlossarySound, HistoryTells and ImportExact.  *)
(*                                                                         *)
(* SecretsStay is inductive once settings is known to be a table.          *)
(* AnswersFit is not: an answer may come from a cache that somebody else   *)
(* filled, so the invariant says what each record of the caches answers,   *)
(* and what a request knows in each of its phases.                         *)
(*                                                                         *)
(* For the glossary TermsInv adds types, that the token of a preview is    *)
(* with Redis, with one user or used up, and that each history ends with   *)
(* its term.  The steps of an import are recursive functions; that there   *)
(* is such a function for every document, and that what holds before its   *)
(* first row holds after its last, follows from a set of numbers that has  *)
(* 0 and with each number the next (Numbers).                              *)
(***************************************************************************)
EXTENDS Assistance, WellFoundedInduction, TLAPS

(* The settings are a table, and the keys in it are in place. *)
SettingsSound == settings = [s \in Scopes |-> settings[s]] /\ SecretsStay

LEMMA SecretsInit == Init => SettingsSound
<1> SUFFICES ASSUME Init PROVE SettingsSound
    OBVIOUS
<1>1. settings = [s \in Scopes |-> NoSetting]
    BY DEF Init
<1>2. \A s \in Scopes : settings[s] = NoSetting
    BY <1>1
<1> QED
    BY <1>1, <1>2 DEF SettingsSound, SecretsStay, NoSetting

(* A row that is written keeps its keys in place, by the checks of Put. *)
LEMMA PutSecrets ==
  ASSUME NEW scope, NEW r, SettingsSound, Put(scope, r)
  PROVE  SettingsSound'
<1> DEFINE secret == SearchKey(settings[scope], r)
           row == SettingRow(r, secret)
<1>1. settings' = [settings EXCEPT ![scope] = row]
    BY DEF Put
<1>2. settings' = [s \in Scopes |-> settings'[s]]
    BY <1>1 DEF SettingsSound
<1>3. SearchAdapterRequiresKey(row) => row.secret # "none"
    BY DEF Put, SettingRow, SearchAdapterRequiresKey
<1>4. ASSUME scope \in Scopes PROVE row.secret \in {"none", row.provider}
    BY <1>4 DEF SettingsSound, SecretsStay, SettingRow, SearchKey
<1>5. ASSUME NEW s \in Scopes
      PROVE  /\ settings'[s].secret \in {"none", settings'[s].provider}
             /\ SearchAdapterRequiresKey(settings'[s]) /\ settings'[s] # NoSetting
                => settings'[s].secret # "none"
  <2>1. CASE s = scope
    <3>1. settings'[s] = row
        BY <1>1, <2>1 DEF SettingsSound
    <3> QED
        BY <3>1, <1>3, <1>4, <2>1
  <2>2. CASE s # scope
    <3>1. settings'[s] = settings[s]
        BY <1>1, <2>2 DEF SettingsSound
    <3> QED
        BY <3>1 DEF SettingsSound, SecretsStay
  <2> QED
      BY <2>1, <2>2
<1> QED
    BY <1>2, <1>5 DEF SettingsSound, SecretsStay

LEMMA DroppedSecrets ==
  ASSUME NEW scope, SettingsSound, Dropped(scope)
  PROVE  SettingsSound'
<1>1. settings' = [settings EXCEPT ![scope] = NoSetting]
    BY DEF Dropped
<1>2. \A s \in Scopes : settings'[s] \in {settings[s], NoSetting}
    BY <1>1 DEF SettingsSound
<1>3. settings' = [s \in Scopes |-> settings'[s]]
    BY <1>1 DEF SettingsSound
<1> QED
    BY <1>2, <1>3 DEF SettingsSound, SecretsStay, NoSetting

LEMMA SecretsKept == SettingsSound /\ UNCHANGED settings => SettingsSound'
BY DEF SettingsSound, SecretsStay

LEMMA SecretsNext == SettingsSound /\ [Next]_allVars => SettingsSound'
<1> SUFFICES ASSUME SettingsSound, [Next]_allVars PROVE SettingsSound'
    OBVIOUS
<1>1. CASE UNCHANGED allVars \/ (TermsNext /\ UNCHANGED aiVars)
    BY <1>1, SecretsKept DEF allVars, aiVars
<1>2. ASSUME NEW r \in intent, PutPersonal(r) \/ PutProject(r) PROVE SettingsSound'
    BY <1>2, PutSecrets DEF PutPersonal, PutProject
<1>3. ASSUME NEW r \in intent, DeletePersonal(r) \/ DeleteProjectSetting(r)
      PROVE  SettingsSound'
    BY <1>3, DroppedSecrets DEF DeletePersonal, DeleteProjectSetting
<1>4. ASSUME NEW r \in intent, EditEntry(r) \/ Explain(r) PROVE SettingsSound'
    BY <1>4, SecretsKept DEF EditEntry, Explain, Quiet
<1>5. ASSUME NEW u \in Users, Progress(u) PROVE SettingsSound'
    BY <1>5, SecretsKept DEF Progress, Quiet, Resolve, LoadEntryContext, SendConnecting,
       ReadCache, SendSearching, ExecuteWebSearch, SendThinking, ChooseTransport,
       RequestTimeout, FinalizeExplanation, SendLast, Abandon
<1>6. ASSUME NEW u \in Users, Provider(u) \/ Drain(u) \/ Close(u) PROVE SettingsSound'
    BY <1>6, SecretsKept DEF Provider, Quiet, CallAi, StreamResponse, RejectStreaming,
       ReadChunk, SendFormatting, Drain, Close
<1>7. CASE ExpireCached
    BY <1>7, SecretsKept DEF ExpireCached, Quiet
<1> QED
    BY <1>1, <1>2, <1>3, <1>4, <1>5, <1>6, <1>7 DEF Next, AssistanceNext

(* However settings are rewritten, a search key stays with the provider it *)
(* was given for, and whoever needs a key has one                          *)
(* (encrypted_optional_key_for_write).                                     *)
THEOREM SecretsStayHolds == Spec => []SecretsStay
<1>1. SettingsSound => SecretsStay
    BY DEF SettingsSound
<1> QED
    BY <1>1, SecretsInit, SecretsNext, PTL DEF Spec

-----------------------------------------------------------------------------
(* What a request u makes knows in its phases. *)

Chosen(u, s) ==
  /\ s.scope \in {u, "project"}
  /\ Preferred(u, s.preference) = "personal" => s.scope = u
  /\ Preferred(u, s.preference) = "project" => s.scope = "project"

Coherent(prompt) == \A t \in prompt.terms : t.lang = prompt.lang

SearchFits(search, scope, mode) ==
  /\ search.scope = scope
  /\ search.status = "disabled" <=> mode = "disabled"

AnswerFits(answer, prompt, scope, setting) ==
  /\ answer.prompt = prompt /\ answer.base = setting.base /\ answer.scope = scope
  /\ SearchFits(answer.search, scope, setting.mode)

(* A request that runs is a record with these fields. *)
Whole(s) ==
  s = [phase |-> s.phase, live |-> s.live, preference |-> s.preference, scope |-> s.scope,
       setting |-> s.setting, prompt |-> s.prompt, open |-> s.open, pending |-> s.pending,
       search |-> s.search, answer |-> s.answer]

Running0 == {"connecting", "lookup", "announcing", "searching", "failing"}
Searched0 == {"found", "calling", "direct", "streaming", "reading"}
Answered0 == {"answered", "answering"}

RequestSound(u, s) ==
  \/ s.phase \in {"idle", "asked"}
  \/ s.phase = "resolved" /\ Chosen(u, s)
  \/ /\ s.phase \in Running0 \union Searched0 \union Answered0
     /\ Whole(s) /\ Chosen(u, s) /\ Coherent(s.prompt)
     /\ s.phase \in Searched0 => SearchFits(s.search, s.scope, s.setting.mode)
     /\ s.phase \in Answered0 => AnswerFits(s.answer, s.prompt, s.scope, s.setting)

ExplainedSound ==
  \A c \in explained :
    \E setting, prompt, scope :
      c.key = <<setting, prompt, scope>> /\ AnswerFits(c.answer, prompt, scope, setting)

SearchedSound ==
  \A c \in searched :
    \E scope, mode, a, b, d, e :
      /\ c.key = <<scope, mode, a, b, d, e>>
      /\ SearchFits(c.outcome, scope, mode)

StreamSound ==
  stream = [u \in Users |-> stream[u]] /\ \A u \in Users : RequestSound(u, stream[u])

RequestsSound == StreamSound /\ ExplainedSound /\ SearchedSound

LEMMA RequestsInit == Init => RequestsSound
<1> SUFFICES ASSUME Init PROVE RequestsSound
    OBVIOUS
<1>1. stream = [u \in Users |-> Idle] /\ explained = {} /\ searched = {}
    BY DEF Init
<1>2. \A u \in Users : RequestSound(u, stream[u])
    BY <1>1 DEF RequestSound, Idle
<1> QED
    BY <1>1, <1>2 DEF RequestsSound, StreamSound, ExplainedSound, SearchedSound

(* A step of one request leaves the others alone. *)
LEMMA OneSteps ==
  ASSUME StreamSound, NEW u \in Users, NEW next, Step(u, next), RequestSound(u, next)
  PROVE  StreamSound'
<1>1. stream' = [stream EXCEPT ![u] = next]
    BY DEF Step
<1>2. stream' = [v \in Users |-> stream'[v]]
    BY <1>1 DEF StreamSound
<1>3. \A v \in Users : stream'[v] = IF v = u THEN next ELSE stream[v]
    BY <1>1 DEF StreamSound
<1>4. \A v \in Users : RequestSound(v, stream'[v])
    BY <1>3 DEF StreamSound
<1> QED
    BY <1>2, <1>4 DEF StreamSound

LEMMA IdleSound == \A u : RequestSound(u, Idle)
BY DEF RequestSound, Idle

(* Going on to another phase keeps the rest of the record. *)
LEMMA PhaseSound ==
  ASSUME NEW u, NEW s, NEW phase, RequestSound(u, s),
         s.phase \in Running0 \union Searched0 \union Answered0,
         phase \in Running0 \/ (s.phase \in Searched0 /\ phase \in Searched0)
         \/ (s.phase \in Answered0 /\ phase \in Answered0)
  PROVE  RequestSound(u, [s EXCEPT !.phase = phase])
<1> DEFINE t == [s EXCEPT !.phase = phase]
<1>1. Whole(s)
    BY DEF RequestSound, Running0, Searched0, Answered0
<1>2. t = [phase |-> phase, live |-> s.live, preference |-> s.preference, scope |-> s.scope,
           setting |-> s.setting, prompt |-> s.prompt, open |-> s.open, pending |-> s.pending,
           search |-> s.search, answer |-> s.answer]
    BY <1>1 DEF Whole
<1> HIDE DEF t
<1>3. Whole(t) /\ t.phase = phase /\ t.scope = s.scope /\ t.preference = s.preference
      /\ t.setting = s.setting /\ t.prompt = s.prompt /\ t.search = s.search
      /\ t.answer = s.answer
    BY <1>2 DEF Whole
<1>4. Chosen(u, t) /\ Coherent(t.prompt)
    BY <1>3 DEF RequestSound, Running0, Searched0, Answered0, Chosen
<1>5. t.phase \in Searched0 => SearchFits(t.search, t.scope, t.setting.mode)
    BY <1>3 DEF RequestSound, Running0, Searched0, Answered0
<1>6. t.phase \in Answered0 => AnswerFits(t.answer, t.prompt, t.scope, t.setting)
    BY <1>3 DEF RequestSound, Running0, Searched0, Answered0
<1>7. t.phase \in Running0 \union Searched0 \union Answered0
    BY <1>3
<1>8. RequestSound(u, t)
    BY <1>3, <1>4, <1>5, <1>6, <1>7 DEF RequestSound
<1> QED
    BY <1>8 DEF t

Phases == Running0 \union Searched0 \union Answered0

LEMMA WholeSound ==
  ASSUME NEW u, NEW s, RequestSound(u, s), s.phase \in Phases
  PROVE  Whole(s) /\ Chosen(u, s) /\ Coherent(s.prompt)
BY DEF RequestSound, Phases, Running0, Searched0, Answered0

LEMMA PendingSound ==
  ASSUME NEW u, NEW s, NEW n, RequestSound(u, s), s = Idle \/ s.phase \in Phases
  PROVE  RequestSound(u, [s EXCEPT !.pending = n])
<1> DEFINE t == [s EXCEPT !.pending = n]
<1>1. CASE s = Idle
  <2>1. t.phase = "idle"
      BY <1>1 DEF Idle
  <2> QED
      BY <2>1 DEF RequestSound
<1>2. CASE s.phase \in Phases
  <2>1. Whole(s)
      BY <1>2, WholeSound
  <2>2. t = [phase |-> s.phase, live |-> s.live, preference |-> s.preference, scope |-> s.scope,
             setting |-> s.setting, prompt |-> s.prompt, open |-> s.open, pending |-> n,
             search |-> s.search, answer |-> s.answer]
      BY <2>1 DEF Whole
  <2> HIDE DEF t
  <2>3. Whole(t) /\ t.phase = s.phase /\ t.scope = s.scope /\ t.preference = s.preference
        /\ t.setting = s.setting /\ t.prompt = s.prompt /\ t.search = s.search
        /\ t.answer = s.answer
      BY <2>2 DEF Whole
  <2>4. RequestSound(u, t)
      BY <2>3, <1>2 DEF RequestSound, Phases, Running0, Searched0, Answered0, Chosen
  <2> QED
      BY <2>4 DEF t
<1> QED
    BY <1>1, <1>2

LEMMA OpenSound ==
  ASSUME NEW u, NEW s, NEW open, RequestSound(u, s), s.phase \in Phases
  PROVE  RequestSound(u, [s EXCEPT !.open = open, !.pending = 0])
<1> DEFINE t == [s EXCEPT !.open = open, !.pending = 0]
<1>1. Whole(s)
    BY WholeSound
<1>2. t = [phase |-> s.phase, live |-> s.live, preference |-> s.preference, scope |-> s.scope,
           setting |-> s.setting, prompt |-> s.prompt, open |-> open, pending |-> 0,
           search |-> s.search, answer |-> s.answer]
  <2> DEFINE shut == [s EXCEPT !.open = open]
  <2>1. shut = [phase |-> s.phase, live |-> s.live, preference |-> s.preference,
                scope |-> s.scope, setting |-> s.setting, prompt |-> s.prompt, open |-> open,
                pending |-> s.pending, search |-> s.search, answer |-> s.answer]
      BY <1>1 DEF Whole
  <2>2. t = [shut EXCEPT !.pending = 0]
      OBVIOUS
  <2> HIDE DEF shut, t
  <2> QED
      BY <2>1, <2>2
<1> HIDE DEF t
<1>3. Whole(t) /\ t.phase = s.phase /\ t.scope = s.scope /\ t.preference = s.preference
      /\ t.setting = s.setting /\ t.prompt = s.prompt /\ t.search = s.search
      /\ t.answer = s.answer
    BY <1>2 DEF Whole
<1>4. RequestSound(u, t)
    BY <1>3 DEF RequestSound, Phases, Running0, Searched0, Answered0, Chosen
<1> QED
    BY <1>4 DEF t

(* An answer of the provider is made of what the request asked with. *)
LEMMA AnsweredSound ==
  ASSUME NEW u, NEW s, RequestSound(u, s), s.phase \in Searched0
  PROVE  RequestSound(u, Answered(s)) /\ Answered(s).phase = "answered"
<1> DEFINE reply == [scope |-> s.scope, base |-> s.setting.base, prompt |-> s.prompt,
                     search |-> s.search]
           t == Answered(s)
<1>1. Whole(s) /\ Chosen(u, s) /\ Coherent(s.prompt)
    BY WholeSound DEF Phases
<1>2. SearchFits(s.search, s.scope, s.setting.mode)
    BY DEF RequestSound, Running0, Searched0, Answered0
<1>3. t = [phase |-> "answered", live |-> s.live, preference |-> s.preference,
           scope |-> s.scope, setting |-> s.setting, prompt |-> s.prompt, open |-> s.open,
           pending |-> s.pending, search |-> s.search, answer |-> reply]
  <2> DEFINE done == [s EXCEPT !.phase = "answered"]
  <2>1. done = [phase |-> "answered", live |-> s.live, preference |-> s.preference,
                scope |-> s.scope, setting |-> s.setting, prompt |-> s.prompt,
                open |-> s.open, pending |-> s.pending, search |-> s.search,
                answer |-> s.answer]
      BY <1>1 DEF Whole
  <2>2. t = [done EXCEPT !.answer = reply]
      BY DEF Answered
  <2> HIDE DEF done, t
  <2> QED
      BY <2>1, <2>2
<1> HIDE DEF t
<1>4. Whole(t) /\ t.phase = "answered" /\ t.scope = s.scope /\ t.preference = s.preference
      /\ t.setting = s.setting /\ t.prompt = s.prompt /\ t.answer = reply
    BY <1>3 DEF Whole
<1>5. AnswerFits(t.answer, t.prompt, t.scope, t.setting)
    BY <1>2, <1>4 DEF AnswerFits
<1>6. RequestSound(u, t)
    BY <1>1, <1>4, <1>5 DEF RequestSound, Chosen, Running0, Searched0, Answered0
<1> QED
    BY <1>4, <1>6 DEF t

LEMMA FailedSound ==
  ASSUME NEW u, NEW s, RequestSound(u, s), s.phase \in Phases
  PROVE  /\ RequestSound(u, Failed(s))
         /\ Failed(s) = Idle \/ Failed(s).phase \in Phases
<1>1. CASE s.live
  <2>1. Failed(s) = [s EXCEPT !.phase = "failing"]
      BY <1>1 DEF Failed
  <2>2. RequestSound(u, Failed(s))
      BY <2>1, PhaseSound DEF Phases, Running0
  <2>3. Failed(s).phase = "failing"
    <3>1. Whole(s)
        BY WholeSound
    <3> QED
        BY <2>1, <3>1 DEF Whole
  <2> QED
      BY <2>2, <2>3 DEF Phases, Running0
<1>2. CASE ~s.live
    BY <1>2, IdleSound DEF Failed
<1> QED
    BY <1>1, <1>2

LEMMA EmitSound ==
  ASSUME StreamSound, NEW u \in Users, NEW next, Emit(u, next), RequestSound(u, next),
         next = Idle \/ next.phase \in Phases
  PROVE  StreamSound'
<1>1. RequestSound(u, [next EXCEPT !.pending = stream[u].pending + 1])
    BY PendingSound
<1> QED
    BY <1>1, OneSteps DEF Emit

LEMMA CachesKept ==
  ASSUME RequestsSound, StreamSound', UNCHANGED <<explained, searched>>
  PROVE  RequestsSound'
BY DEF RequestsSound, ExplainedSound, SearchedSound

LEMMA SoundOf ==
  ASSUME RequestsSound, NEW u \in Users
  PROVE  StreamSound /\ RequestSound(u, stream[u])
BY DEF RequestsSound, StreamSound

LEMMA ExplainSound ==
  ASSUME RequestsSound, NEW r, Explain(r)
  PROVE  RequestsSound'
<1> DEFINE next == [phase |-> "asked", live |-> r.live, preference |-> r.source,
                    lang |-> project.primary, version |-> entry]
<1>1. Step(r.by, next) /\ UNCHANGED <<explained, searched>>
    BY DEF Explain
<1>2. RequestSound(r.by, next)
    BY DEF RequestSound
<1> HIDE DEF next
<1>3. CASE r.by \in Users
    BY <1>1, <1>2, <1>3, OneSteps, CachesKept DEF RequestsSound
<1>4. CASE r.by \notin Users
  <2>1. stream' = stream
      BY <1>1, <1>4 DEF Step, RequestsSound, StreamSound
  <2> QED
      BY <2>1, <1>1, CachesKept DEF RequestsSound, StreamSound
<1> QED
    BY <1>3, <1>4

(* The provider that is found is one the user chose. *)
LEMMA ResolveSound ==
  ASSUME RequestsSound, NEW u \in Users, Resolve(u)
  PROVE  RequestsSound'
<1> DEFINE s == stream[u]
           choice == Preferred(u, s.preference)
           found == ResolveAi(u, choice)
           Next0(scope) == [phase |-> "resolved", live |-> s.live, preference |-> s.preference,
                            lang |-> s.lang, version |-> s.version, scope |-> scope,
                            setting |-> settings[scope]]
<1>1. Step(u, Idle) \/ \E scope \in found : Step(u, Next0(scope))
    BY DEF Resolve
<1>2. ASSUME NEW scope \in found PROVE RequestSound(u, Next0(scope))
  <2>1. scope \in {u, "project"} /\ (choice = "personal" => scope = u)
        /\ (choice = "project" => scope = "project")
      BY DEF ResolveAi
  <2> DEFINE t == Next0(scope)
  <2>2. t.phase = "resolved" /\ t.scope = scope /\ t.preference = s.preference
      OBVIOUS
  <2> HIDE DEF t, found
  <2>3. Chosen(u, t)
      BY <2>1, <2>2 DEF Chosen
  <2>4. RequestSound(u, t)
      BY <2>2, <2>3 DEF RequestSound
  <2> QED
      BY <2>4 DEF t
<1>3. StreamSound
    BY SoundOf
<1> HIDE DEF Next0, found
<1>4. StreamSound'
    BY <1>1, <1>2, <1>3, OneSteps, IdleSound
<1>5. UNCHANGED <<explained, searched>>
    BY DEF Resolve
<1> QED
    BY <1>4, <1>5, CachesKept

(* The terms gathered are in the language they were looked up in. *)
LEMMA LoadSound ==
  ASSUME RequestsSound, NEW u \in Users, LoadEntryContext(u)
  PROVE  RequestsSound'
<1> DEFINE s == stream[u]
           terms == {[id |-> i, lang |-> book[i].now.lang, version |-> book[i].now.version] :
                       i \in MatchCandidates(s.lang, Original[s.lang])}
           prompt == [lang |-> s.lang, version |-> s.version, recent |-> entry, terms |-> terms]
           phase == IF s.live THEN "connecting" ELSE "lookup"
           t == [phase |-> phase, live |-> s.live,
                 preference |-> s.preference, scope |-> s.scope, setting |-> s.setting,
                 prompt |-> prompt, open |-> TRUE, pending |-> 0, search |-> Nothing,
                 answer |-> Nothing]
<1>1. Step(u, t) /\ s.phase = "resolved" /\ UNCHANGED <<explained, searched>>
    BY DEF LoadEntryContext
<1>2. StreamSound /\ RequestSound(u, s)
    BY SoundOf
<1>3. Chosen(u, s)
    BY <1>1, <1>2 DEF RequestSound, Running0, Searched0, Answered0
<1>4. Coherent(prompt)
  <2>1. \A i \in MatchCandidates(s.lang, Original[s.lang]) : book[i].now.lang = s.lang
      BY DEF MatchCandidates
  <2>2. \A x \in terms : x.lang = s.lang
      BY <2>1
  <2> QED
      BY <2>2 DEF Coherent
<1>5. phase \in {"connecting", "lookup"}
    OBVIOUS
<1> HIDE DEF prompt, phase
<1>6. Whole(t)
    BY DEF Whole
<1>7. t.phase = phase /\ t.scope = s.scope /\ t.preference = s.preference
      /\ t.prompt = prompt
    OBVIOUS
<1> HIDE DEF t
<1>8. Chosen(u, t) /\ Coherent(t.prompt)
    BY <1>3, <1>4, <1>7 DEF Chosen
<1>9. RequestSound(u, t)
    BY <1>5, <1>6, <1>7, <1>8 DEF RequestSound, Running0, Searched0, Answered0
<1> QED
    BY <1>1, <1>2, <1>9, OneSteps, CachesKept

LEMMA RunningPhase ==
  ASSUME RequestsSound, NEW u \in Users, u \in Running
  PROVE  stream[u].phase \in Phases
<1>1. RequestSound(u, stream[u])
    BY SoundOf
<1>2. stream[u].phase \notin {"idle", "asked", "resolved"}
    BY DEF Running
<1> QED
    BY <1>1, <1>2 DEF RequestSound, Phases

(* The steps that announce, choose, and give up. *)
LEMMA MoveSound ==
  ASSUME NEW u, NEW s, NEW phase, RequestSound(u, s), s.phase \in Phases,
         phase \in Running0 \/ (s.phase \in Searched0 /\ phase \in Searched0)
         \/ (s.phase \in Answered0 /\ phase \in Answered0)
  PROVE  /\ RequestSound(u, [s EXCEPT !.phase = phase])
         /\ [s EXCEPT !.phase = phase].phase \in Phases
<1>1. RequestSound(u, [s EXCEPT !.phase = phase])
    BY PhaseSound DEF Phases
<1>2. Whole(s)
    BY WholeSound
<1>3. [s EXCEPT !.phase = phase].phase = phase
    BY <1>2 DEF Whole
<1> QED
    BY <1>1, <1>3 DEF Phases

LEMMA AnnounceSound ==
  ASSUME RequestsSound, NEW u \in Users,
         SendConnecting(u) \/ SendSearching(u) \/ SendThinking(u) \/ ChooseTransport(u)
  PROVE  RequestsSound'
<1> DEFINE s == stream[u]
<1>1. StreamSound /\ RequestSound(u, s)
    BY SoundOf
<1>2. UNCHANGED <<explained, searched>>
    BY DEF SendConnecting, SendSearching, SendThinking, ChooseTransport
<1>3. CASE SendConnecting(u)
  <2>1. s.phase \in Phases /\ Emit(u, [s EXCEPT !.phase = "lookup"])
      BY <1>3 DEF SendConnecting, Phases, Running0
  <2>2. "lookup" \in Running0
      BY DEF Running0
  <2>3. StreamSound'
      BY <1>1, <2>1, <2>2, MoveSound, EmitSound
  <2> QED
      BY <1>2, <2>3, CachesKept
<1>4. CASE SendSearching(u)
  <2>1. s.phase \in Phases /\ Emit(u, [s EXCEPT !.phase = "searching"])
      BY <1>4 DEF SendSearching, Phases, Running0
  <2>2. "searching" \in Running0
      BY DEF Running0
  <2>3. StreamSound'
      BY <1>1, <2>1, <2>2, MoveSound, EmitSound
  <2> QED
      BY <1>2, <2>3, CachesKept
<1>5. CASE SendThinking(u)
  <2>1. s.phase \in Searched0 /\ s.phase \in Phases /\ Emit(u, [s EXCEPT !.phase = "calling"])
      BY <1>5 DEF SendThinking, Phases, Searched0
  <2>2. "calling" \in Searched0
      BY DEF Searched0
  <2>3. StreamSound'
      BY <1>1, <2>1, <2>2, MoveSound, EmitSound
  <2> QED
      BY <1>2, <2>3, CachesKept
<1>6. CASE ChooseTransport(u)
  <2>1. PICK phase \in {"direct", "streaming"} : Step(u, [s EXCEPT !.phase = phase])
      BY <1>6 DEF ChooseTransport
  <2>2. s.phase \in Searched0 /\ s.phase \in Phases /\ phase \in Searched0
      BY <1>6, <2>1 DEF ChooseTransport, Phases, Searched0
  <2>3. StreamSound'
      BY <1>1, <2>1, <2>2, MoveSound, OneSteps
  <2> QED
      BY <1>2, <2>3, CachesKept
<1> QED
    BY <1>3, <1>4, <1>5, <1>6

(* A client that reads, leaves or is given up. *)
LEMMA ClientSound ==
  ASSUME RequestsSound, NEW u \in Users, Drain(u) \/ Close(u) \/ Abandon(u) \/ SendLast(u)
  PROVE  RequestsSound'
<1> DEFINE s == stream[u]
<1>1. StreamSound /\ RequestSound(u, s)
    BY SoundOf
<1>2. UNCHANGED <<explained, searched>>
    BY DEF Drain, Close, Abandon, SendLast
<1>3. CASE Drain(u)
  <2>1. s.phase \in Phases
      BY <1>3, RunningPhase DEF Drain
  <2>2. RequestSound(u, [s EXCEPT !.pending = s.pending - 1])
      BY <1>1, <2>1, PendingSound
  <2>3. Step(u, [s EXCEPT !.pending = s.pending - 1])
      BY <1>3 DEF Drain
  <2> QED
      BY <1>1, <1>2, <2>2, <2>3, OneSteps, CachesKept
<1>4. CASE Close(u)
  <2>1. s.phase \in Phases
      BY <1>4, RunningPhase DEF Close
  <2>2. RequestSound(u, [s EXCEPT !.open = FALSE, !.pending = 0])
      BY <1>1, <2>1, OpenSound
  <2>3. Step(u, [s EXCEPT !.open = FALSE, !.pending = 0]) \/ Step(u, Idle)
      BY <1>4 DEF Close
  <2> QED
      BY <1>1, <1>2, <2>2, <2>3, OneSteps, IdleSound, CachesKept
<1>5. CASE Abandon(u) \/ SendLast(u)
  <2>1. Step(u, Idle)
      BY <1>5 DEF Abandon, SendLast
  <2> QED
      BY <1>1, <1>2, <2>1, OneSteps, IdleSound, CachesKept
<1> QED
    BY <1>3, <1>4, <1>5

(* The provider answers, fails, or is silent for too long. *)
LEMMA ProviderSound ==
  ASSUME RequestsSound, NEW u \in Users, Provider(u) \/ RequestTimeout(u)
  PROVE  RequestsSound'
<1> DEFINE s == stream[u]
<1>1. StreamSound /\ RequestSound(u, s)
    BY SoundOf
<1>2. UNCHANGED <<explained, searched>>
    BY DEF Provider, CallAi, StreamResponse, RejectStreaming, ReadChunk, SendFormatting,
       RequestTimeout
<1>3. s.phase \in Searched0 /\ s.phase \in Phases
    BY DEF Provider, CallAi, StreamResponse, RejectStreaming, ReadChunk, SendFormatting,
       RequestTimeout, Searched0, Phases
<1>4. /\ RequestSound(u, Answered(s)) /\ Answered(s).phase \in Phases
      /\ RequestSound(u, Failed(s)) /\ (Failed(s) = Idle \/ Failed(s).phase \in Phases)
    BY <1>1, <1>3, AnsweredSound, FailedSound DEF Phases, Answered0
<1>5. "direct" \in Searched0 /\ "reading" \in Searched0
    BY DEF Searched0
<1>6. /\ RequestSound(u, [s EXCEPT !.phase = "direct"])
      /\ RequestSound(u, [s EXCEPT !.phase = "reading"])
    BY <1>1, <1>3, <1>5, MoveSound
<1>7. \/ Step(u, Answered(s)) \/ Step(u, Failed(s)) \/ Step(u, [s EXCEPT !.phase = "direct"])
      \/ Step(u, [s EXCEPT !.phase = "reading"])
      \/ Emit(u, s) \/ Emit(u, Answered(s)) \/ Emit(u, Failed(s))
    BY DEF Provider, CallAi, StreamResponse, RejectStreaming, ReadChunk, SendFormatting,
       RequestTimeout
<1>8. StreamSound'
    BY <1>1, <1>3, <1>4, <1>6, <1>7, OneSteps, EmitSound
<1> QED
    BY <1>2, <1>8, CachesKept

(* An answer out of the cache is an answer to this very prompt, of the     *)
(* same owner: the key says so.                                            *)
LEMMA ReadCacheSound ==
  ASSUME RequestsSound, NEW u \in Users, ReadCache(u)
  PROVE  RequestsSound'
<1> DEFINE s == stream[u]
           Hit(c) == [s EXCEPT !.phase = "answering", !.answer = c.answer]
<1>1. StreamSound /\ RequestSound(u, s) /\ UNCHANGED <<explained, searched>>
    BY SoundOf DEF ReadCache
<1>2. s.phase \in Phases
    BY DEF ReadCache, Phases, Running0
<1>3. Whole(s) /\ Chosen(u, s) /\ Coherent(s.prompt)
    BY <1>1, <1>2, WholeSound
<1>4. \/ \E c \in explained : c.key = CacheKey(s) /\ Step(u, Hit(c))
      \/ \E phase \in {"searching", "announcing"} : Step(u, [s EXCEPT !.phase = phase])
    BY DEF ReadCache
<1>5. ASSUME NEW c \in explained, c.key = CacheKey(s) PROVE RequestSound(u, Hit(c))
  <2>1. PICK setting, prompt, scope :
          c.key = <<setting, prompt, scope>> /\ AnswerFits(c.answer, prompt, scope, setting)
      BY DEF RequestsSound, ExplainedSound
  <2>2. setting = s.setting /\ prompt = s.prompt /\ scope = s.scope
      BY <1>5, <2>1 DEF CacheKey
  <2>3. AnswerFits(c.answer, s.prompt, s.scope, s.setting)
      BY <2>1, <2>2
  <2> DEFINE reply == c.answer
             moved == [s EXCEPT !.phase = "answering"]
             t == [moved EXCEPT !.answer = reply]
  <2> HIDE DEF reply
  <2>4. moved = [phase |-> "answering", live |-> s.live, preference |-> s.preference,
                 scope |-> s.scope, setting |-> s.setting, prompt |-> s.prompt,
                 open |-> s.open, pending |-> s.pending, search |-> s.search,
                 answer |-> s.answer]
      BY <1>3 DEF Whole
  <2> HIDE DEF moved
  <2>5. t = [phase |-> "answering", live |-> s.live, preference |-> s.preference,
             scope |-> s.scope, setting |-> s.setting, prompt |-> s.prompt,
             open |-> s.open, pending |-> s.pending, search |-> s.search, answer |-> reply]
      BY <2>4
  <2>6. t = Hit(c)
      BY DEF moved, reply
  <2> HIDE DEF t
  <2>7. Whole(t) /\ t.phase = "answering" /\ t.scope = s.scope /\ t.preference = s.preference
        /\ t.setting = s.setting /\ t.prompt = s.prompt /\ t.answer = reply
      BY <2>5 DEF Whole
  <2>8. AnswerFits(t.answer, t.prompt, t.scope, t.setting)
      BY <2>3, <2>7 DEF reply
  <2>9. Chosen(u, t) /\ Coherent(t.prompt)
      BY <1>3, <2>7 DEF Chosen
  <2>10. RequestSound(u, t)
      BY <2>7, <2>8, <2>9 DEF RequestSound, Running0, Searched0, Answered0
  <2> QED
      BY <2>6, <2>10
<1>6. \A phase \in {"searching", "announcing"} : phase \in Running0
    BY DEF Running0
<1> HIDE DEF Hit
<1>7. StreamSound'
    BY <1>1, <1>2, <1>4, <1>5, <1>6, MoveSound, OneSteps
<1> QED
    BY <1>1, <1>7, CachesKept

(* A search out of the cache has the owner and the mode of this request:   *)
(* both are in the key.                                                    *)
LEMMA SearchSound ==
  ASSUME RequestsSound, NEW u \in Users, ExecuteWebSearch(u)
  PROVE  RequestsSound'
<1> DEFINE s == stream[u]
           set == s.setting
           next == IF s.live THEN "found" ELSE "direct"
           Found(outcome) == [s EXCEPT !.search = outcome, !.phase = next]
           Done(status) == [scope |-> s.scope, status |-> status]
<1>1. StreamSound /\ RequestSound(u, s) /\ UNCHANGED explained
    BY SoundOf DEF ExecuteWebSearch
<1>2. s.phase \in Phases
    BY DEF ExecuteWebSearch, Phases, Running0
<1>3. Whole(s) /\ Chosen(u, s) /\ Coherent(s.prompt)
    BY <1>1, <1>2, WholeSound
<1>4. ASSUME NEW outcome, SearchFits(outcome, s.scope, set.mode)
      PROVE  RequestSound(u, Found(outcome))
  <2> DEFINE held == [s EXCEPT !.search = outcome]
             t == [held EXCEPT !.phase = next]
  <2>1. next \in {"found", "direct"}
      OBVIOUS
  <2> HIDE DEF next
  <2>2. held = [phase |-> s.phase, live |-> s.live, preference |-> s.preference,
                scope |-> s.scope, setting |-> s.setting, prompt |-> s.prompt,
                open |-> s.open, pending |-> s.pending, search |-> outcome,
                answer |-> s.answer]
      BY <1>3 DEF Whole
  <2>3. t = Found(outcome)
      OBVIOUS
  <2> HIDE DEF held
  <2>4. t = [phase |-> next, live |-> s.live, preference |-> s.preference,
             scope |-> s.scope, setting |-> s.setting, prompt |-> s.prompt,
             open |-> s.open, pending |-> s.pending, search |-> outcome, answer |-> s.answer]
      BY <2>2
  <2> HIDE DEF t
  <2>5. Whole(t) /\ t.phase = next /\ t.scope = s.scope /\ t.preference = s.preference
        /\ t.setting = s.setting /\ t.prompt = s.prompt /\ t.search = outcome
      BY <2>4 DEF Whole
  <2>6. Chosen(u, t) /\ Coherent(t.prompt) /\ SearchFits(t.search, t.scope, t.setting.mode)
      BY <1>3, <1>4, <2>5 DEF Chosen
  <2>7. RequestSound(u, t)
      BY <2>1, <2>5, <2>6 DEF RequestSound, Running0, Searched0, Answered0
  <2> QED
      BY <2>3, <2>7
<1>5. ASSUME NEW c \in searched, c.key = SearchKeyOf(s)
      PROVE  SearchFits(c.outcome, s.scope, set.mode)
  <2>1. PICK scope, mode, a, b, d, e :
          c.key = <<scope, mode, a, b, d, e>> /\ SearchFits(c.outcome, scope, mode)
      BY DEF RequestsSound, SearchedSound
  <2>2. scope = s.scope /\ mode = set.mode
      BY <1>5, <2>1 DEF SearchKeyOf
  <2> QED
      BY <2>1, <2>2
<1>6. ASSUME NEW status \in SearchOutcomes(set)
      PROVE  SearchFits(Done(status), s.scope, set.mode)
  <2>1. status = "disabled" <=> set.mode = "disabled"
    <3>1. NativeOutcomes(set) \subseteq {"succeeded", "empty", "failed", "unsupported"}
        BY DEF NativeOutcomes
    <3>2. AdapterOutcomes(set) \subseteq {"succeeded", "empty", "failed", "unsupported"}
        BY DEF AdapterOutcomes
    <3> QED
        BY <3>1, <3>2 DEF SearchOutcomes
  <2> QED
      BY <2>1 DEF SearchFits
<1> HIDE DEF Found
<1>7. \/ /\ \E c \in searched : c.key = SearchKeyOf(s) /\ Step(u, Found(c.outcome))
         /\ searched' = searched
      \/ \E status \in SearchOutcomes(set) :
           /\ Step(u, Found(Done(status)))
           /\ \/ searched' = searched
              \/ searched' = searched \union {[key |-> SearchKeyOf(s), outcome |-> Done(status)]}
    BY DEF ExecuteWebSearch, Found
<1>8. StreamSound'
    BY <1>1, <1>4, <1>5, <1>6, <1>7, OneSteps
<1>9. SearchedSound'
  <2>1. SearchedSound
      BY DEF RequestsSound
  <2>2. CASE searched' = searched
      BY <2>1, <2>2 DEF SearchedSound
  <2>3. ASSUME NEW status \in SearchOutcomes(set),
               searched' = searched \union {[key |-> SearchKeyOf(s), outcome |-> Done(status)]}
        PROVE  SearchedSound'
    <3> DEFINE new == [key |-> SearchKeyOf(s), outcome |-> Done(status)]
    <3>1. new.key = <<s.scope, set.mode, set.provider, set.preset, set.secret, s.prompt.lang>>
        BY DEF SearchKeyOf
    <3>2. SearchFits(new.outcome, s.scope, set.mode)
        BY <1>6
    <3> HIDE DEF new
    <3>3. \E scope, mode, a, b, d, e :
            new.key = <<scope, mode, a, b, d, e>> /\ SearchFits(new.outcome, scope, mode)
        BY <3>1, <3>2
    <3>4. \A c \in searched' : c \in searched \/ c = new
        BY <2>3 DEF new
    <3> QED
        BY <2>1, <3>3, <3>4 DEF SearchedSound
  <2> QED
      BY <1>7, <2>2, <2>3
<1>10. ExplainedSound'
    BY <1>1 DEF RequestsSound, ExplainedSound
<1> QED
    BY <1>8, <1>9, <1>10 DEF RequestsSound

(* What is put into the cache answers the prompt of its key. *)
LEMMA FinalizeSound ==
  ASSUME RequestsSound, NEW u \in Users, FinalizeExplanation(u)
  PROVE  RequestsSound'
<1> DEFINE s == stream[u]
           new == [key |-> CacheKey(s), answer |-> s.answer]
<1>1. StreamSound /\ RequestSound(u, s)
    BY SoundOf
<1>2. s.phase = "answered" /\ Step(u, [s EXCEPT !.phase = "answering"])
      /\ UNCHANGED searched
    BY DEF FinalizeExplanation
<1>3. \A c \in explained' : c \in explained \/ c = new
    BY DEF FinalizeExplanation
<1>4. AnswerFits(s.answer, s.prompt, s.scope, s.setting)
    BY <1>1, <1>2 DEF RequestSound, Answered0, Running0, Searched0
<1>5. s.phase \in Answered0 /\ s.phase \in Phases /\ "answering" \in Answered0
    BY <1>2 DEF Answered0, Phases
<1>6. StreamSound'
    BY <1>1, <1>2, <1>5, MoveSound, OneSteps
<1>7. new.key = <<s.setting, s.prompt, s.scope>> /\ new.answer = s.answer
    BY DEF CacheKey
<1> HIDE DEF new
<1>8. \E setting, prompt, scope :
        new.key = <<setting, prompt, scope>> /\ AnswerFits(new.answer, prompt, scope, setting)
    BY <1>4, <1>7
<1>9. ExplainedSound'
    BY <1>3, <1>8 DEF RequestsSound, ExplainedSound
<1>10. SearchedSound'
    BY <1>2 DEF RequestsSound, SearchedSound
<1> QED
    BY <1>6, <1>9, <1>10 DEF RequestsSound

LEMMA ExpireSound == RequestsSound /\ ExpireCached => RequestsSound'
<1> SUFFICES ASSUME RequestsSound, ExpireCached PROVE RequestsSound'
    OBVIOUS
<1>1. explained' \subseteq explained /\ searched' \subseteq searched /\ stream' = stream
    BY DEF ExpireCached
<1> QED
    BY <1>1 DEF RequestsSound, StreamSound, ExplainedSound, SearchedSound

LEMMA RequestsKept ==
  RequestsSound /\ UNCHANGED <<stream, explained, searched>> => RequestsSound'
BY DEF RequestsSound, StreamSound, ExplainedSound, SearchedSound

LEMMA RequestsNext == RequestsSound /\ [Next]_allVars => RequestsSound'
<1> SUFFICES ASSUME RequestsSound, [Next]_allVars PROVE RequestsSound'
    OBVIOUS
<1>1. CASE UNCHANGED allVars \/ (TermsNext /\ UNCHANGED aiVars)
    BY <1>1, RequestsKept DEF allVars, aiVars
<1>2. ASSUME NEW r \in intent, PutPersonal(r) \/ PutProject(r) PROVE RequestsSound'
    BY <1>2, RequestsKept DEF PutPersonal, PutProject, Put
<1>3. ASSUME NEW r \in intent, DeletePersonal(r) \/ DeleteProjectSetting(r)
      PROVE  RequestsSound'
    BY <1>3, RequestsKept DEF DeletePersonal, DeleteProjectSetting, Dropped
<1>4. ASSUME NEW r \in intent, EditEntry(r) PROVE RequestsSound'
    BY <1>4, RequestsKept DEF EditEntry
<1>5. ASSUME NEW r \in intent, Explain(r) PROVE RequestsSound'
    BY <1>5, ExplainSound
<1>6. ASSUME NEW u \in Users, Progress(u) PROVE RequestsSound'
    BY <1>6, ResolveSound, LoadSound, AnnounceSound, ReadCacheSound, SearchSound,
       ProviderSound, FinalizeSound, ClientSound DEF Progress
<1>7. ASSUME NEW u \in Users, Provider(u) \/ Drain(u) \/ Close(u) PROVE RequestsSound'
    BY <1>7, ProviderSound, ClientSound
<1>8. CASE ExpireCached
    BY <1>8, ExpireSound
<1> QED
    BY <1>1, <1>2, <1>3, <1>4, <1>5, <1>6, <1>7, <1>8 DEF Next, AssistanceNext

(* The explanation a user is given answers the prompt prepared for him, by *)
(* the provider he chose and with a search of the same owner, whoever      *)
(* filled the caches it went through (cache_key, web_search_cache_key).    *)
THEOREM AnswersFitHolds == Spec => []AnswersFit
<1>1. RequestsSound => AnswersFit
  <2> SUFFICES ASSUME RequestsSound, NEW u \in Users, stream[u].phase = "answering"
               PROVE  LET s == stream[u] IN
                      /\ s.answer.prompt = s.prompt /\ s.answer.base = s.setting.base
                      /\ s.answer.scope = s.scope /\ s.answer.search.scope = s.scope
                      /\ s.scope \in {u, "project"}
                      /\ Preferred(u, s.preference) = "personal" => s.scope = u
                      /\ Preferred(u, s.preference) = "project" => s.scope = "project"
                      /\ s.answer.search.status = "disabled" <=> s.setting.mode = "disabled"
                      /\ \A t \in s.prompt.terms : t.lang = s.prompt.lang
      BY DEF AnswersFit
  <2> DEFINE s == stream[u]
  <2>1. RequestSound(u, s)
      BY SoundOf
  <2>2. AnswerFits(s.answer, s.prompt, s.scope, s.setting)
      BY <2>1 DEF RequestSound, Answered0, Running0, Searched0
  <2>3. Chosen(u, s) /\ Coherent(s.prompt)
      BY <2>1, WholeSound DEF Phases, Answered0
  <2> QED
      BY <2>2, <2>3 DEF AnswerFits, SearchFits, Chosen, Coherent
<1> QED
    BY <1>1, RequestsInit, RequestsNext, PTL DEF Spec

-----------------------------------------------------------------------------
(* The glossary *)

(* Induction over numbers, for a set of them. *)
LEMMA Numbers ==
  ASSUME NEW B \in SUBSET Nat, 0 \in B, \A n \in B : n + 1 \in B
  PROVE  B = Nat
<1> SUFFICES ASSUME Nat \ B # {} PROVE FALSE
    OBVIOUS
<1>1. PICK n \in Nat \ B : \A m \in Nat \ B : ~(<<m, n>> \in OpToRel(<, Nat))
    BY NatLessThanWellFounded, WFMin
<1>2. n # 0 /\ n - 1 \in Nat /\ n - 1 < n /\ (n - 1) + 1 = n
    OBVIOUS
<1>3. <<n - 1, n>> \in OpToRel(<, Nat)
    BY <1>2 DEF OpToRel
<1>4. n - 1 \in B
    BY <1>1, <1>2, <1>3
<1> QED
    BY <1>2, <1>4

Kinds == {"create", "restore_create", "update", "delete", "restore", "import",
          "primary_source_archive", "primary_source_activate"}

Version == [kind: Kinds, row: TermRow]
Term == [now: TermRow, versions: Seq(Version)]

(* The history of a term is without gaps and ends with the term. *)
Told(term) ==
  /\ Len(term.versions) > 0
  /\ \A v \in 1..Len(term.versions) : term.versions[v].row.version = v
  /\ term.versions[Len(term.versions)].row = term.now

(* Rows that differ in their version only. *)
Like(a, b) ==
  /\ a.lang = b.lang /\ a.text = b.text /\ a.mode = b.mode /\ a.pos = b.pos
  /\ a.translation = b.translation /\ a.archived = b.archived /\ a.deleted = b.deleted

(* A row that may stand in the glossary as the project is now. *)
Fitting(row) ==
  /\ ~row.deleted /\ ~row.archived => row.lang = project.primary
  /\ ExistingPos(row.pos)

Typed(b) == b \in Seq(Term) /\ \A i \in 1..Len(b) : Told(b[i])
Single(b) == \A i \in 1..Len(b) : Holders(b, b[i].now) = {i}
BookSound(b) == Typed(b) /\ Single(b) /\ \A i \in 1..Len(b) : Fitting(b[i].now)

LEMMA WrittenTerm ==
  ASSUME NEW term \in Term, Told(term), NEW row \in TermRow, NEW kind \in Kinds
  PROVE  /\ Written(term, row, kind) \in Term /\ Told(Written(term, row, kind))
         /\ Like(Written(term, row, kind).now, row)
<1> DEFINE next == [row EXCEPT !.version = term.now.version + 1]
           snap == Snapshot(kind, next)
           told == Append(term.versions, snap)
<1>1. term.now \in TermRow /\ term.versions \in Seq(Version)
    BY DEF Term
<1>2. next \in TermRow /\ Like(next, row) /\ next.version = term.now.version + 1
    BY <1>1 DEF TermRow, Like
<1>3. snap \in Version /\ snap.row = next
    BY <1>2 DEF Snapshot, Version
<1>4. Written(term, row, kind) = [now |-> next, versions |-> told]
    BY DEF Written
<1> HIDE DEF next, snap
<1>5. /\ told \in Seq(Version) /\ Len(told) = Len(term.versions) + 1
      /\ told[Len(told)] = snap
      /\ \A v \in 1..Len(term.versions) : told[v] = term.versions[v]
    BY <1>1, <1>3
<1>6. Len(term.versions) \in Nat
    BY <1>1
<1>7. term.now.version = Len(term.versions)
    BY <1>6 DEF Told
<1> HIDE DEF told
<1>8. ASSUME NEW v \in 1..Len(told) PROVE told[v].row.version = v
  <2>1. CASE v \in 1..Len(term.versions)
      BY <1>5, <2>1 DEF Told
  <2>2. CASE v = Len(term.versions) + 1
      BY <1>2, <1>3, <1>5, <1>7, <2>2
  <2> QED
      BY <1>5, <1>6, <2>1, <2>2
<1>9. Told([now |-> next, versions |-> told])
    BY <1>3, <1>5, <1>6, <1>8 DEF Told
<1>10. [now |-> next, versions |-> told] \in Term
    BY <1>2, <1>5 DEF Term
<1> QED
    BY <1>2, <1>4, <1>9, <1>10

LEMMA LikeIdentity ==
  ASSUME NEW a, NEW b, Like(a, b)
  PROVE  Identity(a) = Identity(b) /\ (Fitting(b) => Fitting(a))
<1>1. Identity(a) = Identity(b)
    BY DEF Like, Identity
<1>2. a.deleted = b.deleted /\ a.archived = b.archived /\ a.lang = b.lang /\ a.pos = b.pos
    BY DEF Like
<1>3. Fitting(b) => Fitting(a)
    BY <1>2, Zenon DEF Fitting
<1> QED
    BY <1>1, <1>3

LEMMA BookTyped ==
  ASSUME NEW b \in Seq(Term)
  PROVE  /\ Len(b) \in Nat /\ DOMAIN b = 1..Len(b)
         /\ \A i \in 1..Len(b) : b[i] \in Term /\ b[i].now \in TermRow
<1>1. /\ Len(b) \in Nat /\ DOMAIN b = 1..Len(b)
      /\ \A i \in 1..Len(b) : b[i] \in Term
    OBVIOUS
<1>2. \A t \in Term : t.now \in TermRow
    BY DEF Term
<1> QED
    BY <1>1, <1>2

(* A term is written over with a row that no other term holds. *)
LEMMA ReplacedSound ==
  ASSUME NEW b, BookSound(b), NEW i \in 1..Len(b), NEW row \in TermRow, NEW kind \in Kinds,
         Holders(b, row) \subseteq {i}, Fitting(row)
  PROVE  /\ BookSound([b EXCEPT ![i] = Written(@, row, kind)])
         /\ Len([b EXCEPT ![i] = Written(@, row, kind)]) = Len(b)
         /\ Like([b EXCEPT ![i] = Written(@, row, kind)][i].now, row)
         /\ \A j \in 1..Len(b) : j # i => [b EXCEPT ![i] = Written(@, row, kind)][j] = b[j]
<1> DEFINE w == Written(b[i], row, kind)
           c == [b EXCEPT ![i] = w]
<1>1. b \in Seq(Term) /\ Len(b) \in Nat /\ DOMAIN b = 1..Len(b)
    BY DEF BookSound, Typed
<1>2. b[i] \in Term /\ Told(b[i])
    BY <1>1 DEF BookSound, Typed
<1>3. w \in Term /\ Told(w) /\ Like(w.now, row)
    BY <1>2, WrittenTerm
<1>4. Identity(w.now) = Identity(row) /\ Fitting(w.now)
    BY <1>3, LikeIdentity
<1> HIDE DEF w
<1>5. c \in Seq(Term) /\ Len(c) = Len(b) /\ DOMAIN c = 1..Len(b)
    BY <1>1, <1>3
<1>6. \A j \in 1..Len(b) : c[j] = IF j = i THEN w ELSE b[j]
    BY <1>1
<1> HIDE DEF c
<1>7. Typed(c)
    BY <1>3, <1>5, <1>6 DEF Typed, BookSound
<1>8. Single(c)
  <2> SUFFICES ASSUME NEW j \in 1..Len(b), NEW k \in 1..Len(b), j # k
               PROVE  Identity(c[k].now) # Identity(c[j].now)
      BY <1>5 DEF Single, Holders
  <2>1. CASE j # i /\ k # i
    <3>1. Holders(b, b[j].now) = {j}
        BY DEF BookSound, Single
    <3>2. Identity(b[k].now) # Identity(b[j].now)
        BY <1>1, <3>1 DEF Holders
    <3> QED
        BY <1>6, <2>1, <3>2
  <2>2. \A m \in 1..Len(b) : m # i => Identity(b[m].now) # Identity(row)
      BY <1>1 DEF Holders
  <2>3. CASE j = i
      BY <1>4, <1>6, <2>2, <2>3
  <2>4. CASE k = i
      BY <1>4, <1>6, <2>2, <2>4
  <2> QED
      BY <2>1, <2>3, <2>4
<1>9. \A j \in 1..Len(c) : Fitting(c[j].now)
    BY <1>4, <1>5, <1>6 DEF BookSound
<1>10. BookSound(c)
    BY <1>7, <1>8, <1>9 DEF BookSound
<1> QED
    BY <1>3, <1>5, <1>6, <1>10 DEF c, w

(* A term is added that no term is the same as. *)
LEMMA InsertedSound ==
  ASSUME NEW b, BookSound(b), NEW row \in TermRow, NEW kind \in Kinds,
         Holders(b, row) = {}, Fitting(row)
  PROVE  /\ BookSound(Inserted(b, row, kind)) /\ Len(Inserted(b, row, kind)) = Len(b) + 1
         /\ Like(Inserted(b, row, kind)[Len(b) + 1].now, row)
         /\ \A j \in 1..Len(b) : Inserted(b, row, kind)[j] = b[j]
<1> DEFINE first == [row EXCEPT !.version = 1]
           snap == Snapshot(kind, first)
           told == <<snap>>
           w == [now |-> first, versions |-> told]
           c == Append(b, w)
<1>1. b \in Seq(Term) /\ Len(b) \in Nat /\ DOMAIN b = 1..Len(b)
    BY DEF BookSound, Typed
<1>2. first \in TermRow /\ first.version = 1 /\ Like(first, row)
    BY DEF TermRow, Like
<1>3. snap \in Version /\ snap.row = first
    BY <1>2 DEF Snapshot, Version
<1>4. Inserted(b, row, kind) = c
    BY DEF Inserted
<1> HIDE DEF first, snap
<1>5. told \in Seq(Version) /\ Len(told) = 1 /\ told[1] = snap
    BY <1>3
<1> HIDE DEF told
<1>6. w \in Term /\ Told(w) /\ w.now = first
  <2>1. w.now = first /\ w.versions = told
      OBVIOUS
  <2>2. w \in Term
      BY <1>2, <1>5 DEF Term
  <2> HIDE DEF w
  <2>3. ASSUME NEW v \in 1..Len(told) PROVE told[v].row.version = v
    <3>1. v = 1
        BY <1>5, <2>3
    <3> QED
        BY <1>2, <1>3, <1>5, <3>1
  <2>4. Len(told) > 0 /\ told[Len(told)].row = w.now
      BY <1>3, <1>5, <2>1
  <2>5. Told(w)
      BY <2>1, <2>3, <2>4, Zenon DEF Told
  <2> QED
      BY <2>1, <2>2, <2>5
<1>7. Identity(w.now) = Identity(row) /\ Fitting(w.now)
    BY <1>2, <1>6, LikeIdentity
<1> HIDE DEF w
<1>8. c \in Seq(Term) /\ Len(c) = Len(b) + 1 /\ DOMAIN c = 1..(Len(b) + 1) /\ c[Len(b) + 1] = w
    BY <1>1, <1>6
<1>9. \A j \in 1..Len(b) : c[j] = b[j]
    BY <1>1, <1>6
<1>10. \A j \in 1..Len(c) : j \in 1..Len(b) \/ j = Len(b) + 1
    BY <1>1, <1>8
<1> HIDE DEF c
<1>11. Typed(c)
    BY <1>6, <1>8, <1>9, <1>10 DEF Typed, BookSound
<1>12. Single(c)
  <2>1. \A m \in 1..Len(b) : Identity(b[m].now) # Identity(row)
      BY <1>1 DEF Holders
  <2> SUFFICES ASSUME NEW j \in 1..Len(c), NEW k \in 1..Len(c), j # k
               PROVE  Identity(c[k].now) # Identity(c[j].now)
      BY <1>8 DEF Single, Holders
  <2>2. CASE j \in 1..Len(b) /\ k \in 1..Len(b)
    <3>1. Holders(b, b[j].now) = {j}
        BY <2>2 DEF BookSound, Single
    <3>2. Identity(b[k].now) # Identity(b[j].now)
        BY <1>1, <2>2, <3>1 DEF Holders
    <3> QED
        BY <1>9, <2>2, <3>2
  <2>3. CASE j = Len(b) + 1 /\ k \in 1..Len(b)
      BY <1>7, <1>8, <1>9, <2>1, <2>3
  <2>4. CASE k = Len(b) + 1 /\ j \in 1..Len(b)
      BY <1>7, <1>8, <1>9, <2>1, <2>4
  <2> QED
      BY <1>10, <2>2, <2>3, <2>4
<1>13. \A j \in 1..Len(c) : Fitting(c[j].now)
    BY <1>7, <1>8, <1>9, <1>10 DEF BookSound
<1>14. BookSound(c)
    BY <1>11, <1>12, <1>13 DEF BookSound
<1> QED
    BY <1>2, <1>4, <1>6, <1>8, <1>9, <1>14

(* Holder j of the row is written, or a new one; the others stay. *)
LEMMA UpsertedSound ==
  ASSUME NEW b, BookSound(b), NEW row \in TermRow, NEW kind \in Kinds, Fitting(row)
  PROVE  /\ BookSound(Upserted(b, row, kind))
         /\ \E j \in 1..Len(Upserted(b, row, kind)) : Like(Upserted(b, row, kind)[j].now, row)
         /\ Len(b) <= Len(Upserted(b, row, kind))
         /\ \A i \in 1..Len(b) : Identity(b[i].now) # Identity(row) =>
              Upserted(b, row, kind)[i] = b[i]
<1>1. Len(b) \in Nat /\ DOMAIN b = 1..Len(b)
    BY BookTyped DEF BookSound, Typed
<1>2. CASE Holders(b, row) = {}
  <2>1. Upserted(b, row, kind) = Inserted(b, row, kind)
      BY <1>2 DEF Upserted
  <2>2. /\ BookSound(Inserted(b, row, kind)) /\ Len(Inserted(b, row, kind)) = Len(b) + 1
        /\ Like(Inserted(b, row, kind)[Len(b) + 1].now, row)
        /\ \A j \in 1..Len(b) : Inserted(b, row, kind)[j] = b[j]
      BY <1>2, InsertedSound
  <2>3. Len(b) + 1 \in 1..(Len(b) + 1) /\ Len(b) <= Len(b) + 1
      BY <1>1
  <2> QED
      BY <2>1, <2>2, <2>3
<1>3. CASE Holders(b, row) # {}
  <2> DEFINE i == CHOOSE i \in Holders(b, row) : TRUE
  <2>1. i \in Holders(b, row)
      BY <1>3
  <2>2. Upserted(b, row, kind) = [b EXCEPT ![i] = Written(@, row, kind)]
      BY <1>3 DEF Upserted
  <2> HIDE DEF i
  <2>3. i \in 1..Len(b) /\ Identity(b[i].now) = Identity(row)
      BY <1>1, <2>1 DEF Holders
  <2>4. Holders(b, row) = Holders(b, b[i].now)
      BY <2>3 DEF Holders
  <2>5. Holders(b, row) \subseteq {i}
      BY <2>3, <2>4 DEF BookSound, Single
  <2>6. /\ BookSound([b EXCEPT ![i] = Written(@, row, kind)])
        /\ Len([b EXCEPT ![i] = Written(@, row, kind)]) = Len(b)
        /\ Like([b EXCEPT ![i] = Written(@, row, kind)][i].now, row)
        /\ \A j \in 1..Len(b) : j # i => [b EXCEPT ![i] = Written(@, row, kind)][j] = b[j]
      BY <2>3, <2>5, ReplacedSound
  <2> QED
      BY <1>1, <2>2, <2>3, <2>6
<1> QED
    BY <1>2, <1>3

-----------------------------------------------------------------------------
(* Imports *)

LEMMA TermStepsAre ==
  ASSUME NEW rows, Len(rows) \in Nat
  PROVE  /\ TermSteps(rows)[0] = book
         /\ \A n \in 0..(Len(rows) - 1) :
              TermSteps(rows)[n + 1] = Upserted(TermSteps(rows)[n], Resolved(rows)[n + 1], "import")
<1> DEFINE Body(f, n) == IF n = 0 THEN book ELSE Upserted(f[n - 1], Resolved(rows)[n], "import")
           Upto(k) == \E f : f = [n \in 0..k |-> Body(f, n)]
           B == {k \in Nat : Upto(k)}
<1>1. 0 \in B
  <2> DEFINE f == [n \in 0..0 |-> book]
  <2>1. \A n \in 0..0 : Body(f, n) = book
      OBVIOUS
  <2>2. f = [n \in 0..0 |-> Body(f, n)]
      BY <2>1
  <2> QED
      BY <2>2
<1>2. ASSUME NEW k \in B PROVE k + 1 \in B
  <2>1. PICK f : f = [n \in 0..k |-> Body(f, n)]
      OBVIOUS
  <2> DEFINE g == [n \in 0..(k + 1) |-> Body(f, n)]
  <2>2. ASSUME NEW n \in 0..(k + 1) PROVE Body(f, n) = Body(g, n)
    <3>1. CASE n = 0
        BY <3>1
    <3>2. CASE n # 0
      <4>1. n - 1 \in 0..k /\ n - 1 \in 0..(k + 1)
          BY <3>2
      <4>2. f[n - 1] = Body(f, n - 1)
          BY <2>1, <4>1
      <4>3. g[n - 1] = Body(f, n - 1)
          BY <4>1
      <4> QED
          BY <3>2, <4>2, <4>3
    <3> QED
        BY <3>1, <3>2
  <2> HIDE DEF Body
  <2>3. g = [n \in 0..(k + 1) |-> Body(g, n)]
      BY <2>2
  <2>4. Upto(k + 1)
      BY <2>3
  <2> QED
      BY <2>4
<1>3. B = Nat
  <2> HIDE DEF B
  <2>1. B \in SUBSET Nat
      BY DEF B
  <2> QED
      BY <1>1, <1>2, <2>1, Numbers
<1>4. Upto(Len(rows))
    BY <1>3
<1> DEFINE s == TermSteps(rows)
<1>5. s = [n \in 0..Len(rows) |-> Body(s, n)]
  <2>1. s = CHOOSE f : f = [n \in 0..Len(rows) |-> Body(f, n)]
      BY DEF TermSteps
  <2> HIDE DEF s, Body
  <2> QED
      BY <1>4, <2>1
<1> HIDE DEF s
<1>6. s[0] = book
    BY <1>5
<1>7. ASSUME NEW n \in 0..(Len(rows) - 1)
      PROVE  s[n + 1] = Upserted(s[n], Resolved(rows)[n + 1], "import")
  <2>1. n + 1 \in 0..Len(rows) /\ n + 1 # 0 /\ (n + 1) - 1 = n
      OBVIOUS
  <2>2. s[n + 1] = Body(s, n + 1)
      BY <1>5, <2>1
  <2> QED
      BY <2>1, <2>2
<1> QED
    BY <1>6, <1>7 DEF s

LEMMA PosStepsAre ==
  ASSUME NEW rows, Len(rows) \in Nat
  PROVE  /\ PosSteps(rows)[0] = presets
         /\ \A n \in 0..(Len(rows) - 1) : PosSteps(rows)[n + 1] = PosStep(PosSteps(rows)[n], rows[n + 1])
<1> DEFINE Body(f, n) == IF n = 0 THEN presets ELSE PosStep(f[n - 1], rows[n])
           Upto(k) == \E f : f = [n \in 0..k |-> Body(f, n)]
           B == {k \in Nat : Upto(k)}
<1>1. 0 \in B
  <2> DEFINE f == [n \in 0..0 |-> presets]
  <2>1. \A n \in 0..0 : Body(f, n) = presets
      OBVIOUS
  <2>2. f = [n \in 0..0 |-> Body(f, n)]
      BY <2>1
  <2> QED
      BY <2>2
<1>2. ASSUME NEW k \in B PROVE k + 1 \in B
  <2>1. PICK f : f = [n \in 0..k |-> Body(f, n)]
      OBVIOUS
  <2> DEFINE g == [n \in 0..(k + 1) |-> Body(f, n)]
  <2>2. ASSUME NEW n \in 0..(k + 1) PROVE Body(f, n) = Body(g, n)
    <3>1. CASE n = 0
        BY <3>1
    <3>2. CASE n # 0
      <4>1. n - 1 \in 0..k /\ n - 1 \in 0..(k + 1)
          BY <3>2
      <4>2. f[n - 1] = Body(f, n - 1)
          BY <2>1, <4>1
      <4>3. g[n - 1] = Body(f, n - 1)
          BY <4>1
      <4> QED
          BY <3>2, <4>2, <4>3
    <3> QED
        BY <3>1, <3>2
  <2> HIDE DEF Body
  <2>3. g = [n \in 0..(k + 1) |-> Body(g, n)]
      BY <2>2
  <2>4. Upto(k + 1)
      BY <2>3
  <2> QED
      BY <2>4
<1>3. B = Nat
  <2> HIDE DEF B
  <2>1. B \in SUBSET Nat
      BY DEF B
  <2> QED
      BY <1>1, <1>2, <2>1, Numbers
<1>4. Upto(Len(rows))
    BY <1>3
<1> DEFINE s == PosSteps(rows)
<1>5. s = [n \in 0..Len(rows) |-> Body(s, n)]
  <2>1. s = CHOOSE f : f = [n \in 0..Len(rows) |-> Body(f, n)]
      BY DEF PosSteps
  <2> HIDE DEF s, Body
  <2> QED
      BY <1>4, <2>1
<1> HIDE DEF s
<1>6. s[0] = presets
    BY <1>5
<1>7. ASSUME NEW n \in 0..(Len(rows) - 1) PROVE s[n + 1] = PosStep(s[n], rows[n + 1])
  <2>1. n + 1 \in 0..Len(rows) /\ n + 1 # 0 /\ (n + 1) - 1 = n
      OBVIOUS
  <2>2. s[n + 1] = Body(s, n + 1)
      BY <1>5, <2>1
  <2> QED
      BY <2>1, <2>2
<1> QED
    BY <1>6, <1>7 DEF s

(* A part of speech, or where one was. *)
Slot == Preset \union {NoPreset}

(* What a row of a document becomes fits where its plan holds. *)
LEMMA ResolvedFits ==
  ASSUME presets \in Seq(Slot), NEW rows \in Seq(DocumentRow), PlanHolds("term", rows),
         NEW n \in 1..Len(rows)
  PROVE  Resolved(rows)[n] \in TermRow /\ Fitting(Resolved(rows)[n])
<1> DEFINE d == rows[n]
           p == ResolvePosName(d.pos)
           row == [lang |-> d.lang, text |-> d.text, mode |-> d.mode, pos |-> p,
                   translation |-> d.translation, archived |-> d.archived, deleted |-> FALSE,
                   version |-> 1]
<1>1. d \in DocumentRow /\ n \in DOMAIN rows
    OBVIOUS
<1>2. p \in Nat /\ ExistingPos(p)
  <2>1. CASE Named(d.pos) = {}
      BY <2>1 DEF ResolvePosName, NoPos, ExistingPos
  <2>2. CASE Named(d.pos) # {}
    <3>1. p \in Named(d.pos)
        BY <2>2 DEF ResolvePosName
    <3> HIDE DEF p
    <3>2. p \in DOMAIN presets /\ presets[p] # NoPreset
        BY <3>1 DEF Named, SameName, NoPreset
    <3>3. DOMAIN presets \subseteq Nat
        OBVIOUS
    <3> QED
        BY <3>2, <3>3 DEF ExistingPos
  <2> QED
      BY <2>1, <2>2
<1>3. TermWritePlan(d.lang, d.archived)
    BY <1>1 DEF PlanHolds
<1>4. Resolved(rows)[n] = row
    BY <1>1 DEF Resolved
<1> HIDE DEF p
<1>5. row \in TermRow
    BY <1>1, <1>2 DEF DocumentRow, TermRow
<1>6. Fitting(row)
    BY <1>2, <1>3 DEF Fitting, TermWritePlan
<1> QED
    BY <1>4, <1>5, <1>6

(* Row by row the glossary stays sound and shows what was imported. *)
LEMMA TermImport ==
  ASSUME BookSound(book), presets \in Seq(Slot), NEW rows \in Seq(DocumentRow),
         PlanHolds("term", rows)
  PROVE  /\ BookSound(TermSteps(rows)[Len(rows)])
         /\ \A n \in DOMAIN rows : Shows(TermSteps(rows)[Len(rows)], rows[n])
<1> DEFINE s == TermSteps(rows)
           R(n) == Resolved(rows)[n]
           Done(n) == /\ BookSound(s[n])
                      /\ \A k \in 1..n : \E j \in 1..Len(s[n]) : Like(s[n][j].now, R(k))
           B == {n \in Nat : n <= Len(rows) => Done(n)}
<1>1. Len(rows) \in Nat /\ DOMAIN rows = 1..Len(rows)
    OBVIOUS
<1>2. /\ s[0] = book
      /\ \A n \in 0..(Len(rows) - 1) : s[n + 1] = Upserted(s[n], R(n + 1), "import")
    BY <1>1, TermStepsAre
<1>3. \A n \in 1..Len(rows) : R(n) \in TermRow /\ Fitting(R(n))
    BY ResolvedFits
<1>4. \A n, k \in 1..Len(rows) : n # k => Identity(R(n)) # Identity(R(k))
    BY <1>1 DEF PlanHolds, ResolveTermRows
<1> HIDE DEF s, R
<1>5. 0 \in B
    BY <1>2
<1>6. ASSUME NEW n \in B PROVE n + 1 \in B
  <2> SUFFICES ASSUME n + 1 <= Len(rows) PROVE Done(n + 1)
      OBVIOUS
  <2>1. n \in Nat /\ n <= Len(rows) /\ n \in 0..(Len(rows) - 1) /\ n + 1 \in 1..Len(rows)
      BY <1>1
  <2>2. BookSound(s[n]) /\ \A k \in 1..n : \E j \in 1..Len(s[n]) : Like(s[n][j].now, R(k))
      BY <2>1
  <2> DEFINE b == s[n]
             c == s[n + 1]
             row == R(n + 1)
  <2>3. c = Upserted(b, row, "import")
      BY <1>2, <2>1
  <2>4. row \in TermRow /\ Fitting(row) /\ "import" \in Kinds
    <3>1. "import" \in Kinds
        BY DEF Kinds
    <3>2. row \in TermRow /\ Fitting(row)
        BY ONLY <1>3, <2>1, Zenon
    <3> QED
        BY <3>1, <3>2
  <2>5. BookSound(b)
      BY <2>2
  <2> HIDE DEF b, c, row
  <2>6. /\ BookSound(Upserted(b, row, "import"))
        /\ \E j \in 1..Len(Upserted(b, row, "import")) : Like(Upserted(b, row, "import")[j].now, row)
        /\ Len(b) <= Len(Upserted(b, row, "import"))
        /\ \A i \in 1..Len(b) : Identity(b[i].now) # Identity(row) =>
             Upserted(b, row, "import")[i] = b[i]
      BY ONLY <2>4, <2>5, UpsertedSound
  <2>7. /\ BookSound(c) /\ Len(b) <= Len(c)
        /\ \E j \in 1..Len(c) : Like(c[j].now, row)
        /\ \A i \in 1..Len(b) : Identity(b[i].now) # Identity(row) => c[i] = b[i]
      BY ONLY <2>3, <2>6
  <2>8. Len(b) \in Nat /\ Len(c) \in Nat
      BY <2>5, <2>7, BookTyped DEF BookSound, Typed
  <2>9. ASSUME NEW k \in 1..(n + 1) PROVE \E j \in 1..Len(c) : Like(c[j].now, R(k))
    <3>1. CASE k = n + 1
        BY <2>7, <3>1 DEF row
    <3>2. CASE k # n + 1
      <4>1. k \in 1..n /\ k \in 1..Len(rows) /\ n + 1 # k
          BY <1>1, <2>1, <3>2
      <4>2. PICK j \in 1..Len(b) : Like(b[j].now, R(k))
          BY <2>2, <4>1 DEF b
      <4>3. Identity(b[j].now) = Identity(R(k))
          BY <4>2, LikeIdentity
      <4>4. Identity(R(k)) # Identity(row)
          BY <1>4, <2>1, <4>1 DEF row
      <4>5. c[j] = b[j]
          BY <2>7, <4>3, <4>4
      <4>6. j \in 1..Len(c)
          BY <2>7, <2>8
      <4> QED
          BY <4>2, <4>5, <4>6
    <3> QED
        BY <3>1, <3>2
  <2> QED
      BY <2>7, <2>9 DEF c
<1>7. Done(Len(rows))
  <2> HIDE DEF Done
  <2>1. B \in SUBSET Nat
      OBVIOUS
  <2> HIDE DEF B
  <2>2. B = Nat
      BY ONLY <1>5, <1>6, <2>1, Numbers
  <2> QED
      BY <1>1, <2>2 DEF B
<1> DEFINE b == s[Len(rows)]
<1>8. ASSUME NEW n \in 1..Len(rows) PROVE Shows(b, rows[n])
  <2>1. PICK j \in 1..Len(b) : Like(b[j].now, R(n))
      BY <1>1, <1>7
  <2>2. j \in DOMAIN b
      BY <1>7, BookTyped DEF BookSound, Typed
  <2>3. /\ R(n).lang = rows[n].lang /\ R(n).text = rows[n].text /\ R(n).mode = rows[n].mode
        /\ R(n).translation = rows[n].translation /\ R(n).archived = rows[n].archived
        /\ R(n).deleted = FALSE
      BY <1>1 DEF R, Resolved
  <2> HIDE DEF b
  <2>4. /\ b[j].now.lang = rows[n].lang /\ b[j].now.text = rows[n].text
        /\ b[j].now.mode = rows[n].mode /\ b[j].now.translation = rows[n].translation
        /\ b[j].now.archived = rows[n].archived /\ ~b[j].now.deleted
      BY <2>1, <2>3 DEF Like
  <2> QED
      BY <2>2, <2>4 DEF Shows
<1> QED
    BY <1>1, <1>7, <1>8 DEF s

(* Parts of speech may be added and renamed, but no one is lost. *)
Standing(p) ==
  /\ p \in Seq(Slot) /\ Len(presets) <= Len(p)
  /\ \A i \in 1..Len(presets) : presets[i] # NoPreset => p[i] # NoPreset

LEMMA PosImport ==
  ASSUME presets \in Seq(Slot), NEW rows \in Seq(Preset)
  PROVE  Standing(PosSteps(rows)[Len(rows)])
<1> DEFINE s == PosSteps(rows)
           B == {n \in Nat : n <= Len(rows) => Standing(s[n])}
<1>1. Len(rows) \in Nat /\ Len(presets) \in Nat /\ DOMAIN presets = 1..Len(presets)
    OBVIOUS
<1>2. s[0] = presets /\ \A n \in 0..(Len(rows) - 1) : s[n + 1] = PosStep(s[n], rows[n + 1])
    BY <1>1, PosStepsAre
<1> HIDE DEF s
<1>3. 0 \in B
    BY <1>1, <1>2 DEF Standing
<1>4. ASSUME NEW n \in B PROVE n + 1 \in B
  <2> SUFFICES ASSUME n + 1 <= Len(rows) PROVE Standing(s[n + 1])
      OBVIOUS
  <2> DEFINE p == s[n]
             row == rows[n + 1]
             new == [zh |-> row.zh, en |-> row.en]
             i == CHOOSE i \in Claims(row) : TRUE
  <2>1. n \in 0..(Len(rows) - 1) /\ n <= Len(rows) /\ n + 1 \in 1..Len(rows)
      BY <1>1
  <2>2. row \in Preset
      BY <2>1
  <2>3. Standing(p)
      BY <2>1
  <2>4. s[n + 1] = IF Claims(row) = {} THEN Append(p, new) ELSE [p EXCEPT ![i] = new]
      BY <1>2, <2>1 DEF PosStep
  <2>5. new \in Slot
      BY <2>2 DEF Preset, Slot
  <2>6. Claims(row) # {} => i \in 1..Len(presets) /\ new # NoPreset
    <3> SUFFICES ASSUME Claims(row) # {} PROVE i \in 1..Len(presets) /\ new # NoPreset
        OBVIOUS
    <3>1. i \in Claims(row)
        OBVIOUS
    <3> HIDE DEF i
    <3> QED
        BY <1>1, <3>1 DEF Claims, SameName, NoPreset
  <2> HIDE DEF p, row, new, i
  <2>7. CASE Claims(row) = {}
    <3>1. Standing(Append(p, new))
        BY <1>1, <2>3, <2>5 DEF Standing
    <3> QED
        BY <2>4, <2>7, <3>1
  <2>8. CASE Claims(row) # {}
    <3>1. i \in 1..Len(presets) /\ new # NoPreset
        BY <2>6, <2>8
    <3>2. Standing([p EXCEPT ![i] = new])
        BY <1>1, <2>3, <2>5, <3>1 DEF Standing
    <3> QED
        BY <2>4, <2>8, <3>2
  <2> QED
      BY <2>7, <2>8
<1>5. B \in SUBSET Nat
    OBVIOUS
<1> HIDE DEF B
<1>6. B = Nat
    BY ONLY <1>3, <1>4, <1>5, Numbers
<1> QED
    BY <1>1, <1>6 DEF B, s

-----------------------------------------------------------------------------
(* Steps of the glossary *)

(* A document that was previewed. *)
Document(p) ==
  /\ p.token \in Tokens /\ p.kind \in {"term", "pos"}
  /\ p.rows \in Seq(IF p.kind = "term" THEN DocumentRow ELSE Preset)

(* A token is in Redis, in one user's hands, or used up. *)
ImportsSound ==
  /\ preview = [t \in Tokens |-> preview[t]]
  /\ importing = [u \in Users |-> importing[u]]
  /\ applied = [t \in Tokens |-> applied[t]]
  /\ \A t \in Tokens : preview[t] # NoPreview =>
       /\ Document(preview[t]) /\ preview[t].token = t /\ applied[t] = 0
       /\ \A u \in Users : importing[u].token # t
  /\ \A u \in Users : importing[u] # NoPreview =>
       /\ Document(importing[u]) /\ importing[u].user = u /\ applied[importing[u].token] = 0
       /\ \A v \in Users : v # u => importing[v].token # importing[u].token

ProjectTyped == project \in [primary: Languages, ready: BOOLEAN, scheduled: BOOLEAN]

TermsInv ==
  /\ intent \in TermIntents /\ ProjectTyped /\ presets \in Seq(Slot)
  /\ BookSound(book) /\ ImportsSound

LEMMA NoToken == NoPreview.token \notin Tokens /\ NoPreview.kind = "none"
BY TermsAssumption DEF NoPreview

LEMMA TermsStart == TermsInit => TermsInv
<1> SUFFICES ASSUME TermsInit PROVE TermsInv
    OBVIOUS
<1>1. ProjectTyped /\ presets \in Seq(Slot) /\ intent \in TermIntents
    BY TermsAssumption DEF TermsInit, ProjectTyped, Slot
<1>2. BookSound(book)
    BY DEF TermsInit, BookSound, Typed, Single
<1>3. ImportsSound
    BY NoToken DEF TermsInit, ImportsSound
<1> QED
    BY <1>1, <1>2, <1>3 DEF TermsInv

(* The glossary stays where it is while presets only come and change. *)
LEMMA BookStays ==
  ASSUME BookSound(book), presets \in Seq(Slot), UNCHANGED <<project, book>>,
         Standing(presets') \/ UNCHANGED presets
  PROVE  BookSound(book)'
<1>1. \A p : ExistingPos(p) => ExistingPos(p)'
  <2> SUFFICES ASSUME NEW p, ExistingPos(p), p # NoPos PROVE p \in DOMAIN presets' /\ presets'[p] # NoPreset
      BY DEF ExistingPos
  <2>1. CASE UNCHANGED presets
      BY <2>1 DEF ExistingPos
  <2>2. CASE Standing(presets')
    <3>1. p \in 1..Len(presets) /\ presets[p] # NoPreset
        BY DEF ExistingPos
    <3>2. p \in 1..Len(presets') /\ DOMAIN presets' = 1..Len(presets')
        BY <2>2, <3>1 DEF Standing
    <3> QED
        BY <2>2, <3>1, <3>2 DEF Standing
  <2> QED
      BY <2>1, <2>2
<1>2. \A row : Fitting(row) => Fitting(row)'
    BY <1>1 DEF Fitting
<1> QED
    BY <1>2 DEF BookSound, Typed, Single, Told, Holders, Identity

LEMMA BookMoves ==
  ASSUME NEW c, BookSound(c), book' = c, UNCHANGED <<project, presets>>
  PROVE  BookSound(book)'
<1>1. \A row : Fitting(row) => Fitting(row)'
    BY DEF Fitting, ExistingPos
<1> QED
    BY <1>1 DEF BookSound, Typed, Single, Told, Holders, Identity

LEMMA Requests == \A r \in intent : intent \in TermIntents => Request(r)
BY TermsAssumption

LEMMA TermWrites ==
  ASSUME BookSound(book), NEW r, Request(r),
         CreateTerm(r) \/ UpdateTerm(r) \/ DeleteTerm(r) \/ RestoreVersion(r)
  PROVE  BookSound(book)'
<1>1. book \in Seq(Term) /\ DOMAIN book = 1..Len(book) /\ Len(book) \in Nat
    BY BookTyped DEF BookSound, Typed
<1>2. CASE CreateTerm(r)
  <2> DEFINE kind == IF Holders(book, r.row) = {} THEN "create" ELSE "restore_create"
  <2>1. kind \in Kinds /\ r.row \in TermRow
      BY <1>2 DEF CreateTerm, Request, Kinds
  <2>2. Fitting(r.row)
      BY <1>2 DEF CreateTerm, TermWritePlan, Fitting
  <2>3. book' = Upserted(book, r.row, kind) /\ UNCHANGED <<project, presets>>
      BY <1>2 DEF CreateTerm
  <2> HIDE DEF kind
  <2>4. BookSound(Upserted(book, r.row, kind))
      BY <2>1, <2>2, UpsertedSound
  <2> QED
      BY ONLY <2>3, <2>4, BookMoves
<1>3. ASSUME NEW i \in 1..Len(book), NEW row \in TermRow, NEW kind \in Kinds,
             Holders(book, row) \subseteq {i}, Fitting(row),
             book' = [book EXCEPT ![i] = Written(@, row, kind)], UNCHANGED <<project, presets>>
      PROVE  BookSound(book)'
  <2>1. BookSound([book EXCEPT ![i] = Written(@, row, kind)])
      BY <1>3, ReplacedSound
  <2> QED
      BY ONLY <1>3, <2>1, BookMoves
<1>4. CASE UpdateTerm(r)
  <2>1. r.id \in 1..Len(book) /\ r.row \in TermRow /\ "update" \in Kinds
      BY <1>1, <1>4 DEF UpdateTerm, Request, Kinds
  <2>2. Fitting(r.row) /\ Holders(book, r.row) \subseteq {r.id}
      BY <1>4 DEF UpdateTerm, TermWritePlan, Fitting
  <2>3. book' = [book EXCEPT ![r.id] = Written(@, r.row, "update")] /\ UNCHANGED <<project, presets>>
      BY <1>4 DEF UpdateTerm
  <2> QED
      BY <1>3, <2>1, <2>2, <2>3
<1>5. CASE DeleteTerm(r)
  <2> DEFINE i == r.id
             row == [book[i].now EXCEPT !.deleted = TRUE]
  <2>1. i \in 1..Len(book) /\ "delete" \in Kinds
      BY <1>1, <1>5 DEF DeleteTerm, Kinds
  <2>2. book[i].now \in TermRow
      BY <1>1, <2>1, BookTyped
  <2>3. row \in TermRow /\ row.deleted /\ Identity(row) = Identity(book[i].now)
        /\ row.pos = book[i].now.pos
      BY <2>2 DEF TermRow, Identity
  <2>4. book' = [book EXCEPT ![i] = Written(@, row, "delete")] /\ UNCHANGED <<project, presets>>
      BY <1>5 DEF DeleteTerm
  <2> HIDE DEF i, row
  <2>5. Holders(book, row) = Holders(book, book[i].now)
      BY <2>3 DEF Holders
  <2>6. Holders(book, row) \subseteq {i}
      BY <2>1, <2>5 DEF BookSound, Single
  <2>7. Fitting(row)
      BY <2>1, <2>3 DEF BookSound, Fitting
  <2> QED
      BY <1>3, <2>1, <2>3, <2>4, <2>6, <2>7
<1>6. CASE RestoreVersion(r)
  <2> DEFINE i == r.id
             old == book[i].versions[r.version].row
             row == [old EXCEPT !.deleted = FALSE]
  <2>1. i \in 1..Len(book) /\ "restore" \in Kinds
      BY <1>1, <1>6 DEF RestoreVersion, Kinds
  <2>2. old \in TermRow
    <3>1. book[i] \in Term /\ r.version \in DOMAIN book[i].versions
      <4>1. book[i] \in Term
          BY ONLY <1>1, <2>1
      <4>2. r.version \in DOMAIN book[i].versions
          BY <1>6 DEF RestoreVersion
      <4> QED
          BY <4>1, <4>2
    <3>2. book[i].versions \in Seq(Version)
        BY <3>1 DEF Term
    <3>3. book[i].versions[r.version] \in Version
        BY <3>1, <3>2
    <3> QED
        BY <3>3 DEF Version
  <2>3. row \in TermRow /\ row.archived = old.archived /\ row.lang = old.lang /\ row.pos = old.pos
        /\ Identity(row) = Identity(old)
      BY <2>2 DEF TermRow, Identity
  <2>4. /\ TermWritePlan(old.lang, old.archived) /\ ExistingPos(old.pos)
        /\ Holders(book, old) \subseteq {i}
        /\ book' = [book EXCEPT ![i] = Written(@, row, "restore")]
        /\ UNCHANGED <<project, presets>>
      BY <1>6 DEF RestoreVersion
  <2> HIDE DEF i, old, row
  <2>5. Holders(book, row) \subseteq {i}
      BY <2>3, <2>4 DEF Holders
  <2>6. Fitting(row)
      BY <2>3, <2>4 DEF Fitting, TermWritePlan
  <2> QED
      BY <1>3, <2>1, <2>3, <2>4, <2>5, <2>6
<1> QED
    BY <1>2, <1>4, <1>5, <1>6

(* Every term is in the new language, archived or deleted. *)
LEMMA SwitchSound ==
  ASSUME BookSound(book), ProjectTyped, NEW r, ChangePrimarySource(r)
  PROVE  BookSound(book)'
<1>1. book \in Seq(Term) /\ DOMAIN book = 1..Len(book) /\ Len(book) \in Nat
      /\ \A i \in 1..Len(book) : book[i] \in Term /\ book[i].now \in TermRow
    BY BookTyped DEF BookSound, Typed
<1>2. book' = PrimarySourcePlan(r.lang) /\ project'.primary = r.lang /\ presets' = presets
    BY DEF ChangePrimarySource, ProjectTyped
<1>3. ASSUME NEW i \in 1..Len(book)
      PROVE  /\ book'[i] \in Term /\ Told(book'[i])
             /\ Identity(book'[i].now) = Identity(book[i].now)
             /\ book'[i].now.pos = book[i].now.pos
             /\ ~book'[i].now.deleted /\ ~book'[i].now.archived => book'[i].now.lang = r.lang
  <2> DEFINE term == book[i]
             a == [term.now EXCEPT !.archived = TRUE]
             n == [term.now EXCEPT !.archived = FALSE]
  <2>1. term \in Term /\ Told(term) /\ term.now \in TermRow
      BY <1>1 DEF BookSound, Typed
  <2>2. book'[i] = IF term.now.deleted \/ term.now.archived = (term.now.lang # r.lang) THEN term
                   ELSE IF term.now.lang = r.lang THEN Activated(term) ELSE Archived(term)
      BY <1>1, <1>2 DEF PrimarySourcePlan
  <2>3. /\ a \in TermRow /\ a.archived /\ a.lang = term.now.lang /\ a.pos = term.now.pos
        /\ Identity(a) = Identity(term.now)
        /\ n \in TermRow /\ n.lang = term.now.lang /\ n.pos = term.now.pos
        /\ Identity(n) = Identity(term.now)
      BY <2>1 DEF TermRow, Identity
  <2>4. Archived(term) = Written(term, a, "primary_source_archive")
      BY DEF Archived
  <2>5. Activated(term) = Written(term, n, "primary_source_activate")
      BY DEF Activated
  <2>6. "primary_source_archive" \in Kinds /\ "primary_source_activate" \in Kinds
      BY DEF Kinds
  <2>7. term.now.archived \in BOOLEAN
      BY <2>1 DEF TermRow
  <2> HIDE DEF term, a, n
  <2>8. Archived(term) \in Term /\ Told(Archived(term)) /\ Like(Archived(term).now, a)
      BY ONLY <2>1, <2>3, <2>4, <2>6, WrittenTerm
  <2>9. Activated(term) \in Term /\ Told(Activated(term)) /\ Like(Activated(term).now, n)
      BY ONLY <2>1, <2>3, <2>5, <2>6, WrittenTerm
  <2>10. CASE term.now.deleted \/ term.now.archived = (term.now.lang # r.lang)
    <3>1. book'[i] = term
        BY <2>2, <2>10
    <3>2. ~term.now.deleted /\ ~term.now.archived => term.now.lang = r.lang
        BY <2>10
    <3> QED
        BY <2>1, <3>1, <3>2 DEF term
  <2>11. CASE ~(term.now.deleted \/ term.now.archived = (term.now.lang # r.lang))
              /\ term.now.lang = r.lang
    <3>1. book'[i] = Activated(term)
        BY <2>2, <2>11
    <3>2. Identity(Activated(term).now) = Identity(n)
        BY ONLY <2>9, LikeIdentity
    <3>3. Activated(term).now.lang = n.lang /\ Activated(term).now.pos = n.pos
        BY <2>9 DEF Like
    <3> QED
        BY <2>3, <2>9, <2>11, <3>1, <3>2, <3>3 DEF term
  <2>12. CASE ~(term.now.deleted \/ term.now.archived = (term.now.lang # r.lang))
              /\ term.now.lang # r.lang
    <3>1. book'[i] = Archived(term)
        BY <2>2, <2>12
    <3>2. Identity(Archived(term).now) = Identity(a)
        BY ONLY <2>8, LikeIdentity
    <3>3. Archived(term).now.archived /\ Archived(term).now.pos = a.pos
        BY <2>3, <2>8 DEF Like
    <3> QED
        BY <2>3, <2>8, <3>1, <3>2, <3>3 DEF term
  <2> QED
      BY <2>10, <2>11, <2>12
<1>4. book' \in Seq(Term) /\ Len(book') = Len(book) /\ DOMAIN book' = 1..Len(book)
  <2>1. book' = [i \in 1..Len(book) |-> book'[i]]
      BY <1>1, <1>2 DEF PrimarySourcePlan
  <2> QED
      BY <1>1, <1>3, <2>1
<1>5. Typed(book)'
    BY <1>3, <1>4 DEF Typed, Told
<1>6. Single(book)'
  <2> SUFFICES ASSUME NEW i \in 1..Len(book) PROVE Holders(book, book[i].now)' = {i}
      BY <1>4 DEF Single
  <2>1. Holders(book, book[i].now)' = Holders(book, book[i].now)
      BY <1>1, <1>3, <1>4 DEF Holders, Identity
  <2> QED
      BY <2>1 DEF BookSound, Single
<1>7. ASSUME NEW i \in 1..Len(book) PROVE Fitting(book[i].now)'
  <2>1. ExistingPos(book[i].now.pos)
      BY DEF BookSound, Fitting
  <2>2. ExistingPos(book[i].now.pos)'
      BY <1>2, <1>3, <2>1 DEF ExistingPos
  <2> QED
      BY <1>2, <1>3, <2>2 DEF Fitting
<1> QED
    BY <1>4, <1>5, <1>6, <1>7 DEF BookSound

LEMMA DetachedRow ==
  ASSUME NEW row \in TermRow, NEW p
  PROVE  /\ Detached(row, p) \in TermRow /\ Detached(row, p).version = row.version
         /\ Detached(row, p).deleted = row.deleted /\ Detached(row, p).archived = row.archived
         /\ Detached(row, p).lang = row.lang
         /\ Detached(row, p).pos = NoPos \/ (Detached(row, p).pos = row.pos /\ row.pos # p)
BY DEF Detached, TermRow, NoPos

(* Who named the part of speech that is deleted names none, in the history
   as well. *)
LEMMA DetachSound ==
  ASSUME BookSound(book), presets \in Seq(Slot), NEW r, DeletePos(r)
  PROVE  BookSound(book)' /\ presets' \in Seq(Slot)
<1> DEFINE p == r.id
           D(row) == Detached(row, p)
<1>1. book \in Seq(Term) /\ DOMAIN book = 1..Len(book) /\ Len(book) \in Nat
      /\ \A i \in 1..Len(book) : book[i] \in Term /\ book[i].now \in TermRow
    BY BookTyped DEF BookSound, Typed
<1>2. presets' \in Seq(Slot) /\ DOMAIN presets' = DOMAIN presets
      /\ \A q \in DOMAIN presets : q # p => presets'[q] = presets[q]
  <2>1. NoPreset \in Slot
      BY DEF Slot
  <2> HIDE DEF p
  <2> QED
      BY <2>1 DEF DeletePos, p
<1>3. ASSUME NEW i \in 1..Len(book)
      PROVE  book'[i] \in Term /\ Told(book'[i]) /\ book'[i].now = D(book[i].now)
  <2> DEFINE told == book[i].versions
             new == [v \in DOMAIN told |-> [told[v] EXCEPT !.row = D(@)]]
  <2>1. book'[i] = [now |-> D(book[i].now), versions |-> new]
      BY <1>1 DEF DeletePos
  <2>2. told \in Seq(Version) /\ Len(told) \in Nat
        /\ DOMAIN told = 1..Len(told)
      BY <1>1 DEF Term
  <2>3. Told(book[i])
      BY DEF BookSound, Typed
  <2>4. D(book[i].now) \in TermRow
      BY <1>1, DetachedRow
  <2> HIDE DEF told, D
  <2>5. ASSUME NEW v \in 1..Len(told)
        PROVE  /\ new[v] \in Version /\ new[v].row = D(told[v].row)
               /\ new[v].row.version = told[v].row.version
    <3>1. told[v] \in Version
        BY <2>2
    <3>2. D(told[v].row) \in TermRow /\ D(told[v].row).version = told[v].row.version
        BY <3>1, DetachedRow DEF D, Version
    <3>3. new[v] = [told[v] EXCEPT !.row = D(told[v].row)]
        BY <2>2
    <3> QED
        BY <3>1, <3>2, <3>3 DEF Version
  <2>6. new \in Seq(Version) /\ Len(new) = Len(told)
    <3>1. new = [v \in 1..Len(told) |-> new[v]]
        BY <2>2
    <3> HIDE DEF new
    <3>2. \A v \in 1..Len(told) : new[v] \in Version
        BY <2>5
    <3> QED
        BY ONLY <2>2, <3>1, <3>2
  <2> HIDE DEF new
  <2>7. /\ Len(told) > 0 /\ told[Len(told)].row = book[i].now
        /\ \A v \in 1..Len(told) : told[v].row.version = v
      BY <2>3 DEF Told, told
  <2>8. /\ Len(new) > 0 /\ new[Len(new)].row = D(book[i].now)
        /\ \A v \in 1..Len(new) : new[v].row.version = v
      BY <2>2, <2>5, <2>6, <2>7
  <2>9. Told([now |-> D(book[i].now), versions |-> new])
      BY <2>8 DEF Told
  <2>10. [now |-> D(book[i].now), versions |-> new] \in Term
      BY <2>4, <2>6 DEF Term
  <2> QED
      BY <2>1, <2>9, <2>10
<1>4. book' \in Seq(Term) /\ Len(book') = Len(book) /\ DOMAIN book' = 1..Len(book)
  <2>1. book' = [i \in 1..Len(book) |-> book'[i]]
      BY <1>1 DEF DeletePos
  <2> QED
      BY <1>1, <1>3, <2>1
<1>5. Typed(book)'
    BY <1>3, <1>4 DEF Typed, Told
<1>6. Single(book)'
  <2>1. \A i \in 1..Len(book) : Holders(book', book'[i].now) = {i}
      BY <1>4 DEF DeletePos
  <2> QED
      BY <1>4, <2>1 DEF Single, Holders, Identity
<1>7. ASSUME NEW i \in 1..Len(book) PROVE Fitting(book[i].now)'
  <2>1. Fitting(book[i].now) /\ book[i].now \in TermRow
      BY <1>1 DEF BookSound
  <2>2. project' = project
      BY DEF DeletePos
  <2> DEFINE row == book[i].now
             new == D(row)
  <2>3. /\ new.deleted = row.deleted /\ new.archived = row.archived /\ new.lang = row.lang
        /\ new.pos = NoPos \/ (new.pos = row.pos /\ row.pos # p)
      BY <2>1, DetachedRow
  <2>4. new.pos = NoPos \/ (new.pos \in DOMAIN presets' /\ presets'[new.pos] # NoPreset)
      BY <1>2, <2>1, <2>3 DEF Fitting, ExistingPos
  <2>5. ~new.deleted /\ ~new.archived => new.lang = project'.primary
      BY <2>1, <2>2, <2>3 DEF Fitting
  <2>6. book'[i].now = new
      BY <1>3
  <2> HIDE DEF new
  <2> QED
      BY <2>4, <2>5, <2>6 DEF Fitting, ExistingPos
<1> QED
    BY <1>2, <1>4, <1>5, <1>6, <1>7 DEF BookSound

(* What ImportExact says of a step. *)
Committed ==
  \A u \in Users : \A t \in Tokens :
    importing[u].token = t /\ applied'[t] # applied[t] =>
      /\ applied'[t] = 1 /\ importing[u].user = u
      /\ importing[u].kind = "term" =>
           \A n \in DOMAIN importing[u].rows : Shows(book', importing[u].rows[n])

LEMMA ImportsKept ==
  ASSUME ImportsSound, UNCHANGED <<preview, importing, applied>>
  PROVE  ImportsSound' /\ Committed
BY DEF ImportsSound, Document, Committed

LEMMA PreviewSound ==
  ASSUME ImportsSound, NEW r, Request(r), PreviewImport(r)
  PROVE  ImportsSound' /\ Committed
<1>1. PICK t \in Tokens :
        /\ preview[t] = NoPreview /\ applied[t] = 0 /\ \A v \in Users : importing[v].token # t
        /\ preview' = [preview EXCEPT ![t] =
             [kind |-> r.kind, user |-> r.by, rows |-> r.rows, token |-> t]]
    BY DEF PreviewImport
<1> DEFINE p == [kind |-> r.kind, user |-> r.by, rows |-> r.rows, token |-> t]
<1>2. importing' = importing /\ applied' = applied
    BY DEF PreviewImport
<1>3. Document(p) /\ p.token = t
    BY DEF PreviewImport, Request, Document
<1> HIDE DEF p
<1>4. /\ preview' = [x \in Tokens |-> preview'[x]]
      /\ \A x \in Tokens : preview'[x] = IF x = t THEN p ELSE preview[x]
    BY <1>1 DEF ImportsSound, p
<1>5. \A x \in Tokens : preview'[x] # NoPreview =>
        /\ Document(preview'[x]) /\ preview'[x].token = x /\ applied[x] = 0
        /\ \A u \in Users : importing[u].token # x
    BY <1>1, <1>3, <1>4 DEF ImportsSound
<1>6. ImportsSound'
    BY <1>2, <1>4, <1>5 DEF ImportsSound, Document
<1> QED
    BY <1>2, <1>6 DEF Committed

LEMMA TakenSound ==
  ASSUME ImportsSound, NEW r, Request(r), TakeBoundPreview(r)
  PROVE  ImportsSound' /\ Committed
<1> DEFINE u == r.by
<1>1. /\ u \in Users /\ importing[u] = NoPreview /\ applied' = applied
      /\ r.kind \in {"term", "pos"}
    BY DEF TakeBoundPreview, Request
<1>2. PICK t \in Tokens :
        /\ preview[t].user = u /\ preview[t].kind = r.kind
        /\ importing' = [importing EXCEPT ![u] = preview[t]]
        /\ preview' = [preview EXCEPT ![t] = NoPreview]
    BY DEF TakeBoundPreview
<1> HIDE DEF u
<1>3. preview[t] # NoPreview
    BY <1>1, <1>2, NoToken
<1> DEFINE p == preview[t]
<1>4. /\ Document(p) /\ p.token = t /\ applied[t] = 0 /\ p.user = u
      /\ \A v \in Users : importing[v].token # t
    BY <1>2, <1>3 DEF ImportsSound
<1>5. /\ preview' = [x \in Tokens |-> preview'[x]]
      /\ \A x \in Tokens : preview'[x] = IF x = t THEN NoPreview ELSE preview[x]
    BY <1>2 DEF ImportsSound
<1>6. /\ importing' = [v \in Users |-> importing'[v]]
      /\ \A v \in Users : importing'[v] = IF v = u THEN p ELSE importing[v]
    BY <1>1, <1>2 DEF ImportsSound
<1> HIDE DEF p
<1>7. \A x \in Tokens : preview'[x] # NoPreview =>
        /\ Document(preview'[x]) /\ preview'[x].token = x /\ applied[x] = 0
        /\ \A v \in Users : importing'[v].token # x
    BY <1>4, <1>5, <1>6 DEF ImportsSound
<1>8. \A v \in Users : importing'[v] # NoPreview =>
        /\ Document(importing'[v]) /\ importing'[v].user = v /\ applied[importing'[v].token] = 0
        /\ \A w \in Users : w # v => importing'[w].token # importing'[v].token
    BY <1>4, <1>6 DEF ImportsSound
<1>9. applied' = [x \in Tokens |-> applied'[x]]
    BY <1>1 DEF ImportsSound
<1>10. ImportsSound'
    BY <1>1, <1>5, <1>6, <1>7, <1>8, <1>9 DEF ImportsSound, Document
<1> QED
    BY <1>1, <1>10 DEF Committed

(* A preview or an import that is given up. *)
LEMMA DroppedSound ==
  ASSUME ImportsSound, UNCHANGED applied,
         \/ ExpirePreview
         \/ \E u \in Users : importing' = [importing EXCEPT ![u] = NoPreview] /\ UNCHANGED preview
  PROVE  ImportsSound' /\ Committed
<1>1. CASE ExpirePreview
  <2>1. PICK t \in Tokens : preview' = [preview EXCEPT ![t] = NoPreview]
      BY <1>1 DEF ExpirePreview
  <2>2. importing' = importing
      BY <1>1 DEF ExpirePreview
  <2>3. /\ preview' = [x \in Tokens |-> preview'[x]]
        /\ \A x \in Tokens : preview'[x] # NoPreview => preview'[x] = preview[x]
      BY <2>1 DEF ImportsSound
  <2> QED
      BY <2>2, <2>3 DEF ImportsSound, Document, Committed
<1>2. ASSUME NEW u \in Users, importing' = [importing EXCEPT ![u] = NoPreview], UNCHANGED preview
      PROVE  ImportsSound' /\ Committed
  <2>1. /\ importing' = [v \in Users |-> importing'[v]]
        /\ \A v \in Users : importing'[v] = IF v = u THEN NoPreview ELSE importing[v]
      BY <1>2 DEF ImportsSound
  <2>2. \A x \in Tokens : NoPreview.token # x
      BY NoToken
  <2>3. \A x \in Tokens : preview'[x] # NoPreview =>
          /\ Document(preview'[x]) /\ preview'[x].token = x /\ applied[x] = 0
          /\ \A v \in Users : importing'[v].token # x
      BY <1>2, <2>1, <2>2 DEF ImportsSound
  <2>4. \A v \in Users : importing'[v] # NoPreview =>
          /\ Document(importing'[v]) /\ importing'[v].user = v /\ applied[importing'[v].token] = 0
          /\ \A w \in Users : w # v => importing'[w].token # importing'[v].token
      BY <2>1, <2>2 DEF ImportsSound, Document
  <2>5. applied' = [x \in Tokens |-> applied'[x]] /\ preview' = [x \in Tokens |-> preview'[x]]
      BY <1>2 DEF ImportsSound
  <2>6. ImportsSound'
      BY <1>2, <2>1, <2>3, <2>4, <2>5 DEF ImportsSound, Document
  <2> QED
      BY <2>6 DEF Committed
<1> QED
    BY <1>1, <1>2

(* The token is used up, and it was used for this user only. *)
LEMMA ConfirmedSound ==
  ASSUME ImportsSound, NEW u \in Users, importing[u] # NoPreview, UNCHANGED preview,
         applied' = [applied EXCEPT ![importing[u].token] = @ + 1],
         importing' = [importing EXCEPT ![u] = NoPreview]
  PROVE  /\ ImportsSound'
         /\ \A v \in Users : \A t \in Tokens :
              importing[v].token = t /\ applied'[t] # applied[t] =>
                v = u /\ applied'[t] = 1 /\ importing[v].user = v
<1> DEFINE s == importing[u].token
<1>1. /\ s \in Tokens /\ applied[s] = 0 /\ importing[u].user = u
      /\ \A v \in Users : v # u => importing[v].token # s
    BY DEF ImportsSound, Document
<1>2. /\ applied' = [x \in Tokens |-> applied'[x]]
      /\ \A x \in Tokens : applied'[x] = IF x = s THEN 1 ELSE applied[x]
    BY <1>1 DEF ImportsSound
<1>3. /\ importing' = [v \in Users |-> importing'[v]]
      /\ \A v \in Users : importing'[v] = IF v = u THEN NoPreview ELSE importing[v]
    BY DEF ImportsSound
<1>4. \A x \in Tokens : NoPreview.token # x
    BY NoToken
<1>5. preview[s] = NoPreview
    BY <1>1 DEF ImportsSound
<1> HIDE DEF s
<1>6. \A x \in Tokens : preview'[x] # NoPreview =>
        /\ Document(preview'[x]) /\ preview'[x].token = x /\ applied'[x] = 0
        /\ \A v \in Users : importing'[v].token # x
    BY <1>2, <1>3, <1>4, <1>5 DEF ImportsSound
<1>7. \A v \in Users : importing'[v] # NoPreview =>
        /\ Document(importing'[v]) /\ importing'[v].user = v /\ applied'[importing'[v].token] = 0
        /\ \A w \in Users : w # v => importing'[w].token # importing'[v].token
  <2> SUFFICES ASSUME NEW v \in Users, importing'[v] # NoPreview
               PROVE  /\ Document(importing'[v]) /\ importing'[v].user = v
                      /\ applied'[importing'[v].token] = 0
                      /\ \A w \in Users : w # v => importing'[w].token # importing'[v].token
      OBVIOUS
  <2>1. v # u /\ importing'[v] = importing[v] /\ importing[v] # NoPreview
      BY <1>3
  <2>2. /\ Document(importing[v]) /\ importing[v].user = v /\ applied[importing[v].token] = 0
        /\ \A w \in Users : w # v => importing[w].token # importing[v].token
      BY <2>1 DEF ImportsSound
  <2>3. importing[v].token \in Tokens /\ importing[v].token # s
      BY <1>1, <2>1, <2>2 DEF Document
  <2> QED
      BY <1>2, <1>3, <1>4, <2>1, <2>2, <2>3
<1>8. preview' = [x \in Tokens |-> preview'[x]]
    BY DEF ImportsSound
<1>9. ImportsSound'
    BY <1>2, <1>3, <1>6, <1>7, <1>8 DEF ImportsSound, Document
<1>10. ASSUME NEW v \in Users, NEW t \in Tokens, importing[v].token = t, applied'[t] # applied[t]
       PROVE  v = u /\ applied'[t] = 1 /\ importing[v].user = v
  <2>1. t = s
      BY <1>2, <1>10
  <2> QED
      BY <1>1, <1>2, <1>10, <2>1
<1> QED
    BY <1>9, <1>10

LEMMA TermsStep == TermsInv /\ TermsNext => TermsInv' /\ Committed
<1> SUFFICES ASSUME TermsInv, TermsNext PROVE TermsInv' /\ Committed
    OBVIOUS
<1>1. /\ intent \in TermIntents /\ ProjectTyped /\ presets \in Seq(Slot)
      /\ BookSound(book) /\ ImportsSound
    BY DEF TermsInv
<1>2. \A r \in intent : Request(r)
    BY <1>1, Requests
<1>3. ASSUME NEW r \in intent,
             CreateTerm(r) \/ UpdateTerm(r) \/ DeleteTerm(r) \/ RestoreVersion(r)
      PROVE  TermsInv' /\ Committed
  <2>1. BookSound(book)'
      BY <1>1, <1>2, <1>3, TermWrites
  <2>2. UNCHANGED <<project, presets, preview, importing, applied, intent>>
      BY <1>3 DEF CreateTerm, UpdateTerm, DeleteTerm, RestoreVersion
  <2> QED
      BY <1>1, <2>1, <2>2, ImportsKept DEF TermsInv, ProjectTyped
<1>4. ASSUME NEW r \in intent, ChangePrimarySource(r) PROVE TermsInv' /\ Committed
  <2>1. BookSound(book)'
      BY <1>1, <1>4, SwitchSound
  <2>2. UNCHANGED <<presets, preview, importing, applied, intent>>
      BY <1>4 DEF ChangePrimarySource
  <2>3. ProjectTyped'
    <3>1. r.lang \in Languages
        BY <1>2, <1>4 DEF Request, ChangePrimarySource
    <3> QED
        BY <1>1, <1>4, <3>1 DEF ProjectTyped, ChangePrimarySource
  <2> QED
      BY <1>1, <2>1, <2>2, <2>3, ImportsKept DEF TermsInv
<1>5. ASSUME NEW r \in intent, ToggleScheduled(r) PROVE TermsInv' /\ Committed
  <2>1. ProjectTyped' /\ project'.primary = project.primary
      BY <1>1, <1>5 DEF ToggleScheduled, ProjectTyped
  <2>2. UNCHANGED <<book, presets, preview, importing, applied, intent>>
      BY <1>5 DEF ToggleScheduled
  <2>3. \A row : Fitting(row) => Fitting(row)'
      BY <2>1, <2>2 DEF Fitting, ExistingPos
  <2>4. BookSound(book)'
      BY <1>1, <2>2, <2>3 DEF BookSound, Typed, Single, Told, Holders, Identity
  <2> QED
      BY <1>1, <2>1, <2>2, <2>4, ImportsKept DEF TermsInv
<1>6. ASSUME NEW r \in intent, CreatePos(r) \/ UpdatePos(r) PROVE TermsInv' /\ Committed
  <2>1. UNCHANGED <<project, book, preview, importing, applied, intent>>
      BY <1>6 DEF CreatePos, UpdatePos
  <2>2. r.preset \in Slot /\ r.preset # NoPreset
      BY <1>2, <1>6 DEF CreatePos, UpdatePos, Request, Slot
  <2>3. Standing(presets')
    <3>1. CASE CreatePos(r)
        BY <1>1, <2>2, <3>1 DEF CreatePos, Standing
    <3>2. CASE UpdatePos(r)
        BY <1>1, <2>2, <3>2 DEF UpdatePos, Standing
    <3> QED
        BY <1>6, <3>1, <3>2
  <2>4. BookSound(book)'
      BY <1>1, <2>1, <2>3, BookStays
  <2>5. presets' \in Seq(Slot)
      BY <2>3 DEF Standing
  <2> QED
      BY <1>1, <2>1, <2>4, <2>5, ImportsKept DEF TermsInv, ProjectTyped
<1>7. ASSUME NEW r \in intent, DeletePos(r) PROVE TermsInv' /\ Committed
  <2>1. BookSound(book)' /\ presets' \in Seq(Slot)
      BY <1>1, <1>7, DetachSound
  <2>2. UNCHANGED <<project, preview, importing, applied, intent>>
      BY <1>7 DEF DeletePos
  <2> QED
      BY <1>1, <2>1, <2>2, ImportsKept DEF TermsInv, ProjectTyped
<1>8. ASSUME UNCHANGED <<project, book, presets, intent>>, ImportsSound' /\ Committed
      PROVE  TermsInv' /\ Committed
  <2>1. BookSound(book)'
      BY <1>1, <1>8, BookStays
  <2> QED
      BY <1>1, <1>8, <2>1 DEF TermsInv, ProjectTyped
<1>9. ASSUME NEW r \in intent, PreviewImport(r) \/ TakeBoundPreview(r)
      PROVE  TermsInv' /\ Committed
  <2>1. ImportsSound' /\ Committed
      BY <1>1, <1>2, <1>9, PreviewSound, TakenSound
  <2>2. UNCHANGED <<project, book, presets, intent>>
      BY <1>9 DEF PreviewImport, TakeBoundPreview
  <2> QED
      BY <1>8, <2>1, <2>2
<1>10. ASSUME NEW u \in Users, ConfirmPosImport(u) PROVE TermsInv' /\ Committed
  <2> DEFINE rows == importing[u].rows
  <2>1. importing[u].kind = "pos" /\ importing[u] # NoPreview
      BY <1>10, NoToken DEF ConfirmPosImport
  <2>2. rows \in Seq(Preset)
      BY <1>1, <2>1 DEF ImportsSound, Document
  <2>3. presets' = PosSteps(rows)[Len(rows)] /\ UNCHANGED <<project, book, preview, intent>>
      BY <1>10 DEF ConfirmPosImport
  <2>4. /\ applied' = [applied EXCEPT ![importing[u].token] = @ + 1]
        /\ importing' = [importing EXCEPT ![u] = NoPreview]
      BY <1>10 DEF ConfirmPosImport
  <2>5. /\ ImportsSound'
        /\ \A v \in Users : \A t \in Tokens :
             importing[v].token = t /\ applied'[t] # applied[t] =>
               v = u /\ applied'[t] = 1 /\ importing[v].user = v
      BY <1>1, <2>1, <2>3, <2>4, ConfirmedSound
  <2>6. Committed
      BY <2>1, <2>5 DEF Committed
  <2> HIDE DEF rows
  <2>7. Standing(presets')
      BY <1>1, <2>2, <2>3, PosImport
  <2>8. BookSound(book)'
      BY <1>1, <2>3, <2>7, BookStays
  <2>9. presets' \in Seq(Slot)
      BY <2>7 DEF Standing
  <2> QED
      BY <1>1, <2>3, <2>5, <2>6, <2>8, <2>9 DEF TermsInv, ProjectTyped
<1>11. ASSUME NEW u \in Users, ConfirmTermImport(u) PROVE TermsInv' /\ Committed
  <2> DEFINE rows == importing[u].rows
             b == TermSteps(rows)[Len(rows)]
  <2>1. importing[u].kind = "term" /\ importing[u] # NoPreview
      BY <1>11, NoToken DEF ConfirmTermImport
  <2>2. rows \in Seq(DocumentRow)
      BY <1>1, <2>1 DEF ImportsSound, Document
  <2>3. /\ book' = b /\ PlanHolds("term", rows)
        /\ UNCHANGED <<project, presets, preview, intent>>
      BY <1>11 DEF ConfirmTermImport
  <2>4. /\ applied' = [applied EXCEPT ![importing[u].token] = @ + 1]
        /\ importing' = [importing EXCEPT ![u] = NoPreview]
      BY <1>11 DEF ConfirmTermImport
  <2>5. /\ ImportsSound'
        /\ \A v \in Users : \A t \in Tokens :
             importing[v].token = t /\ applied'[t] # applied[t] =>
               v = u /\ applied'[t] = 1 /\ importing[v].user = v
      BY <1>1, <2>1, <2>3, <2>4, ConfirmedSound
  <2>6. BookSound(b) /\ \A n \in DOMAIN rows : Shows(b, rows[n])
    <3> HIDE DEF rows
    <3> QED
        BY ONLY <1>1, <2>2, <2>3, TermImport DEF b
  <2>7. Committed
    <3> HIDE DEF b
    <3> QED
        BY <2>3, <2>5, <2>6 DEF Committed
  <2>8. BookSound(book)'
    <3> HIDE DEF b, rows
    <3> QED
        BY <2>3, <2>6, BookMoves
  <2> QED
      BY <1>1, <2>3, <2>5, <2>7, <2>8 DEF TermsInv, ProjectTyped
<1>12. ASSUME NEW u \in Users, LoseImport(u) PROVE TermsInv' /\ Committed
  <2>1. ImportsSound' /\ Committed
      BY <1>1, <1>12, DroppedSound DEF LoseImport
  <2>2. UNCHANGED <<project, book, presets, intent>>
      BY <1>12 DEF LoseImport
  <2> QED
      BY <1>8, <2>1, <2>2
<1>13. CASE ExpirePreview
  <2>1. UNCHANGED <<project, book, presets, intent, applied>>
      BY <1>13 DEF ExpirePreview
  <2>2. ImportsSound' /\ Committed
      BY <1>1, <1>13, <2>1, DroppedSound
  <2> QED
      BY <1>8, <2>1, <2>2
<1> QED
    BY <1>3, <1>4, <1>5, <1>6, <1>7, <1>9, <1>10, <1>11, <1>12, <1>13 DEF TermsNext

LEMMA TermsKept == TermsInv /\ UNCHANGED termVars => TermsInv'
<1> SUFFICES ASSUME TermsInv, UNCHANGED termVars PROVE TermsInv'
    OBVIOUS
<1>1. UNCHANGED <<project, book, presets, preview, importing, applied, intent>>
    BY DEF termVars
<1>2. BookSound(book)'
    BY <1>1, BookStays DEF TermsInv
<1>3. ImportsSound'
    BY <1>1, ImportsKept DEF TermsInv
<1> QED
    BY <1>1, <1>2, <1>3 DEF TermsInv, ProjectTyped

LEMMA TermsInvNext == TermsInv /\ [Next]_allVars => TermsInv' /\ [Committed]_termVars
<1> SUFFICES ASSUME TermsInv, [Next]_allVars PROVE TermsInv' /\ [Committed]_termVars
    OBVIOUS
<1>1. CASE TermsNext
    BY <1>1, TermsStep
<1>2. CASE UNCHANGED termVars
    BY <1>2, TermsKept
<1>3. ASSUME NEW r \in intent,
             \/ PutPersonal(r) \/ PutProject(r) \/ DeletePersonal(r) \/ DeleteProjectSetting(r)
             \/ EditEntry(r) \/ Explain(r)
      PROVE  UNCHANGED termVars
    BY <1>3 DEF PutPersonal, PutProject, Put, DeletePersonal, DeleteProjectSetting, Dropped,
       EditEntry, Explain, Quiet
<1>4. ASSUME NEW u \in Users, Progress(u) PROVE UNCHANGED termVars
    BY <1>4 DEF Progress, Quiet, Resolve, LoadEntryContext, SendConnecting, ReadCache,
       SendSearching, ExecuteWebSearch, SendThinking, ChooseTransport, RequestTimeout,
       FinalizeExplanation, SendLast, Abandon
<1>5. ASSUME NEW u \in Users, Provider(u) \/ Drain(u) \/ Close(u) PROVE UNCHANGED termVars
    BY <1>5 DEF Provider, Quiet, CallAi, StreamResponse, RejectStreaming, ReadChunk,
       SendFormatting, Drain, Close
<1>6. CASE ExpireCached
    BY <1>6, <1>2 DEF ExpireCached, Quiet
<1>7. CASE UNCHANGED allVars
    BY <1>7, <1>2 DEF allVars
<1> QED
    BY <1>1, <1>2, <1>3, <1>4, <1>5, <1>6, <1>7 DEF Next, AssistanceNext

LEMMA TermsInvHolds == Spec => []TermsInv
<1>1. Init => TermsInv
    BY TermsStart DEF Init
<1> QED
    BY <1>1, TermsInvNext, PTL DEF Spec

(* However terms are written, restored and imported and the language is
   switched, the glossary has no live term of another language, no term
   twice, and no part of speech that is gone. *)
THEOREM GlossarySoundHolds == Spec => []GlossarySound
<1>1. TermsInv => GlossarySound
  <2> SUFFICES ASSUME TermsInv, NEW i \in DOMAIN book
               PROVE  LET row == book[i].now IN
                      /\ ~row.deleted /\ ~row.archived => row.lang = project.primary
                      /\ Holders(book, row) = {i}
                      /\ ExistingPos(row.pos)
      BY DEF GlossarySound
  <2>1. i \in 1..Len(book)
      BY BookTyped DEF TermsInv, BookSound, Typed
  <2>2. Fitting(book[i].now) /\ Holders(book, book[i].now) = {i}
      BY <2>1 DEF TermsInv, BookSound, Single
  <2> QED
      BY <2>2 DEF Fitting
<1> QED
    BY <1>1, TermsInvHolds, PTL

(* Every version of a term has its row, and the last one is the term. *)
THEOREM HistoryTellsHolds == Spec => []HistoryTells
<1>1. TermsInv => HistoryTells
  <2> SUFFICES ASSUME TermsInv, NEW i \in DOMAIN book
               PROVE  LET told == book[i].versions IN
                      /\ \A v \in DOMAIN told : told[v].row.version = v
                      /\ told[Len(told)].row = book[i].now
      BY DEF HistoryTells
  <2>1. i \in 1..Len(book) /\ book[i] \in Term /\ Told(book[i])
      BY BookTyped DEF TermsInv, BookSound, Typed
  <2>2. DOMAIN book[i].versions = 1..Len(book[i].versions)
      BY <2>1 DEF Term
  <2> QED
      BY <2>1, <2>2 DEF Told
<1> QED
    BY <1>1, TermsInvHolds, PTL

(* A token commits once, for the user who previewed it, and all of its rows. *)
THEOREM ImportExactHolds == Spec => ImportExact
<1>1. TermsInv /\ [Next]_allVars => [Committed]_termVars
    BY TermsInvNext
<1>2. [][Committed]_termVars <=> ImportExact
    BY DEF Committed, ImportExact
<1> QED
    BY <1>1, <1>2, TermsInvHolds, PTL DEF Spec

=============================================================================
