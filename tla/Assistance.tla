----------------------------- MODULE Assistance -----------------------------
(***************************************************************************)
(* Explanations of an entry by a language model.  A personal and a project *)
(* provider may be set; a request resolves one of them, gathers the entry  *)
(* and its glossary terms, and then looks into a cache, searches the web,  *)
(* asks the provider and answers, as a stream of events or at once.  The   *)
(* settings, the entry and the glossary change while it runs.              *)
(***************************************************************************)
EXTENDS Terms

CONSTANTS Original,    \* the words of the entry in each language
          Preference,  \* whose provider each user prefers
          Capacity,    \* events the channel of a stream holds
          MaxEntry     \* bound of the model: versions of the entry

VARIABLES entry,       \* the version of the entry
          settings,    \* of each user, and of the project
          stream,      \* the request of each user
          explained,   \* cached explanations
          searched,    \* cached searches
          probes       \* what was learnt about the transport of a provider

aiVars == <<entry, settings, stream, explained, searched, probes>>
allVars == <<termVars, aiVars>>

Scopes == Users \union {"project"}
NoSetting == [enabled |-> FALSE, preset |-> "none", base |-> "none", transport |-> "none",
              mode |-> "none", provider |-> "none", secret |-> "none"]
Nothing == [scope |-> "nobody"]

-----------------------------------------------------------------------------
(* Settings.  A key for the adapter is named by the provider it was given  *)
(* for, the key of the model by nothing: it is always kept.                *)

CapabilityFor(preset) == preset \in {"openai", "gemini"}

SearchAdapterRequiresKey(r) ==
  /\ r.provider # "searxng"
  /\ r.mode = "adapter" \/ (r.mode = "auto" /\ ~CapabilityFor(r.preset))

(* Slip: whatever key is stored is kept. *)
SearchKeyKept(current, r) == IF r.newSecret THEN r.provider ELSE current.secret

SearchKey(current, r) ==
  IF r.newSecret THEN r.provider
  ELSE IF current.provider = r.provider THEN current.secret ELSE "none"

ModelKeyStays(current, r) == current # NoSetting \/ r.newKey

SettingRow(r, secret) ==
  [enabled |-> r.enabled, preset |-> r.preset, base |-> r.base, transport |-> r.transport,
   mode |-> r.mode, provider |-> r.provider, secret |-> secret]

Put(scope, r) ==
  LET current == settings[scope]
      secret == SearchKey(current, r) IN
  /\ ModelKeyStays(current, r)
  /\ SearchAdapterRequiresKey(r) => secret # "none"
  /\ settings' = [settings EXCEPT ![scope] = SettingRow(r, secret)]
  /\ UNCHANGED <<termVars, entry, stream, explained, searched, probes>>

RequireProjectOwner(u) == RoleOf[u] = "owner" /\ ~project.scheduled

PutPersonal(r) == r.op = "setmine" /\ Put(r.by, r)
PutProject(r) == r.op = "setproject" /\ RequireProjectOwner(r.by) /\ Put("project", r)

Dropped(scope) ==
  /\ settings' = [settings EXCEPT ![scope] = NoSetting]
  /\ UNCHANGED <<termVars, entry, stream, explained, searched, probes>>

DeletePersonal(r) == r.op = "dropmine" /\ settings[r.by] # NoSetting /\ Dropped(r.by)
DeleteProjectSetting(r) ==
  /\ r.op = "dropproject" /\ RequireProjectOwner(r.by)
  /\ settings["project"] # NoSetting /\ Dropped("project")

(* The editor of the entry is a module of its own. *)
EditEntry(r) ==
  /\ r.op = "edit" /\ entry < MaxEntry /\ entry' = entry + 1
  /\ UNCHANGED <<termVars, settings, stream, explained, searched, probes>>

-----------------------------------------------------------------------------
(* Preparing a request: reads one after the other, no transaction. *)

Idle == [phase |-> "idle"]

Step(u, next) == stream' = [stream EXCEPT ![u] = next]
Quiet == UNCHANGED <<termVars, entry, settings>>

Explain(r) ==
  /\ r.op = "explain" /\ stream[r.by] = Idle
  /\ ~project.scheduled /\ RoleOf[r.by] # NoRole
  /\ Step(r.by, [phase |-> "asked", live |-> r.live, preference |-> r.source,
                 lang |-> project.primary, version |-> entry])
  /\ Quiet /\ UNCHANGED <<explained, searched, probes>>

Preferred(u, preference) == IF preference = "none" THEN Preference[u] ELSE preference

(* Where an enabled provider is found, if anywhere; an explicit choice     *)
(* falls back on nothing.                                                  *)
ResolveAi(u, preference) ==
  LET usable == {s \in Scopes : settings[s].enabled}
      mine == {u} \intersect usable
      ours == {"project"} \intersect usable IN
  CASE preference = "personal" -> mine
    [] preference = "project" -> ours
    [] preference = "auto" -> IF mine # {} THEN mine ELSE ours
    [] OTHER -> {}

Resolve(u) ==
  LET s == stream[u]
      found == ResolveAi(u, Preferred(u, s.preference)) IN
  /\ s.phase = "asked"
  /\ IF found = {} THEN Step(u, Idle)
     ELSE \E scope \in found :
       Step(u, [phase |-> "resolved", live |-> s.live, preference |-> s.preference, lang |-> s.lang,
                version |-> s.version, scope |-> scope, setting |-> settings[scope]])
  /\ Quiet /\ UNCHANGED <<explained, searched, probes>>

(* Terms and versions as they are by now, under the language read before. *)
LoadEntryContext(u) ==
  LET s == stream[u]
      terms == {[id |-> i, lang |-> book[i].now.lang, version |-> book[i].now.version] :
                  i \in MatchCandidates(s.lang, Original[s.lang])} IN
  /\ s.phase = "resolved"
  /\ Step(u, [phase |-> IF s.live THEN "connecting" ELSE "lookup", live |-> s.live,
              preference |-> s.preference, scope |-> s.scope, setting |-> s.setting,
              prompt |-> [lang |-> s.lang, version |-> s.version, recent |-> entry, terms |-> terms],
              open |-> TRUE, pending |-> 0, search |-> Nothing, answer |-> Nothing])
  /\ Quiet /\ UNCHANGED <<explained, searched, probes>>

-----------------------------------------------------------------------------
(* Events.  The channel is bounded; a client reads, or is gone. *)

Running == {u \in Users : stream[u].phase \notin {"idle", "asked", "resolved"}}

(* The event is in the channel, and the stream goes on with next. *)
Emit(u, next) ==
  LET s == stream[u] IN
  /\ s.open /\ s.pending < Capacity
  /\ Step(u, [next EXCEPT !.pending = s.pending + 1])

Drain(u) ==
  /\ u \in Running /\ stream[u].pending > 0 /\ stream[u].open
  /\ Step(u, [stream[u] EXCEPT !.pending = @ - 1])
  /\ Quiet /\ UNCHANGED <<explained, searched, probes>>

(* A request that is no stream is dropped where it stands. *)
Close(u) ==
  /\ u \in Running /\ stream[u].open
  /\ Step(u, IF stream[u].live THEN [stream[u] EXCEPT !.open = FALSE, !.pending = 0] ELSE Idle)
  /\ Quiet /\ UNCHANGED <<explained, searched, probes>>

(* Every wait but a direct call watches the client. *)
Abandon(u) ==
  /\ u \in Running /\ ~stream[u].open
  /\ stream[u].phase \notin {"direct", "answered", "lookup"}
  /\ Step(u, Idle)
  /\ Quiet /\ UNCHANGED <<explained, searched, probes>>

SendConnecting(u) ==
  /\ stream[u].phase = "connecting" /\ Emit(u, [stream[u] EXCEPT !.phase = "lookup"])
  /\ Quiet /\ UNCHANGED <<explained, searched, probes>>

(* Slip: one cache for everybody. *)
CacheKeyUnscoped(s) == <<s.setting, s.prompt>>

CacheKey(s) == <<s.setting, s.prompt, s.scope>>

ReadCache(u) ==
  LET s == stream[u]
      hits == {c \in explained : c.key = CacheKey(s)}
      silent == ~s.live \/ s.setting.mode = "disabled" IN
  /\ s.phase = "lookup"
  /\ IF hits # {} THEN \E c \in hits : Step(u, [s EXCEPT !.phase = "answering", !.answer = c.answer])
     ELSE Step(u, [s EXCEPT !.phase = IF silent THEN "searching" ELSE "announcing"])
  /\ Quiet /\ UNCHANGED <<explained, searched, probes>>

SendSearching(u) ==
  /\ stream[u].phase = "announcing" /\ Emit(u, [stream[u] EXCEPT !.phase = "searching"])
  /\ Quiet /\ UNCHANGED <<explained, searched, probes>>

-----------------------------------------------------------------------------
(* The search for context, which never fails a request. *)

AdapterOutcomes(setting) ==
  CASE setting.provider # "tavily" -> {"unsupported"}
    [] setting.provider = "tavily" /\ setting.secret = "none" -> {"failed"}
    [] OTHER -> {"succeeded", "empty", "failed"}

NativeOutcomes(setting) ==
  IF CapabilityFor(setting.preset) THEN {"succeeded", "empty", "failed"} ELSE {"unsupported"}

SearchOutcomes(setting) ==
  CASE setting.mode = "disabled" -> {"disabled"}
    [] setting.mode = "native" -> NativeOutcomes(setting)
    [] setting.mode = "adapter" -> AdapterOutcomes(setting)
    [] OTHER -> (NativeOutcomes(setting) \intersect {"succeeded"}) \union AdapterOutcomes(setting)

(* Not in the key: where the provider is, which a native search asks. *)
SearchKeyOf(s) ==
  LET set == s.setting IN
  <<s.scope, set.mode, set.provider, set.preset, set.secret, s.prompt.lang>>

ExecuteWebSearch(u) ==
  LET s == stream[u]
      hits == {c \in searched : c.key = SearchKeyOf(s)}
      Found(outcome) ==
        Step(u, [s EXCEPT !.search = outcome, !.phase = IF s.live THEN "found" ELSE "direct"]) IN
  /\ s.phase = "searching"
  /\ \/ /\ \E c \in hits : Found(c.outcome)
        /\ UNCHANGED searched
     \/ /\ hits = {}
        /\ \E status \in SearchOutcomes(s.setting) :
             LET outcome == [scope |-> s.scope, status |-> status] IN
             /\ Found(outcome)
             /\ searched' = IF status \in {"disabled", "failed"} THEN searched
                            ELSE searched \union {[key |-> SearchKeyOf(s), outcome |-> outcome]}
  /\ Quiet /\ UNCHANGED <<explained, probes>>

SendThinking(u) ==
  /\ stream[u].phase = "found" /\ Emit(u, [stream[u] EXCEPT !.phase = "calling"])
  /\ Quiet /\ UNCHANGED <<explained, searched, probes>>

-----------------------------------------------------------------------------
(* The provider. *)

ProbeKey(s) == <<s.setting.preset, s.setting.base>>

WriteProbe(s, transport) ==
  probes' = IF s.setting.transport # "auto" THEN probes
            ELSE {p \in probes : p.key # ProbeKey(s)} \union
                 {[key |-> ProbeKey(s), transport |-> transport]}

(* Streamed or not: as set, or as the probe says. *)
ChooseTransport(u) ==
  LET s == stream[u]
      known == [key |-> ProbeKey(s), transport |-> "non_streaming"] \in probes
      direct == s.setting.transport = "non_streaming" \/ (s.setting.transport = "auto" /\ known) IN
  /\ s.phase = "calling"
  /\ Step(u, [s EXCEPT !.phase = IF direct THEN "direct" ELSE "streaming"])
  /\ Quiet /\ UNCHANGED <<explained, searched, probes>>

Answered(s) ==
  [s EXCEPT !.phase = "answered",
            !.answer = [scope |-> s.scope, base |-> s.setting.base,
                        prompt |-> s.prompt, search |-> s.search]]

Failed(s) == IF s.live THEN [s EXCEPT !.phase = "failing"] ELSE Idle

CallAi(u) ==
  LET s == stream[u] IN
  /\ s.phase = "direct" /\ (Step(u, Answered(s)) \/ Step(u, Failed(s)))
  /\ Quiet /\ UNCHANGED <<explained, searched, probes>>

(* The provider takes the request for a stream, answers in one piece, or   *)
(* fails.                                                                  *)
StreamResponse(u) ==
  LET s == stream[u] IN
  /\ s.phase = "streaming" /\ s.open
  /\ \/ Step(u, [s EXCEPT !.phase = "reading"]) /\ UNCHANGED probes
     \/ Step(u, Answered(s)) /\ WriteProbe(s, "streaming")
     \/ Step(u, Failed(s)) /\ UNCHANGED probes
  /\ Quiet /\ UNCHANGED <<explained, searched>>

(* It explicitly rejects streaming: asked again without, if that was open. *)
RejectStreaming(u) ==
  LET s == stream[u] IN
  /\ s.phase = "streaming" /\ s.open
  /\ Step(u, IF s.setting.transport = "auto" THEN [s EXCEPT !.phase = "direct"] ELSE Failed(s))
  /\ WriteProbe(s, "non_streaming")
  /\ Quiet /\ UNCHANGED <<explained, searched>>

ReadChunk(u) ==
  LET s == stream[u] IN
  /\ s.phase = "reading" /\ (Emit(u, s) \/ (s.open /\ Step(u, Failed(s))))
  /\ Quiet /\ UNCHANGED <<explained, searched, probes>>

(* The stream ended: what was read is an explanation, or is not. *)
SendFormatting(u) ==
  LET s == stream[u] IN
  /\ s.phase = "reading"
  /\ \/ Emit(u, Answered(s)) /\ WriteProbe(s, "streaming")
     \/ Emit(u, Failed(s)) /\ UNCHANGED probes
  /\ Quiet /\ UNCHANGED <<explained, searched>>

(* Slip: the timeout covers the request and not the reading of its answer. *)
RequestTimeoutUnread(u) ==
  /\ u \in Running /\ stream[u].phase \in {"streaming", "direct"}
  /\ Step(u, Failed(stream[u]))
  /\ Quiet /\ UNCHANGED <<explained, searched, probes>>

RequestTimeout(u) ==
  /\ u \in Running /\ stream[u].phase \in {"streaming", "direct", "reading"}
  /\ Step(u, Failed(stream[u]))
  /\ Quiet /\ UNCHANGED <<explained, searched, probes>>

FinalizeExplanation(u) ==
  LET s == stream[u] IN
  /\ s.phase = "answered" /\ Step(u, [s EXCEPT !.phase = "answering"])
  /\ explained' = {c \in explained : c.key # CacheKey(s)} \union
                  {[key |-> CacheKey(s), answer |-> s.answer]}
  /\ Quiet /\ UNCHANGED <<searched, probes>>

(* The last event, the result or the error. *)
SendLast(u) ==
  LET s == stream[u] IN
  /\ s.phase \in {"answering", "failing"}
  /\ ~s.live \/ (s.open /\ s.pending < Capacity)
  /\ Step(u, Idle)
  /\ Quiet /\ UNCHANGED <<explained, searched, probes>>

(* What is cached in Redis expires. *)
ExpireCached ==
  /\ \/ /\ \E c \in explained : explained' = explained \ {c}
        /\ UNCHANGED <<searched, probes>>
     \/ /\ \E c \in searched : searched' = searched \ {c}
        /\ UNCHANGED <<explained, probes>>
     \/ /\ \E p \in probes : probes' = probes \ {p}
        /\ UNCHANGED <<explained, searched>>
  /\ Quiet /\ UNCHANGED stream

-----------------------------------------------------------------------------

Init ==
  /\ TermsInit
  /\ entry = 1 /\ settings = [s \in Scopes |-> NoSetting]
  /\ stream = [u \in Users |-> Idle]
  /\ explained = {} /\ searched = {} /\ probes = {}

(* The steps the server takes for a request of its own accord. *)
Progress(u) ==
  \/ Resolve(u) \/ LoadEntryContext(u) \/ SendConnecting(u) \/ ReadCache(u)
  \/ SendSearching(u) \/ ExecuteWebSearch(u) \/ SendThinking(u) \/ ChooseTransport(u)
  \/ RequestTimeout(u) \/ FinalizeExplanation(u) \/ SendLast(u) \/ Abandon(u)

Provider(u) ==
  CallAi(u) \/ StreamResponse(u) \/ RejectStreaming(u) \/ ReadChunk(u) \/ SendFormatting(u)

AssistanceNext ==
  \/ \E r \in intent :
       \/ PutPersonal(r) \/ PutProject(r) \/ DeletePersonal(r) \/ DeleteProjectSetting(r)
       \/ EditEntry(r) \/ Explain(r)
  \/ \E u \in Users : Progress(u) \/ Provider(u) \/ Drain(u) \/ Close(u)
  \/ ExpireCached

Next == (TermsNext /\ UNCHANGED aiVars) \/ AssistanceNext

(* The handlers run, searches and calls time out, a client that is there   *)
(* reads.  The provider may stay silent for ever.                          *)
Fairness == \A u \in Users : WF_allVars(Progress(u)) /\ WF_allVars(Drain(u))

Spec == Init /\ [][Next]_allVars /\ Fairness

-----------------------------------------------------------------------------
(* Properties. *)

(* A search key is only ever kept for the provider it was given for, and   *)
(* whoever needs a key has one, however the settings are rewritten         *)
(* (ai.rs put_personal_ai_settings, encrypted_optional_key_for_write).     *)
SecretsStay ==
  \A s \in Scopes :
    LET set == settings[s] IN
    /\ set.secret \in {"none", set.provider}
    /\ SearchAdapterRequiresKey(set) /\ set # NoSetting => set.secret # "none"

(* The explanation a user is given answers the prompt prepared for him by  *)
(* the provider he asked for, with a search of the same owner, whether it  *)
(* comes from a cache or not; and the terms of a prompt are in the         *)
(* language of its text (ai.rs cache_key, web_search_cache_key,            *)
(* load_entry_context).                                                    *)
AnswersFit ==
  \A u \in Users :
    LET s == stream[u] IN
    s.phase = "answering" =>
      /\ s.answer.prompt = s.prompt /\ s.answer.base = s.setting.base
      /\ s.answer.scope = s.scope /\ s.answer.search.scope = s.scope
      /\ s.scope \in {u, "project"}
      /\ Preferred(u, s.preference) = "personal" => s.scope = u
      /\ Preferred(u, s.preference) = "project" => s.scope = "project"
      /\ s.answer.search.status = "disabled" <=> s.setting.mode = "disabled"
      /\ \A t \in s.prompt.terms : t.lang = s.prompt.lang

(* Every request ends, though the provider stays silent, rejects streaming *)
(* or never finishes its stream, and the client reads slowly or leaves     *)
(* (ai.rs run_ai_stream, stream_ai_response).                              *)
StreamEnds == \A u \in Users : stream[u] # Idle ~> stream[u] = Idle

=============================================================================
