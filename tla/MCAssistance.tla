---------------------------- MODULE MCAssistance ----------------------------
EXTENDS Assistance

MCUsers == {"boss", "ana"}
MCRoleOf == [boss |-> "owner", ana |-> "reviewer"]
MCPlatformOf == [boss |-> "admin", ana |-> "none"]
MCPreference == [boss |-> "auto", ana |-> "auto"]
MCPresets == <<[zh |-> "ming", en |-> "noun"]>>
MCOriginal == [ja |-> {"a", "b"}, ko |-> {"a"}]

Row(lang, text, pos, archived) ==
  [lang |-> lang, text |-> text, mode |-> "exact", pos |-> pos, translation |-> "x",
   archived |-> archived, deleted |-> FALSE, version |-> 1]
(* A row of a document names its part of speech. *)
Line(lang, text, name, translation) ==
  [lang |-> lang, text |-> text, mode |-> "exact", pos |-> name, translation |-> translation,
   archived |-> FALSE]

Glossary ==
  LET document == <<Line("ja", "a", "noun", "y"), Line("ja", "a", "verb", "z")>> IN
  {[op |-> "create", by |-> "ana", row |-> Row("ja", "a", 1, FALSE)],
   [op |-> "delete", by |-> "ana", id |-> 1],
   [op |-> "restore", by |-> "ana", id |-> 1, version |-> 1],
   [op |-> "primary", by |-> "boss", lang |-> "ko"],
   [op |-> "primary", by |-> "boss", lang |-> "ja"],
   [op |-> "schedule", by |-> "boss"],
   [op |-> "newpos", by |-> "boss", preset |-> [zh |-> "dong", en |-> "verb"]],
   [op |-> "setpos", by |-> "boss", id |-> 1, preset |-> [zh |-> "ming", en |-> NoName]],
   [op |-> "delpos", by |-> "boss", id |-> 1],
   [op |-> "preview", by |-> "ana", kind |-> "term", rows |-> document],
   [op |-> "confirm", by |-> "ana", kind |-> "term", rows |-> document]}

Speech ==
  LET document == <<[zh |-> "ming", en |-> "verb"], [zh |-> "dong", en |-> "noun"]>> IN
  {[op |-> "create", by |-> "ana", row |-> Row("ja", "a", 1, FALSE)],
   [op |-> "update", by |-> "ana", id |-> 1, row |-> Row("ko", "b", 2, TRUE)],
   [op |-> "newpos", by |-> "boss", preset |-> [zh |-> "dong", en |-> NoName]],
   [op |-> "setpos", by |-> "boss", id |-> 1, preset |-> [zh |-> NoName, en |-> "noun"]],
   [op |-> "delpos", by |-> "boss", id |-> 2],
   [op |-> "preview", by |-> "boss", kind |-> "pos", rows |-> document],
   [op |-> "confirm", by |-> "boss", kind |-> "pos", rows |-> document]}

Set(op, by, transport, mode, provider, newKey, newSecret) ==
  [op |-> op, by |-> by, enabled |-> TRUE, preset |-> IF mode = "auto" THEN "openai" ELSE "custom",
   base |-> "host", transport |-> transport, mode |-> mode, provider |-> provider,
   newKey |-> newKey, newSecret |-> newSecret]

Answers ==
  {Set("setmine", "ana", "auto", "adapter", "tavily", TRUE, TRUE),
   Set("setmine", "boss", "auto", "adapter", "tavily", TRUE, TRUE),
   [op |-> "explain", by |-> "ana", live |-> TRUE, source |-> "personal"],
   [op |-> "explain", by |-> "boss", live |-> FALSE, source |-> "none"]}

Sources ==
  {Set("setproject", "boss", "streaming", "disabled", "tavily", TRUE, FALSE),
   Set("setmine", "ana", "non_streaming", "native", "tavily", TRUE, FALSE),
   [op |-> "dropmine", by |-> "ana"],
   [op |-> "dropproject", by |-> "boss"],
   [op |-> "explain", by |-> "ana", live |-> TRUE, source |-> "none"],
   [op |-> "explain", by |-> "ana", live |-> FALSE, source |-> "project"]}

Contexts ==
  {Set("setproject", "boss", "streaming", "disabled", "tavily", TRUE, FALSE),
   [op |-> "create", by |-> "ana", row |-> Row("ja", "b", NoPos, FALSE)],
   [op |-> "primary", by |-> "boss", lang |-> "ko"],
   [op |-> "edit", by |-> "boss"],
   [op |-> "explain", by |-> "ana", live |-> TRUE, source |-> "none"]}

Secrets ==
  {Set("setmine", "ana", "auto", mode, provider, newKey, newSecret) :
     mode \in {"disabled", "adapter", "auto"}, provider \in {"tavily", "brave", "searxng"},
     newKey \in BOOLEAN, newSecret \in BOOLEAN}
  \union {[op |-> "dropmine", by |-> "ana"]}

MCTermIntents == {Glossary, Speech, Answers, Sources, Contexts, Secrets}
=============================================================================
