--------------------------- MODULE MCImporterNew ----------------------------
(* Instances of ImporterNew: configurations that differ in one respect at  *)
(* a time from a usable one of each method, validated or not.              *)
EXTENDS ImporterNew

LLMConfig(model, srv, limit, rpm, template) ==
    [host |-> [model |-> model, server |-> srv, maxSteps |-> limit],
     rpm |-> rpm, template |-> template]

Default == [f \in Fields |-> "default"]
Custom == [f \in Fields |-> IF f = "skills" THEN "file" ELSE "default"]
Usable == LLMConfig("named", "command", 2, 1, Custom)

LLMs == {Usable,
         LLMConfig("named", "command", 0, 1, Default),
         LLMConfig("blank", "command", 2, 1, Default),
         LLMConfig("empty", "command", 2, 1, Default),
         LLMConfig("named", "missing", 2, 1, Default),
         LLMConfig("named", "idle", 2, 1, Default),
         LLMConfig("named", "command", 2, 0, Default)}

Config(v, type, source, methods, static, extractor, llm) ==
    [validates |-> v, type |-> type, source |-> source, methods |-> methods,
     static |-> static, extractor |-> extractor, llm |-> llm]

MCConfigs ==
    UNION {
      {Config(v, "file", "usable", {"llm"}, TRUE, TRUE, l) : l \in LLMs}
      \cup {Config(v, "file", "usable", m, TRUE, TRUE, Usable) : m \in SUBSET Methods}
      \cup {Config(v, "file", "usable", {"static"}, FALSE, TRUE, Usable),
            Config(v, "file", "usable", {"extractor"}, TRUE, FALSE, Usable)}
      \cup {Config(v, t, s, {"static"}, TRUE, TRUE, Usable) :
              t \in {"", "registry", "file"}, s \in {"empty", "blank", "usable"}}
      \cup {Config(v, "registry", "bad", {"static"}, TRUE, TRUE, Usable)}
      : v \in BOOLEAN}

MCFiles == [Fields -> FileStates]
=============================================================================
