----------------------------- MODULE SetupDraft -----------------------------
(***************************************************************************)
(* What the first-run page may ask for (setup_service.py): the check of a  *)
(* payload, the draft it becomes, what the Review page says of that draft  *)
(* and what a commit takes from it.  A payload is reduced to the choices   *)
(* that depend on each other; "wellFormed" stands for every check of one   *)
(* field alone (type, range, length, closed set of values).                *)
(***************************************************************************)
EXTENDS FiniteSets

Providers == {"disabled", "openai", "ollama"}
KeySources == {"none", "entered", "environment"}
Secrets == {"OPENAI_API_KEY", "NTFY_TOKEN"}

Payload == [wellFormed : BOOLEAN, provider : Providers, key : KeySources,
            storeKey : BOOLEAN, arxiv : BOOLEAN, auto : BOOLEAN,
            checks : BOOLEAN, budget : BOOLEAN, ntfy : BOOLEAN,
            token : BOOLEAN, storeToken : BOOLEAN]

\* _strict_bool, _integer, _number, _text and _choice.
WellFormed(p) == p.wellFormed

\* The fields the reader is told to correct; a payload becomes a draft only
\* when there are none.
Errors(p, portFree, environment) ==
    LET key == \/ p.key = "entered"
               \/ p.key = "environment" /\ "OPENAI_API_KEY" \in environment
    IN  {f \in {"form", "port", "openai_key", "arxiv_enabled",
                "auto_summarize", "ntfy_enabled"} :
           \/ f = "form" /\ ~WellFormed(p)
           \/ f = "port" /\ ~portFree
           \/ f = "openai_key" /\ p.provider = "openai" /\ ~key
           \/ f = "arxiv_enabled" /\ p.arxiv /\ p.provider # "openai"
           \/ f = "auto_summarize" /\ p.auto
                /\ (p.provider = "disabled" \/ ~p.checks)
           \/ f = "ntfy_enabled" /\ p.ntfy /\ ~p.auto}

\* The draft: what belongs to a service that is off is dropped, the secrets
\* first.
Normalised(p) ==
    [provider |-> p.provider, arxiv |-> p.arxiv, auto |-> p.auto,
     budget |-> p.budget, ntfy |-> p.ntfy,
     storeKey |-> p.storeKey, storeToken |-> p.storeToken,
     secrets |-> {s \in Secrets :
                    \/ /\ s = "OPENAI_API_KEY"
                       /\ p.provider = "openai"
                       /\ p.key # "none"
                    \/ s = "NTFY_TOKEN" /\ p.ntfy /\ p.token}]

\* _config_for_draft and _write_arxiv_config: the services the reader will
\* use, and what it may do unasked.
Configured(d) ==
    {f \in {"llm", "arxiv", "ntfy", "auto_summarize", "budget"} :
       \/ f = "llm" /\ d.provider # "disabled"
       \/ f = "arxiv" /\ d.arxiv
       \/ f = "ntfy" /\ d.ntfy
       \/ f = "auto_summarize" /\ d.auto
       \/ f = "budget" /\ d.budget}

\* The environment of this launch, and the part of it that is written to the
\* private store.
LaunchSecrets(d) ==
    {s \in d.secrets : \/ s = "OPENAI_API_KEY" /\ d.provider = "openai"
                       \/ s = "NTFY_TOKEN" /\ d.ntfy}

StoredSecrets(d) ==
    {s \in LaunchSecrets(d) : \/ s = "OPENAI_API_KEY" /\ d.storeKey
                              \/ s = "NTFY_TOKEN" /\ d.storeToken}

\* public_review: where the key will be, what runs without being asked, and
\* whether money has a limit.
Review(d) ==
    [ai |-> d.provider,
     key |-> CASE d.provider = "openai" /\ d.storeKey -> "stored"
               [] d.provider = "openai" /\ ~d.storeKey -> "this_launch_only"
               [] OTHER -> "not_required",
     arxiv |-> d.arxiv,
     alerts |-> d.ntfy,
     unasked |-> CASE d.auto /\ d.budget -> "guarded"
                   [] d.auto /\ ~d.budget -> "unguarded"
                   [] OTHER -> "never"]

\* The drafts a session can hold.
Drafts == {Normalised(p) : p \in {q \in Payload : Errors(q, TRUE, Secrets) = {}}}
=============================================================================
