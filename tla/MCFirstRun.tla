---------------------------- MODULE MCFirstRun ----------------------------
(* Two tabs that may submit three payloads: a plain reader, one with an     *)
(* OpenAI key for this launch only, and one that keeps its key and token.   *)
EXTENDS FirstRun

CONSTANTS t1, t2

Plain == [wellFormed |-> TRUE, provider |-> "disabled", key |-> "none",
          storeKey |-> TRUE, arxiv |-> FALSE, auto |-> FALSE, checks |-> TRUE,
          budget |-> FALSE, ntfy |-> FALSE, token |-> FALSE,
          storeToken |-> TRUE]

LaunchOnly == [Plain EXCEPT !.provider = "openai", !.key = "environment",
                            !.storeKey = FALSE]

Kept == [Plain EXCEPT !.provider = "openai", !.key = "entered",
                      !.arxiv = TRUE, !.auto = TRUE, !.ntfy = TRUE,
                      !.token = TRUE]

Refused == [Plain EXCEPT !.arxiv = TRUE]

MCTabs == {t1, t2}
MCPayloads == {Plain, LaunchOnly, Kept, Refused}
=============================================================================
