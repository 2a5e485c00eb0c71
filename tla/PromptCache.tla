---------------------------- MODULE PromptCache ----------------------------
(***************************************************************************)
(* Where an Anthropic request is marked for the provider's prompt cache:   *)
(* the planner of internal/protocol/cache/planner.go and its use in        *)
(* internal/protocol/anthropic/cache.go.  A request is a list of tools, a  *)
(* list of system blocks and the messages; the provider can reuse the      *)
(* prefix that ends at a marked block.                                     *)
(*                                                                         *)
(* A configuration cfg has the fields of PlannerConfig; sizes are numbers  *)
(* of estimated tokens.  The registry's entry of a prefix only words the   *)
(* plan's reason and is left out, as are the hashes: they are never empty. *)
(***************************************************************************)
EXTENDS Selection, SequencesExt, FiniteSets

Blank == <<>>               \* a text of spaces, or none
LastBlock == 0              \* ContentIndex -1: the last block

\* lastCacheableContentIndex: the last block that is not a blank text, 0 if there is none.
LastCacheable(content) == LastPlace({k \in DOMAIN content : content[k].type # "text" \/ content[k].text # Blank})

\* CacheMessageBreakpointCandidates
Candidates(messages) ==
  LET all == [m \in DOMAIN messages |->
                [message |-> m, content |-> LastCacheable(messages[m].content), role |-> messages[m].role]]
  IN  Selected(all, {m \in DOMAIN all : all[m].content > 0})

-----------------------------------------------------------------------------
(* Choosing among the candidates *)

\* Mutant of SpacedIndex: the first position of each slot.
SlotStart(s, n, limit) == ((s - 1) * n) \div limit + 1

\* The position of slot s of limit, spread over n; the last slot is the last position.
SpacedIndex(s, n, limit) == (s * n + limit - 1) \div limit

\* One more place, if it is new and there is room for it.
Take(taken, k, limit) == IF Len(taken) >= limit \/ Contains(taken, k) THEN taken ELSE Append(taken, k)

\* The places of the slots, and then the first that are left.
SpacedPlaces(n, limit) ==
  LET taken[p \in 0 .. limit + n] ==
        IF p = 0 THEN <<>>
        ELSE Take(taken[p - 1], IF p <= limit THEN SpacedIndex(p, n, limit) ELSE p - limit, limit)
  IN  taken[limit + n]

\* evenlySpacedMessageBreakpoints
EvenlySpaced(candidates, limit) ==
  LET n == Len(candidates)
  IN  IF limit = 0 \/ n = 0 THEN <<>>
      ELSE IF limit >= n THEN candidates
      ELSE LET places == SpacedPlaces(n, limit) IN [k \in DOMAIN places |-> candidates[places[k]]]

\* selectedMessageBreakpoints: user messages first, the others with what is left.  A
\* request without candidates is marked at its last message.
SelectedBreakpoints(messages, limit) ==
  LET found == Candidates(messages)
      candidates == IF found = <<>> /\ messages # <<>>
                    THEN <<[message |-> Len(messages), content |-> LastBlock, role |-> "none"]>>
                    ELSE found
      first == EvenlySpaced(Selected(candidates, {c \in DOMAIN candidates : candidates[c].role = "user"}), limit)
      rest == Selected(candidates, {c \in DOMAIN candidates : ~Contains(first, candidates[c])})
  IN  first \o EvenlySpaced(rest, limit - Len(first))

-----------------------------------------------------------------------------
(* The plan *)

MinTokens(cfg) == IF cfg.minBreakpointTokens <= 0 THEN 1024 ELSE cfg.minBreakpointTokens
MaxBreakpoints(cfg) == IF cfg.maxBreakpoints <= 0 THEN 4 ELSE cfg.maxBreakpoints

\* A prefix that is known to be short is not worth a mark.
TooShort(tokens, cfg) == tokens > 0 /\ tokens < MinTokens(cfg)

Breakpoints(req, cfg) ==
  LET limit == MaxBreakpoints(cfg)
      tools == IF req.tools > 0 /\ ~TooShort(req.toolTokens, cfg)
               THEN <<[scope |-> "tools", index |-> req.tools, content |-> LastBlock]>> ELSE <<>>
      system == IF /\ req.system > 0 /\ ~TooShort(req.toolTokens + req.systemTokens, cfg)
                   /\ Len(tools) < limit
                THEN <<[scope |-> "system", index |-> req.system, content |-> LastBlock]>> ELSE <<>>
      chosen == SelectedBreakpoints(req.messages, limit - Len(tools \o system))
  IN  tools \o system
        \o [k \in DOMAIN chosen |-> [scope |-> "messages", index |-> chosen[k].message, content |-> chosen[k].content]]

UseAutomatic(cfg) == cfg.automatic /\ cfg.mode \in {"automatic", "hybrid"}
UseExplicit(cfg) == cfg.explicit /\ cfg.mode \in {"automatic", "explicit", "hybrid"}

EffectiveMode(cfg) ==
  CASE UseAutomatic(cfg) /\ UseExplicit(cfg) -> "hybrid"
    [] UseAutomatic(cfg) /\ ~UseExplicit(cfg) -> "automatic"
    [] ~UseAutomatic(cfg) /\ UseExplicit(cfg) -> "explicit"
    [] OTHER -> "off"

NoPlan == [mode |-> "off", breakpoints |-> <<>>]

\* Planner.Plan; tokens is the estimate of the whole request.
Plan(req, cfg) ==
  LET off == \/ ~cfg.promptCaching \/ cfg.mode = "off"
             \/ cfg.minCacheTokens > 0 /\ req.tokens > 0 /\ req.tokens < cfg.minCacheTokens
             \/ cfg.minimumValueScore > 0 /\ req.tokens * cfg.expectedReuse < cfg.minimumValueScore
             \/ EffectiveMode(cfg) = "off"
      points == IF UseExplicit(cfg) THEN Breakpoints(req, cfg) ELSE <<>>
  IN  IF off THEN NoPlan
      ELSE IF UseExplicit(cfg) /\ points = <<>>
           THEN IF UseAutomatic(cfg) THEN [mode |-> "automatic", breakpoints |-> <<>>] ELSE NoPlan
           ELSE [mode |-> EffectiveMode(cfg), breakpoints |-> points]

\* InjectCacheControl: what is marked, the request itself, tools, system blocks and blocks
\* of messages.  A breakpoint without a block goes to the last one.
Marks(req, plan) ==
  LET at(scope) == {k \in DOMAIN plan.breakpoints : plan.breakpoints[k].scope = scope}
      content(bp) == LET n == Len(req.messages[bp.index].content)
                     IN  IF bp.content \in 1 .. n THEN bp.content ELSE n
  IN  [whole |-> plan.mode \in {"automatic", "hybrid"},
       tools |-> {plan.breakpoints[k].index : k \in at("tools")},
       system |-> {plan.breakpoints[k].index : k \in at("system")},
       messages |-> {<<plan.breakpoints[k].index, content(plan.breakpoints[k])>> : k \in at("messages")}
                      \ {<<m, 0>> : m \in DOMAIN req.messages}]

NoMarks == [whole |-> FALSE, tools |-> {}, system |-> {}, messages |-> {}]
=============================================================================
