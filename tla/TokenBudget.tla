----------------------------- MODULE TokenBudget -----------------------------
(***************************************************************************)
(* How AdapterService.prepare divides the context window: the prompt, the  *)
(* tokens the native server may produce, and how many of them it may spend *)
(* on reasoning.                                                           *)
(***************************************************************************)
EXTENDS Integers, FiniteSetsExt

CONSTANTS
  CONTEXT_WINDOW,
  MAX_OUTPUT_TOKENS,          \* MAX_REASONING_BUDGET_TOKENS is the same
  MIN_ANSWER_TOKENS,
  DEFAULT_REASONING_BUDGETS   \* for each reasoning_effort

Efforts == {"low", "high", "max"}

ASSUME BudgetAssumption ==
  /\ CONTEXT_WINDOW \in Nat
  /\ MAX_OUTPUT_TOKENS \in Nat \ {0}
  /\ MIN_ANSWER_TOKENS \in Nat
  /\ DEFAULT_REASONING_BUDGETS \in [Efforts -> Nat \ {0}]

\* thinking_token_budget when the request gives none, and
\* reasoning_budget_tokens when nothing bounds the reasoning.
NoBudget == -1

\* What prepare accepts of the numbers in a request.
Acceptable(thinking, asked, max_tokens) ==
  /\ max_tokens > 0
  /\ asked # NoBudget => thinking /\ asked > 0 /\ asked <= MAX_OUTPUT_TOKENS

\* reasoning_budget_tokens: what was asked for, or the effort's default, but
\* no more than leaves MIN_ANSWER_TOKENS of max_tokens for the answer.
ReasoningBudget(thinking, asked, effort, max_tokens) ==
  LET wanted == IF asked = NoBudget THEN DEFAULT_REASONING_BUDGETS[effort] ELSE asked
  IN IF thinking
       THEN Min({wanted, Max({1, max_tokens - MIN_ANSWER_TOKENS})})
       ELSE NoBudget

\* Mutant: a prompt that fills the window is let through.
Fits_exactly(prompt) == CONTEXT_WINDOW - prompt >= 0

\* A prompt must leave at least one token for the output.
Fits(prompt) == CONTEXT_WINDOW - prompt > 0

\* n_predict
Predict(max_tokens, prompt) ==
  Min({max_tokens, MAX_OUTPUT_TOKENS, CONTEXT_WINDOW - prompt})
=============================================================================
