---------------------------- MODULE LetterRender ----------------------------
(***************************************************************************)
(* render, the placeholder engine of offer letters.  A template is a       *)
(* sequence of symbols: the braces, the bar, a blank, and words.  The      *)
(* variables are a function from the names that are present to a text or   *)
(* to Null.                                                                *)
(***************************************************************************)
EXTENDS Integers, SequencesExt

CONSTANTS
  Symbol,   \* what templates and letters are written with
  Null      \* the null of a variable that is present without a value

ASSUME SymbolAssumption == {"{{", "}}", "|", " "} \subseteq Symbol
ASSUME NullAssumption   == Null \notin Seq(Symbol)

Find(text, symbol) == SelectInSeq(text, LAMBDA s : s = symbol)
Before(text, i) == SubSeq(text, 1, i - 1)
After(text, i) == SubSeq(text, i + 1, Len(text))

TrimStart(text) ==
  LET first == SelectInSeq(text, LAMBDA s : s # " ")
  IN IF first = 0 THEN <<>> ELSE SubSeq(text, first, Len(text))
TrimEnd(text) == SubSeq(text, 1, SelectLastInSeq(text, LAMBDA s : s # " "))
Trim(text) == TrimStart(TrimEnd(text))

(* A token is its name and, behind the first bar, its fallback wording.    *)
NameIn(token) ==
  LET bar == Find(token, "|") IN IF bar = 0 THEN token ELSE Trim(Before(token, bar))
HasFallback(token) == Find(token, "|") # 0
FallbackIn_Greedy(token) ==
  TrimStart(After(token, SelectLastInSeq(token, LAMBDA s : s = "|")))

FallbackIn(token) == TrimStart(After(token, Find(token, "|")))

(* The name between the braces is one of the variables.                    *)
Known(vars, name) == Len(name) = 1 /\ name[1] \in DOMAIN vars

(* The arms of the match, in order.                                        *)
Replace(vars, token) ==
  LET name == NameIn(token) IN
  IF Known(vars, name) /\ vars[name[1]] # Null THEN vars[name[1]]
  ELSE IF HasFallback(token) THEN FallbackIn(token)
  ELSE IF Known(vars, name) THEN <<>>
  ELSE <<"{{">> \o token \o <<"}}">>

(* An unterminated token: the literal text from its braces on.             *)
Unterminated_Dropped(rest, open) == Before(rest, open)

Unterminated(rest, open) == rest

Render(vars, text) ==
  LET render[rest \in Seq(Symbol)] ==
        LET open  == Find(rest, "{{")
            inner == After(rest, open)
            close == Find(inner, "}}")
        IN IF open = 0 THEN rest
           ELSE IF close = 0 THEN Unterminated(rest, open)
           ELSE Before(rest, open) \o Replace(vars, Trim(Before(inner, close)))
                  \o render[After(inner, close)]
  IN render[text]
=============================================================================
