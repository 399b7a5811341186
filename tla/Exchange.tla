------------------------------- MODULE Exchange -------------------------------
(***************************************************************************)
(* Currency exchange (internal/fx): quotes with an integral rate and a     *)
(* rounding rule, each of which one exchange may consume before it         *)
(* expires.  A quote has the name its request is created under.            *)
(***************************************************************************)
EXTENDS Calls

CONSTANTS
  QuoteRequests,       \* QuoteRequests[n]: amount, rate and rule of quote n
  ExchangeRequests     \* key, quote and the four accounts

VARIABLES
  quotes,      \* fx_quotes, by name: the converted amount, or 0
  expired,     \* quotes whose time is over
  consumed,    \* fx_quote_consumptions
  exchanged    \* idempotency records of the scope, by key

exchangeVars == <<quotes, expired, consumed, exchanged>>

ExchangeKeys == {q.key : q \in ExchangeRequests}

InitExchange ==
  /\ quotes = [n \in DOMAIN QuoteRequests |-> 0]
  /\ expired = {}
  /\ consumed = [n \in DOMAIN QuoteRequests |-> NoRecord]
  /\ exchanged = [k \in ExchangeKeys |-> NoRecord]

\* Fault: a tie always rounds up.
RoundsUpTies(rule, quotient, remainder, denominator) ==
  \/ rule = "CEILING" /\ remainder # 0
  \/ rule = "HALF_EVEN" /\ 2 * remainder >= denominator

RoundsUp(rule, quotient, remainder, denominator) ==
  \/ rule = "CEILING" /\ remainder # 0
  \/ /\ rule = "HALF_EVEN"
     /\ \/ 2 * remainder > denominator
        \/ 2 * remainder = denominator /\ quotient % 2 = 1

Convert(base, numerator, denominator, rule) ==
  LET quotient  == (base * numerator) \div denominator
      remainder == (base * numerator) % denominator
  IN  IF RoundsUp(rule, quotient, remainder, denominator) THEN quotient + 1 ELSE quotient

\* Every call inserts a quote of its own; one whose amount rounds to nothing is refused.
CreateQuote(s, n) ==
  LET q == QuoteRequests[n]
      amount == Convert(q.base, q.numerator, q.denominator, q.rule)
  IN  /\ quotes[n] = 0
      /\ amount > 0
      /\ Call(s, 1)
      /\ quotes' = [quotes EXCEPT ![n] = amount]
      /\ UNCHANGED <<ledger, outbox, answers, expired, consumed, exchanged>>

Expire(n) ==
  /\ quotes[n] > 0
  /\ n \notin expired
  /\ expired' = expired \cup {n}
  /\ UNCHANGED <<callVars, quotes, consumed, exchanged>>

\* The customer pays the base amount in and receives the quoted amount.
ExchangePost(q, ids) ==
  LET base == QuoteRequests[q.quote].base
      amount == quotes[q.quote]
  IN  [tx |-> ids[4], effect |-> ids[3], book |-> BookOf[q.debit], hash |-> q,
       lines |-> <<Line(q.debit, "DEBIT", base), Line(q.basePosition, "CREDIT", base),
                   Line(q.quotePosition, "DEBIT", amount), Line(q.credit, "CREDIT", amount)>>]

\* Found, not consumed by another effect, and not expired.
QuoteUsable(q) ==
  /\ quotes[q.quote] > 0
  /\ consumed[q.quote] = NoRecord
  /\ q.quote \notin expired

\* Claim, quote, posting, consumption, event and completed record in one commit.
ExchangeQuote(s, q) ==
  LET ids     == Ids(s, 5)
      post    == ExchangePost(q, ids)
      allowed == QuoteUsable(q) /\ CanPost(ledger, post)
  IN  \/ Replay(s, 5, "exchange", exchanged[q.key], q, exchanged[q.key].tx) /\ UNCHANGED exchangeVars
      \/ Conflict(s, 5, exchanged[q.key], q) /\ UNCHANGED exchangeVars
      \/ Refuse(s, 5, exchanged[q.key], allowed) /\ UNCHANGED exchangeVars
      \/ /\ Call(s, 5)
         /\ exchanged[q.key] = NoRecord
         /\ allowed
         /\ ledger' = PostTo(ledger, post)
         /\ consumed' = [consumed EXCEPT ![q.quote] = [request |-> q, tx |-> post.tx]]
         /\ outbox' = outbox \cup {[id |-> ids[5], topic |-> "payment-events", aggregate |-> q.quote,
                                    version |-> 0, parent |-> post.tx]}
         /\ exchanged' = [exchanged EXCEPT ![q.key] = [request |-> q, tx |-> post.tx]]
         /\ Answer("exchange", q, post.tx)
         /\ UNCHANGED <<quotes, expired>>

ExchangeNext ==
  \/ \E s \in Servers :
       \/ \E n \in DOMAIN QuoteRequests : CreateQuote(s, n)
       \/ \E q \in ExchangeRequests : ExchangeQuote(s, q)
  \/ \E n \in DOMAIN QuoteRequests : Expire(n)

-----------------------------------------------------------------------------
(* Properties.                                                             *)

\* The amount is the nearest the rule allows to base times rate.
Nearest(amount, q) ==
  LET error == amount * q.denominator - q.base * q.numerator
  IN  /\ q.rule = "FLOOR" => -q.denominator < error /\ error <= 0
      /\ q.rule = "CEILING" => 0 <= error /\ error < q.denominator
      /\ q.rule = "HALF_EVEN" =>
           /\ -q.denominator <= 2 * error /\ 2 * error <= q.denominator
           /\ 2 * error \in {q.denominator, -q.denominator} => amount % 2 = 0

\* A quote is exchanged at most once, whatever keys and servers ask for it, and
\* for the amount its rule gives: every exchange that is posted is the one its
\* quote was consumed by and that its callers were told of.
ExchangedAsQuoted ==
  LET rows == {r \in ledger.journal : r.hash \in ExchangeRequests}
  IN  /\ \A r \in rows :
           /\ \A t \in rows \ {r} : t.hash.quote # r.hash.quote
           /\ consumed[r.hash.quote] = [request |-> r.hash, tx |-> r.tx]
           /\ r.lines[2].amount = QuoteRequests[r.hash.quote].base
           /\ Nearest(r.lines[4].amount, QuoteRequests[r.hash.quote])
      /\ \A x \in answers : x.op = "exchange" => \E r \in rows : r.tx = x.result /\ r.hash = x.request
=============================================================================
