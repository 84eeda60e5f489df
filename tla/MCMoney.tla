------------------------------- MODULE MCMoney -------------------------------
EXTENDS Money

Report(id, by, kind, of, at, chan, card, sure) ==
  [id |-> id, by |-> by, kind |-> kind, of |-> of, at |-> at, channel |-> chan,
   card |-> card, text |-> <<of, chan>>, sure |-> sure, amt |-> 1, asks |-> NoText]

(* Two payments an hour apart from two cards: texts of the bank and of the *)
(* app, a push posted again, and the owner's words, one message later than *)
(* texts can merge                                                         *)
sms1   == Report(1, "bank", "transaction", 1, 0, "sms", "8600", TRUE)
app1   == Report(2, "bank", "transaction", 1, 0, "app", NoCard, TRUE)
again1 == Report(3, "bank", "transaction", 1, 0, "app", NoCard, TRUE)
typed1 == Report(4, "typed", "transaction", 1, 2, "none", NoCard, TRUE)
sms2   == Report(5, "bank", "transaction", 2, 1, "sms", "9860", TRUE)
app2   == Report(6, "bank", "transaction", 2, 1, "app", NoCard, FALSE)
typed2 == Report(7, "typed", "transaction", 2, 1, "none", NoCard, TRUE)
(* What the other side says of them, and of a debt the owner writes too *)
said1  == Report(8, "said", "transaction", 1, 0, "none", NoCard, TRUE)
said2  == Report(9, "said", "transaction", 2, 2, "none", NoCard, TRUE)
repaid == Report(10, "said", "settlement", 1, 0, "none", NoCard, TRUE)
owed   == Report(11, "said", "debt", 3, 0, "none", NoCard, TRUE)
owing  == Report(12, "said", "debt", 3, 1, "none", NoCard, TRUE)
owes   == Report(13, "typed", "debt", 3, 1, "none", NoCard, TRUE)
pays   == Report(14, "typed", "settlement", 1, 1, "none", NoCard, TRUE)
(* A text with the code of a client, and what is asked about it; the       *)
(* owner's words of the next day                                           *)
coded  == Report(15, "bank", "transaction", 4, 1, "sms", "9860", TRUE)
pushed == Report(16, "bank", "transaction", 4, 1, "app", NoCard, TRUE)
owed1  == [Report(17, "said", "settlement", 4, 1, "none", NoCard, TRUE) EXCEPT !.asks = coded]
later  == Report(18, "typed", "transaction", 4, 3, "none", NoCard, TRUE)

MCReports == {sms1, app1, again1, typed1, sms2, app2, typed2, said1, said2, repaid, owed, owing, owes, pays,
              coded, pushed, owed1, later}
MCStories ==
  {{sms1, app1, again1, typed1, app2},
   {sms1, app1, again1, typed1, typed2},
   {sms1, app1, sms2, app2, typed2},
   {sms1, sms2, said1, said2},
   {sms1, typed2, said1},
   {typed2, said1, said2},
   {app2, repaid, said1},
   {owed, owing, owes},
   {owed, owing, repaid},
   {owed, owes, repaid},
   {owes, pays, repaid},
   {owes, coded, repaid},
   {owes, coded, pushed, said2},
   {owes, coded, pushed, later}}
=============================================================================
