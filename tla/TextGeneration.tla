---------------------------- MODULE TextGeneration ----------------------------
(***************************************************************************)
(* The text generation server (megatron/text_generation_server.py,          *)
(* tools/run_text_generation_server.py, megatron/text_generation): requests *)
(* arrive on threads of rank 0, one at a time holds the lock, and all       *)
(* pipeline stages run it together, token after token, with the keys and    *)
(* values of the earlier tokens kept on every stage.                        *)
(*                                                                          *)
(* One rank per pipeline stage (tensor-parallel ranks do the same things),  *)
(* rank 0 the first.  A broadcast, or a send and the receive it meets, ends *)
(* on all its ranks at once.  What a stage makes of a token is the sequence *)
(* of what it attended to, so that a value tells all it depends on.         *)
(***************************************************************************)
EXTENDS Integers, SequencesExt, FiniteSetsExt

CONSTANTS PipelineSizes,  \* numbers of stages
          Clients,        \* request threads, numbered
          Words,          \* tokens the model may sample, besides eod
          BeamWords,      \* and those that may extend a beam
          MaxBatch, MaxPrompt, MaxNew,   \* bounds of the requests
          BeamWidth,      \* beam_width
          MaxPositions,   \* --max-position-embeddings
          MaxTokens,      \* --max-tokens-to-oom
          Threshold       \* --inference-batch-times-seqlen-threshold

Eod  == 0
Idle == 0    \* no client holds the lock

(* The requests put() sends on to the ranks: tokens_to_generate = 0 needs   *)
(* logprobs, a beam search one prompt.                                      *)
Jobs ==
  LET Prompts(batches) == UNION {[1 .. n -> 1 .. MaxPrompt] : n \in batches}
  IN  [kind : {"generate"}, prompts : Prompts(1 .. MaxBatch), new : 1 .. MaxNew,
       logprobs : BOOLEAN, beam : {1}]
      \cup [kind : {"score"}, prompts : Prompts(1 .. MaxBatch), new : {0},
            logprobs : {TRUE}, beam : {1}]
      \cup [kind : {"beam"}, prompts : Prompts({1}), new : 1 .. MaxNew,
            logprobs : {FALSE}, beam : {BeamWidth}]

VARIABLES
  size,     \* pipeline_model_parallel_size
  rotary,   \* --use-rotary-position-embeddings
  request,  \* [client]: whether it waits for the lock
  lock,     \* the client whose request runs
  rank,     \* [rank]: what the rank is doing
  answer    \* the last answer, and to whom

vars == <<size, rotary, request, lock, rank, answer>>

Rank == 0 .. size - 1
LastRank == size - 1

(* A rank between two requests.                                             *)
Blank ==
  [pc |-> "loop", job |-> <<>>, tokens |-> <<>>, context |-> 0, prev |-> 0,
   start |-> 0, batch_offset |-> 0, sequence_offset |-> 0, memory |-> <<>>,
   output |-> <<>>, logits |-> <<>>, log_probs |-> <<>>, lengths |-> <<>>,
   finished |-> {}, done |-> FALSE, best_batches |-> <<>>, hyps |-> 0]

NoAnswer == [client |-> Idle, error |-> FALSE, job |-> <<>>, texts |-> <<>>, log_probs |-> <<>>]

-----------------------------------------------------------------------------
(* The requests                                                             *)

(* Token q of prompt b, not one of those the model samples.                 *)
PromptToken(b, q) == 10 * b + q

LongestPrompt(job) == Max(Range(job.prompts))
MaxSequence(job) ==
  IF job.kind = "beam" THEN Min({LongestPrompt(job) + job.new, MaxPositions})
  ELSE LongestPrompt(job) + job.new

(* _tokenize_prompts_and_batch: the rows padded with eod to one length,     *)
(* repeated beam_size times by the beam search.                             *)
Tokens(job) ==
  [b \in 1 .. Len(job.prompts) * job.beam |->
     LET row == IF job.kind = "beam" THEN 1 ELSE b
     IN  [q \in 1 .. LongestPrompt(job) + job.new |->
            IF q <= job.prompts[row] THEN PromptToken(row, q) ELSE Eod]]

(* The checks that raise a ValueError, on every rank.                       *)
Raises(job) ==
  IF job.kind = "beam" THEN LongestPrompt(job) >= MaxSequence(job)
  ELSE \/ MaxSequence(job) > MaxPositions
       \/ MaxSequence(job) * Len(job.prompts) > MaxTokens

(* What the values and prompts that are broadcast make a rank start with.   *)
Begin(job, r) ==
  IF Raises(job) THEN [Blank EXCEPT !.pc = IF r = 0 THEN "raised" ELSE "loop"]
  ELSE [Blank EXCEPT
          !.pc = "forward", !.job = job, !.tokens = Tokens(job),
          !.context = IF job.kind = "score" THEN LongestPrompt(job)
                      ELSE Min(Range(job.prompts)),
          !.lengths = IF r = LastRank THEN [b \in 1 .. Len(job.prompts) |-> MaxSequence(job)]
                      ELSE <<>>]

-----------------------------------------------------------------------------
(* One forward pass, in micro-batches (forward_step.py)                     *)

BatchSize(x) == Len(x.tokens)
SliceLen(x)  == x.context - x.prev     \* tokens[:, prev_context_length:context_length]

MicroBatchSize(x) ==
  IF size > 1 /\ BatchSize(x) * SliceLen(x) >= Threshold
  THEN Max({1, Threshold \div SliceLen(x)}) ELSE BatchSize(x)
ThisMicroBatch(x) == Min({MicroBatchSize(x), BatchSize(x) - x.start})

Embedded(x) ==
  [b \in 1 .. ThisMicroBatch(x) |->
     [q \in 1 .. SliceLen(x) |-> <<x.tokens[x.start + b][x.prev + q]>>]]

(* ParallelAttention with inference_params: the first pass of the first     *)
(* micro-batch allocates the memory; the keys are written at the offsets    *)
(* and read up to the end of the slice, and a token attends to those that   *)
(* are not after it.  Past the allocation the rotary embedding of the       *)
(* queries is that of the last position of the slice, for all of them.      *)
Forwarded(x, input) ==
  LET first  == x.memory = <<>>
      memory == IF first
                THEN [b \in 1 .. BatchSize(x) |-> [q \in 1 .. MaxSequence(x.job) |-> <<>>]]
                ELSE x.memory
      written == [b \in DOMAIN memory |-> [q \in DOMAIN memory[b] |->
        LET k == b - x.batch_offset  p == q - x.sequence_offset
        IN  IF k \in DOMAIN input /\ p \in 1 .. SliceLen(x) THEN input[k][p]
            ELSE memory[b][q]]]
      Attended(b, q) ==
        IF rotary /\ ~first /\ q < SliceLen(x) THEN <<>>
        ELSE SubSeq(written[x.batch_offset + b], 1, x.sequence_offset + q)
  IN  [x EXCEPT !.memory = written,
                !.output = [b \in DOMAIN input |-> [q \in 1 .. SliceLen(x) |-> Attended(b, q)]]]

(* Mutant: the stages in between wait for the new tokens too.               *)
AfterForward_AllCopy(x, r) ==
  CASE r = LastRank                             -> "sample"
    [] x.job.kind = "beam"                      -> "done"
    [] x.job.kind = "generate"                  -> "copy"
    [] x.job.kind = "score" /\ r = 0            -> "result"
    [] OTHER                                    -> "loop"

(* What a rank does when all micro-batches have gone through it.            *)
AfterForward(x, r) ==
  CASE r = LastRank                             -> "sample"
    [] x.job.kind = "beam"                      -> "done"
    [] x.job.kind = "generate" /\ r = 0         -> "copy"
    [] x.job.kind = "generate"                  -> "done"
    [] x.job.kind = "score" /\ r = 0            -> "result"
    [] OTHER                                    -> "loop"

(* Mutant: the batch offset is left where the last micro-batch put it.      *)
Adjusted_KeepsBatch(x) ==
  [x EXCEPT !.start = 0, !.sequence_offset = @ + SliceLen(x)]

(* The offsets once all micro-batches are done.                             *)
Adjusted(x) ==
  [x EXCEPT !.start = 0, !.batch_offset = 0, !.sequence_offset = @ + SliceLen(x)]

(* The end of a micro-batch, its output sent on or, on the last stage, put  *)
(* in the logits.                                                           *)
MicroBatchDone(x, r) ==
  LET end == x.start + ThisMicroBatch(x)
      y == [x EXCEPT !.output = <<>>, !.start = end,
                     !.batch_offset = @ + ThisMicroBatch(x),
                     !.logits = IF r = LastRank THEN @ \o x.output ELSE @]
  IN  IF end < BatchSize(x) THEN [y EXCEPT !.pc = "forward"]
      ELSE IF AfterForward(x, r) = "loop" THEN Blank
      ELSE [Adjusted(y) EXCEPT !.pc = AfterForward(x, r)]

Received(x, input, r) ==
  LET y == Forwarded(x, input)
  IN  IF r = LastRank THEN MicroBatchDone(y, r) ELSE [y EXCEPT !.pc = "send"]

-----------------------------------------------------------------------------
(* The actions                                                              *)

Update(ranks, To(_, _)) ==
  [r \in Rank |-> IF r \in ranks THEN To(rank[r], r) ELSE rank[r]]
At(ranks, p) == \A r \in ranks : rank[r].pc = p
Ends == {0, LastRank}

Init ==
  /\ size \in PipelineSizes /\ rotary \in BOOLEAN
  /\ request = [i \in Clients |-> "none"]
  /\ lock = Idle
  /\ rank = [r \in Rank |-> Blank]
  /\ answer = NoAnswer

(* A request comes in and waits for the lock.                               *)
Put(i) ==
  /\ request[i] = "none"
  /\ request' = [request EXCEPT ![i] = "waiting"]
  /\ UNCHANGED <<size, rotary, lock, rank, answer>>

Acquire(i) ==
  /\ request[i] = "waiting" /\ lock = Idle
  /\ lock' = i
  /\ request' = [request EXCEPT ![i] = "none"]
  /\ answer' = NoAnswer
  /\ UNCHANGED <<size, rotary, rank>>

(* send_do_generate, send_do_beam_search: the loop of the other ranks.      *)
SendChoice ==
  /\ lock # Idle /\ At(Rank, "loop")
  /\ rank' = Update(Rank, LAMBDA x, r : [x EXCEPT !.pc = "choice"])
  /\ UNCHANGED <<size, rotary, request, lock, answer>>

(* generate, beam_search: the values, the sizes, the prompts and their      *)
(* lengths are broadcast one after the other, and every rank checks them.   *)
SendPrompts(job) ==
  /\ At(Rank, "choice")
  /\ rank' = Update(Rank, LAMBDA x, r : Begin(job, r))
  /\ UNCHANGED <<size, rotary, request, lock, answer>>

(* The answer is returned inside the lock.                                  *)
Return(a) ==
  /\ lock' = Idle
  /\ answer' = a
  /\ UNCHANGED <<size, rotary, request>>

ReturnError ==
  /\ At({0}, "raised")
  /\ rank' = Update({0}, LAMBDA x, r : Blank)
  /\ Return([NoAnswer EXCEPT !.client = lock, !.error = TRUE])

FirstStage ==
  /\ At({0}, "forward")
  /\ rank' = Update({0}, LAMBDA x, r : Received(x, Embedded(x), r))
  /\ UNCHANGED <<size, rotary, request, lock, answer>>

(* send_to_next_pipeline_rank meets recv_from_prev_pipeline_rank_.          *)
NextStage(r) ==
  /\ r \in Rank \ {LastRank}
  /\ At({r}, "send") /\ At({r + 1}, "forward")
  /\ rank' = Update({r, r + 1}, LAMBDA x, s :
       IF s = r THEN MicroBatchDone(x, s) ELSE Received(x, rank[r].output, s))
  /\ UNCHANGED <<size, rotary, request, lock, answer>>

(* The log probability of the next token, at every position of the slice.   *)
Gathered(x, tokens, from) ==
  [b \in 1 .. BatchSize(x) |-> [q \in 1 .. Len(x.logits[b]) |->
     <<x.logits[b][q], tokens[b][from + q + 1]>>]]

Sample(new) ==
  LET x == rank[LastRank]
      started == {b \in 1 .. BatchSize(x) : x.job.prompts[b] <= x.context}
      tokens == [b \in 1 .. BatchSize(x) |->
        IF b \in started THEN [x.tokens[b] EXCEPT ![x.context + 1] = new[b]] ELSE x.tokens[b]]
      stop == {b \in started : new[b] = Eod}
  IN  rank' = [rank EXCEPT ![LastRank] = [x EXCEPT
           !.pc = "copy", !.tokens = tokens, !.logits = <<>>,
           !.log_probs = IF x.job.logprobs
                         THEN LET more == Gathered(x, tokens, x.prev)
                              IN  [b \in 1 .. BatchSize(x) |->
                                     (IF @ = <<>> THEN <<>> ELSE @[b]) \o more[b]]
                         ELSE @,
           !.lengths = [b \in 1 .. BatchSize(x) |->
             IF b \in stop \ x.finished THEN x.context + 1 ELSE @[b]],
           !.finished = @ \cup stop,
           !.done = x.finished \cup stop = 1 .. BatchSize(x)]]

(* score_and_return_on_first_stage.                                         *)
Score ==
  LET x == rank[LastRank]
      shorter == [x EXCEPT !.logits = [b \in 1 .. BatchSize(x) |-> Front(@[b])]]
  IN  rank' = [rank EXCEPT ![LastRank] = [x EXCEPT
        !.pc = "result", !.logits = <<>>, !.log_probs = Gathered(shorter, x.tokens, 0)]]

(* The beam search sorts the words of all beams (of the first beam at the   *)
(* first step) by score and takes the best: any distinct continuations, in  *)
(* any order.  Of the hypotheses, beams that stopped, only the number is     *)
(* kept here: a full set may make it done.                                  *)
BeamStep ==
  LET x == rank[LastRank]
      beams == IF x.prev = 0 THEN {1} ELSE 1 .. x.job.beam
  IN  \E next \in [1 .. x.job.beam -> beams \X BeamWords],
         hyps \in x.hyps .. Min({x.job.beam, x.hyps + Cardinality(beams)}), done \in BOOLEAN :
        /\ IsInjective(next)
        /\ done => hyps = x.job.beam
        /\ rank' = [rank EXCEPT ![LastRank] = [x EXCEPT
             !.pc = "done", !.logits = <<>>, !.hyps = hyps, !.done = done,
             !.tokens = [b \in 1 .. x.job.beam |->
               [x.tokens[next[b][1]] EXCEPT ![x.context + 1] = next[b][2]]],
             !.best_batches = [b \in 1 .. x.job.beam |-> next[b][1]]]]

LastStage ==
  /\ At({LastRank}, "sample")
  /\ \/ /\ rank[LastRank].job.kind = "generate"
        /\ \E new \in [1 .. BatchSize(rank[LastRank]) -> Words \cup {Eod}] : Sample(new)
     \/ rank[LastRank].job.kind = "score" /\ Score
     \/ rank[LastRank].job.kind = "beam" /\ BeamStep
  /\ UNCHANGED <<size, rotary, request, lock, answer>>

(* The next slice, or the end of the loop.                                  *)
NextSlice(x) ==
  IF x.context + 1 < MaxSequence(x.job)
  THEN [x EXCEPT !.pc = "forward", !.prev = x.context, !.context = @ + 1]
  ELSE [x EXCEPT !.pc = "end"]

(* copy_from_last_to_first_pipeline_stage: the new column of tokens.        *)
Copy ==
  /\ At(Ends, "copy")
  /\ rank' = Update(Ends, LAMBDA x, r :
       [x EXCEPT !.pc = IF x.job.kind = "beam" THEN "best" ELSE "done",
                 !.tokens = rank[LastRank].tokens])
  /\ UNCHANGED <<size, rotary, request, lock, answer>>

(* All ranks get done from the last stage and leave the loop together.      *)
(* Unless it is done, the beam search then copies all the tokens.           *)
Done ==
  LET stop == rank[LastRank].done
      To(x, r) ==
        IF x.job.kind = "beam"
        THEN [x EXCEPT !.done = stop,
                       !.pc = IF stop THEN "sizes" ELSE IF r \in Ends THEN "copy" ELSE "best"]
        ELSE LET next == IF stop THEN [x EXCEPT !.pc = "end"] ELSE NextSlice(x)
             IN  IF next.pc # "end" THEN next
                 ELSE IF r \in Ends THEN [next EXCEPT !.pc = "result"] ELSE Blank
  IN  /\ At(Rank, "done")
      /\ rank' = Update(Rank, To)
      /\ UNCHANGED <<size, rotary, request, lock, answer>>

(* Mutant: the memory is not reordered.                                     *)
Swapped_Not(x, best) == x.memory

(* swap_key_value_dict.                                                     *)
Swapped(x, best) == [b \in DOMAIN x.memory |-> x.memory[best[b]]]

BestBatches ==
  LET best == rank[LastRank].best_batches
      To(x, r) == LET next == NextSlice([x EXCEPT !.memory = Swapped(x, best),
                                                  !.best_batches = <<>>])
                  IN  IF next.pc = "end" THEN [next EXCEPT !.pc = "sizes"] ELSE next
  IN  /\ At(Rank, "best")
      /\ rank' = Update(Rank, To)
      /\ UNCHANGED <<size, rotary, request, lock, answer>>

(* The last stage adds the open beams unless done, and tells the sizes of   *)
(* the scores and of the tokens.                                            *)
Sizes ==
  /\ At(Rank, "sizes")
  /\ rank' = Update(Rank, LAMBDA x, r :
       IF r \in Ends THEN [x EXCEPT !.pc = "result", !.hyps = x.job.beam] ELSE Blank)
  /\ UNCHANGED <<size, rotary, request, lock, answer>>

(* The lengths, log probabilities or hypotheses reach the first stage, and  *)
(* rank 0 cuts its texts and log probabilities to the lengths and answers.  *)
Result ==
  LET x == rank[0]  last == rank[LastRank]
      length(b) == IF x.job.kind = "generate" THEN last.lengths[b] ELSE x.job.prompts[b]
      texts == IF x.job.kind = "beam" THEN <<>>
               ELSE [b \in 1 .. BatchSize(x) |-> SubSeq(x.tokens[b], 1, length(b))]
  IN  /\ At(Ends, "result")
      /\ rank' = Update(Ends, LAMBDA y, r : Blank)
      /\ Return([client |-> lock, error |-> FALSE, job |-> x.job, texts |-> texts,
                 log_probs |-> IF last.log_probs = <<>> THEN <<>>
                   ELSE [b \in DOMAIN texts |->
                           SubSeq(last.log_probs[b], 1, Len(texts[b]) - 1)]])

Serve ==
  \/ SendChoice
  \/ \E job \in Jobs : SendPrompts(job)
  \/ ReturnError
  \/ FirstStage
  \/ \E r \in Rank : NextStage(r)
  \/ LastStage
  \/ Copy
  \/ Done
  \/ BestBatches
  \/ Sizes
  \/ Result

Next ==
  \/ \E i \in Clients : Put(i) \/ Acquire(i)
  \/ Serve

(* The ranks go on while they can; clients need not come, and who gets the  *)
(* lock is not promised.                                                    *)
Spec == Init /\ [][Next]_vars /\ WF_rank(Serve)

-----------------------------------------------------------------------------
(* Properties                                                               *)

PCs == {"loop", "choice", "raised", "forward", "send", "sample", "copy", "done",
        "best", "sizes", "result"}

(* The type invariant: the offsets into the memory of keys and values are   *)
(* those of the slice and the micro-batch a stage works on.                 *)
TypeOK ==
  /\ size \in PipelineSizes /\ lock \in Clients \cup {Idle}
  /\ request \in [Clients -> {"none", "waiting"}]
  /\ DOMAIN rank = Rank
  /\ answer.client \in Clients \cup {Idle}
  /\ \A r \in Rank :
       LET x == rank[r]
       IN  /\ x.pc \in PCs
           /\ x.pc = "forward" => /\ x.job \in Jobs
                                  /\ x.sequence_offset = x.prev
                                  /\ x.batch_offset = x.start
                                  /\ x.start < BatchSize(x)
                                  /\ x.context < MaxSequence(x.job) + 1

(* What the whole model makes of the last token of a prefix: at[s][q] is    *)
(* the output of the first s stages for token q.                            *)
Computed(prefix) ==
  LET at[s \in 0 .. size] ==
        [q \in 1 .. Len(prefix) |-> IF s = 0 THEN <<prefix[q]>> ELSE SubSeq(at[s - 1], 1, q)]
  IN  at[size][Len(prefix)]

(* With rotary embeddings a first pass in several micro-batches gives all   *)
(* queries of the later ones the last position (see README).                *)
Misplaced(job) ==
  LET first == [Blank EXCEPT !.tokens = Tokens(job),
                  !.context = IF job.kind = "score" THEN LongestPrompt(job)
                              ELSE Min(Range(job.prompts))]
  IN  rotary /\ SliceLen(first) > 1 /\ MicroBatchSize(first) < BatchSize(first)

(* Every token is sampled from, and every log probability is that under,    *)
(* what the whole model makes of exactly the tokens before it: the caches   *)
(* of all stages, filled in slices and micro-batches and reordered by the   *)
(* beam search, agree with the text that is returned.  A text is its prompt *)
(* and goes on to the first eod or to the length asked for.                 *)
TokensFollowTheirPrefix ==
  LET x == rank[LastRank]
      a == answer
  IN  /\ x.pc = "sample" /\ ~Misplaced(x.job) =>
           \A b \in 1 .. BatchSize(x) :
             Last(x.logits[b]) = Computed(SubSeq(x.tokens[b], 1, x.context))
      /\ a.texts # <<>> => \A b \in DOMAIN a.texts :
           LET t == a.texts[b]
               n == a.job.prompts[b]
           IN  /\ \A q \in 1 .. n : t[q] = PromptToken(b, q)
               /\ a.job.kind = "generate" =>
                    /\ \A q \in n + 1 .. Len(t) - 1 : t[q] # Eod
                    /\ Len(t) = MaxSequence(a.job) \/ Last(t) = Eod
               /\ a.log_probs # <<>> /\ ~Misplaced(a.job) =>
                    a.log_probs[b] = [q \in 1 .. Len(t) - 1 |->
                                        <<Computed(SubSeq(t, 1, q)), t[q + 1]>>]

(* Whoever holds the lock is answered, by an error or a result, and the     *)
(* ranks are ready for the next request, whatever the stages do in which    *)
(* order and whichever of them stop early or raise.                         *)
Answered ==
  lock # Idle ~> (lock = Idle /\ answer # NoAnswer /\ At({0}, "loop"))
=============================================================================
