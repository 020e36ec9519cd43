------------------------------- MODULE TklAdc -------------------------------
(***************************************************************************)
(* tkl_adc.c over the driver of the converter (saradc.c, drv_model.c):     *)
(* threads that read channels through one static descriptor, adc_desc, and *)
(* the interrupt that fills its buffer.  A single sample is read as the    *)
(* average of those of MedianSize samples that are near their median; for  *)
(* the while data_buff_size in the shared descriptor is MedianSize.        *)
(***************************************************************************)
EXTENDS Integers, Sequences, FiniteSets, TLC

CONSTANTS
  Threads,
  Channels,    \* the channels of the port, 0..ADC_DEV_CHANNEL_SUM-1
  Configs,     \* list, the channels, and conv_cnt of each tkl_adc_init
  Values,      \* what the converter can measure
  MedianSize,  \* ADC_BUF_MEDIAN_SIZE
  CharMax,     \* the largest signed char
  SizeMod      \* data_buff_size has this many values, 256 (UINT8)

ASSUME TklAdcAssumption ==
  /\ Channels \subseteq Nat /\ Values \subseteq Nat
  /\ {MedianSize, CharMax, SizeMod} \subseteq Nat
  /\ MedianSize % 2 = 1 /\ MedianSize <= CharMax /\ CharMax < SizeMod
  /\ \A c \in Configs : c.list \in (SUBSET Channels) \ {{}} /\ c.conv_cnt \in Nat

VARIABLES
  config,    \* the last tkl_adc_init: g_adc_init and conv_cnt
  desc,      \* adc_desc: channel, data_buff_size, current_sample_data_cnt
  read_adc_buf,
  use_cnt,   \* openings of the device; 0 is DD_STATE_CLOSED
  sampling,  \* the channel the converter samples, 0 for none
  pc, todo,  \* where the call of each thread is, and its channels to read
  saved,     \* data_buff_size as the call found it
  top,       \* heap[0]
  ret,
  got,       \* what the last read of a channel stored for its caller
  raw,       \* (history) the samples taken for the read under way, until an overlap
  overlap    \* (history) two calls were under way at once since the init

portVars == <<config, desc, read_adc_buf, use_cnt, sampling, pc, todo, saved, top, ret, got,
              raw, overlap>>

Cells == 0..(SizeMod - 2)
Nothing == [i \in {} |-> 0]
First(S) == CHOOSE c \in S : \A d \in S : c <= d

(***************************************************************************)
(* The heap of the median, heap[i]'s children being heap[2i+1] and         *)
(* heap[2i+2].                                                             *)
(***************************************************************************)
Parent(p) == (p - 1) \div 2

MinHeapInsert(heap, heap_size, x) ==
  LET up[p \in 0..heap_size] ==
        IF p # 0 /\ heap[Parent(p)] > x
        THEN [up[Parent(p)] EXCEPT ![p] = heap[Parent(p)]]
        ELSE [i \in 0..heap_size |-> IF i = p THEN x ELSE IF i < heap_size THEN heap[i] ELSE 0]
  IN  up[heap_size]

\* A slip: the right child is only looked at when the left one is smaller than x.
MinHeapReplaceLeft(heap, heap_size, x) ==
  LET down[p \in 0..(heap_size - 1)] ==
        LET l == 2 * p + 1
        IN  IF l < heap_size /\ x > heap[l]
            THEN [down[l] EXCEPT ![p] = heap[l]] ELSE [heap EXCEPT ![p] = x]
  IN  down[0]

MinHeapReplace(heap, heap_size, x) ==
  LET Smaller(p, c) == c < heap_size /\ x > heap[c]
      down[p \in 0..(heap_size - 1)] ==
        LET l == 2 * p + 1
            r == 2 * p + 2
            Move(c) == [down[c] EXCEPT ![p] = heap[c]]
        IN  IF Smaller(p, l)
            THEN IF r < heap_size /\ heap[l] > heap[r] THEN Move(r) ELSE Move(l)
            ELSE IF Smaller(p, r) THEN Move(r) ELSE [heap EXCEPT ![p] = x]
  IN  down[0]

\* heap[0] after the first half of the n samples went into the heap and each
\* greater one of the rest replaced the top.
MedianOf(data, n) ==
  LET half == (n + 1) \div 2
      heap[i \in 0..n] ==
        IF i = 0 THEN Nothing
        ELSE IF i <= half THEN MinHeapInsert(heap[i - 1], i - 1, data[i - 1])
        ELSE IF heap[i - 1][0] < data[i - 1] THEN MinHeapReplace(heap[i - 1], half, data[i - 1])
        ELSE heap[i - 1]
  IN  heap[n][0]

Near(x, m) == ~(x > m + 5 \/ m > x + 5)

\* saradc_calculate (3450 stands for 2 V, 1720 for 1 V), in mV, then as a
\* 12-bit value of 2400 mV.
Convert(x) == (((1000 * (x - 1720)) \div 1730 + 1000) * 4096) \div 2400

(***************************************************************************)
PortInit ==
  /\ config = [list |-> {}, conv_cnt |-> 0]
  /\ desc = [channel |-> 0, data_buff_size |-> 0, current_sample_data_cnt |-> 0]
  /\ read_adc_buf = [i \in Cells |-> 0]
  /\ use_cnt = 0 /\ sampling = 0
  /\ pc = [t \in Threads |-> "idle"]
  /\ todo = [t \in Threads |-> {}]
  /\ saved = [t \in Threads |-> 0]
  /\ top = [t \in Threads |-> 0]
  /\ ret = [t \in Threads |-> "OPRT_OK"]
  /\ got = <<>>
  /\ raw = <<>> /\ overlap = FALSE

\* What tkl_adc_init leaves when it is called with a mode it does not know: it
\* has cleared the descriptor and the list before it looks at the mode.
Refused == [list |-> {}, conv_cnt |-> 0]

\* tkl_adc_init, by a caller that lets no read be under way.
AdcInit(c) ==
  /\ \A t \in Threads : pc[t] = "idle"
  /\ config' = c
  /\ desc' = [channel |-> 0, data_buff_size |-> c.conv_cnt % SizeMod,
              current_sample_data_cnt |-> 0]
  /\ got' = <<>>
  /\ overlap' = FALSE
  /\ UNCHANGED <<read_adc_buf, use_cnt, sampling, pc, todo, saved, top, ret, raw>>

\* tkl_adc_read_single_channel(ch) is the call with one channel, and
\* tkl_adc_read_data that with all of the list, in their order.  The latter's
\* test of the caller's len decides nothing: the channels are read all the same,
\* and their results overwrite its OPRT_COM_ERROR.  With an empty list, after a
\* refused init, a call returns at once and is not a step.
Call(t, chs) ==
  /\ pc[t] = "idle" /\ config.list # {}
  /\ pc' = [pc EXCEPT ![t] = "begin"]
  /\ todo' = [todo EXCEPT ![t] = chs]
  /\ ret' = [ret EXCEPT ![t] = "OPRT_OK"]
  /\ overlap' = (overlap \/ \E u \in Threads : pc[u] # "idle")
  /\ raw' = IF overlap' THEN <<>> ELSE raw
  /\ UNCHANGED <<config, desc, read_adc_buf, use_cnt, sampling, saved, top, got>>

Goto(t, from, to) == pc[t] = from /\ pc' = [pc EXCEPT ![t] = to]

Begin(t) ==
  /\ Goto(t, "begin", "clear")
  /\ desc' = [desc EXCEPT !.channel = First(todo[t]) + 1]
  /\ UNCHANGED <<config, read_adc_buf, use_cnt, sampling, todo, saved, top, ret, got, raw, overlap>>

\* The memset clears ADC_BUF_SIZE_MAX bytes, half of the buffer.
Clear(t) ==
  /\ Goto(t, "clear", "open")
  /\ read_adc_buf' = [i \in Cells |-> IF i < SizeMod \div 2 THEN 0 ELSE read_adc_buf[i]]
  /\ UNCHANGED <<config, desc, use_cnt, sampling, todo, saved, top, ret, got, raw, overlap>>

\* The section without interrupts.  ddev_open fails for an open device; the
\* ddev_close that follows the failure only takes back its count.
Opens(size) == use_cnt = 0 /\ size > 0

Open(t) ==
  LET size == desc.data_buff_size
      now == IF size = 1 THEN MedianSize ELSE size
  IN  /\ Goto(t, "open", IF Opens(now) THEN "wait" ELSE "failed")
      /\ saved' = [saved EXCEPT ![t] = size]
      /\ desc' = [desc EXCEPT !.current_sample_data_cnt = 0, !.data_buff_size = now]
      /\ use_cnt' = IF Opens(now) THEN 1 ELSE use_cnt
      /\ sampling' = IF Opens(now) THEN desc.channel ELSE sampling
      /\ raw' = IF Opens(now) THEN <<>> ELSE raw
      /\ got' = IF Opens(now) THEN <<>> ELSE got
      /\ UNCHANGED <<config, read_adc_buf, todo, top, ret, overlap>>

\* The end of one channel: the next one of tkl_adc_read_data, or the end.
Leave(t, r) ==
  /\ todo' = [todo EXCEPT ![t] = @ \ {First(@)}]
  /\ pc' = [pc EXCEPT ![t] = IF todo'[t] = {} THEN "idle" ELSE "begin"]
  /\ ret' = [ret EXCEPT ![t] = r]
  /\ saved' = [saved EXCEPT ![t] = 0]

\* The size is put back outside the section.
Failed(t) ==
  /\ pc[t] = "failed"
  /\ desc' = [desc EXCEPT !.data_buff_size = saved[t]]
  /\ Leave(t, "OPRT_COM_ERROR")
  /\ UNCHANGED <<config, read_adc_buf, use_cnt, sampling, top, got, raw, overlap>>

\* A bound: no property is about the values measured after an overlap.
Measurable == IF overlap THEN {First(Values)} ELSE Values

\* A slip: the converter is paused a sample early.
AllDoneEarly(cnt) == cnt + 1 >= desc.data_buff_size
AllDone(cnt) == cnt >= desc.data_buff_size

\* saradc_isr with one sample in the fifo: the last one pauses the converter.
Isr(v) ==
  LET cnt == desc.current_sample_data_cnt
      stored == cnt < desc.data_buff_size
      now == IF stored THEN cnt + 1 ELSE cnt
  IN  /\ sampling # 0
      /\ read_adc_buf' = IF stored THEN [read_adc_buf EXCEPT ![cnt] = v] ELSE read_adc_buf
      /\ raw' = IF stored /\ ~overlap THEN Append(raw, v) ELSE raw
      /\ desc' = [desc EXCEPT !.current_sample_data_cnt = now]
      /\ sampling' = IF AllDone(now) THEN 0 ELSE sampling
      /\ UNCHANGED <<config, use_cnt, pc, todo, saved, top, ret, got, overlap>>

\* The loop that waits for the last sample, and ddev_close.
Poll(t) ==
  /\ desc.current_sample_data_cnt = desc.data_buff_size
  /\ Goto(t, "wait", IF saved[t] = 1 THEN "median" ELSE "copy")
  /\ use_cnt' = 0 /\ sampling' = 0
  /\ UNCHANGED <<config, desc, read_adc_buf, todo, saved, top, ret, got, raw, overlap>>

Median(t) ==
  /\ Goto(t, "median", "average")
  /\ top' = [top EXCEPT ![t] = MedianOf(read_adc_buf, desc.data_buff_size)]
  /\ UNCHANGED <<config, desc, read_adc_buf, use_cnt, sampling, todo, saved, ret, got, raw,
                 overlap>>

\* A slip: what a median leaves behind is its own size.
SizeAfterMedian(t) == desc.data_buff_size
SizeAfter(t) == saved[t]

\* The loop that adds up the samples near m: sum and count after n of them.
NearTotal(data, n, m) ==
  LET total[i \in 0..n] ==
        IF i = 0 THEN [sum |-> 0, count |-> 0]
        ELSE IF Near(data[i - 1], m)
        THEN [sum |-> total[i - 1].sum + data[i - 1], count |-> total[i - 1].count + 1]
        ELSE total[i - 1]
  IN  total[n]

\* The average of the samples near the median; without any, sum / count is a
\* division by zero, and the thread is lost.
Average(t) ==
  LET total == NearTotal(read_adc_buf, desc.data_buff_size, top[t])
  IN  /\ Goto(t, "average", IF total.count = 0 THEN "lost" ELSE "copy")
      /\ desc' = [desc EXCEPT !.data_buff_size = SizeAfter(t)]
      /\ read_adc_buf' =
           IF total.count = 0 THEN read_adc_buf
           ELSE [read_adc_buf EXCEPT ![0] = total.sum \div total.count]
      /\ top' = [top EXCEPT ![t] = 0]
      /\ UNCHANGED <<config, use_cnt, sampling, todo, saved, ret, got, raw, overlap>>

\* The loop that stores the results.  Its index is a signed char, which never
\* reaches a data_buff_size beyond CharMax.
Copy(t) ==
  /\ pc[t] = "copy" /\ desc.data_buff_size <= CharMax
  /\ got' = [i \in 1..desc.data_buff_size |-> Convert(read_adc_buf[i - 1])]
  /\ Leave(t, "OPRT_OK")
  /\ UNCHANGED <<config, desc, read_adc_buf, use_cnt, sampling, top, raw, overlap>>

Runaway(t) ==
  /\ pc[t] = "copy" /\ desc.data_buff_size > CharMax
  /\ pc' = [pc EXCEPT ![t] = "lost"]
  /\ UNCHANGED <<config, desc, read_adc_buf, use_cnt, sampling, todo, saved, top, ret, got, raw,
                 overlap>>

\* A thread whose loop does not end, or whose division trapped.
Lost(t) == pc[t] = "lost" /\ UNCHANGED portVars

Step(t) == \/ Begin(t) \/ Clear(t) \/ Open(t) \/ Failed(t) \/ Poll(t)
           \/ Median(t) \/ Average(t) \/ Copy(t) \/ Runaway(t)

PortNext ==
  \/ \E c \in Configs \cup {Refused} : AdcInit(c)
  \/ \E t \in Threads : \/ Call(t, config.list) \/ \E ch \in config.list : Call(t, {ch})
                       \/ Step(t) \/ Lost(t)
  \/ \E v \in Measurable : Isr(v)

\* FreeRTOS runs a thread that can run, and the converter converts.
PortSpec == PortInit /\ [][PortNext]_portVars
            /\ \A t \in Threads : WF_portVars(Step(t))
            /\ WF_portVars(\E v \in Measurable : Isr(v))

(***************************************************************************)
(* Properties.                                                             *)
(***************************************************************************)

\* The definition of the median of a sequence of odd length.
IsMedian(m, s) ==
  /\ \E i \in DOMAIN s : s[i] = m
  /\ 2 * Cardinality({i \in DOMAIN s : s[i] < m}) < Len(s)
  /\ 2 * Cardinality({i \in DOMAIN s : s[i] > m}) < Len(s)

Size == config.conv_cnt % SizeMod

\* A read that none overlapped stores as many values as were configured.  Unless
\* that is one, they are those of the samples taken for it, in order; ...
SamplesInOrder ==
  got # <<>> /\ ~overlap =>
    /\ Len(got) = Size
    /\ Size # 1 => got = [i \in 1..Len(raw) |-> Convert(raw[i])]

\* ... a single value lies between those of two samples within 5 of the median
\* of the samples taken for it.
SingleIsNearMedian ==
  got # <<>> /\ ~overlap /\ Size = 1 =>
    \E m, lo, hi \in Values : /\ IsMedian(m, raw) /\ m - 5 <= lo /\ hi <= m + 5
                              /\ Convert(lo) <= got[1] /\ got[1] <= Convert(hi)

\* What a read that none overlapped stores is made of its own samples only.
ReadsOwnSamples == SamplesInOrder /\ SingleIsNearMedian

\* Once all calls are back the descriptor has the size it was configured with,
\* so that no later read stores more than its caller has room for, unless two
\* calls overlapped.
SizeRestored ==
  (\A t \in Threads : pc[t] = "idle") /\ ~overlap => desc.data_buff_size = Size

\* Every call returns, unless it was overlapped or its size exceeds the index
\* of the loop that stores.
ReadReturns ==
  \A t \in Threads : pc[t] # "idle" ~> (pc[t] = "idle" \/ overlap \/ Size > CharMax)
=============================================================================
