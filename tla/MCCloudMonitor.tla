--------------------------- MODULE MCCloudMonitor ---------------------------
(* A finished run, and one that fails while it is observed and is          *)
(* restarted: a workflow selector finds it first, the next commit of the   *)
(* inventory pins it.                                                      *)
EXTENDS CloudMonitor

job(name, status, conclusion) ==
  [name |-> name, status |-> status, conclusion |-> conclusion, overdue |-> FALSE]
run(status, conclusion, workflow) ==
  [status |-> status, conclusion |-> conclusion, head |-> "h", branch |-> "work",
   workflow |-> workflow, event |-> "push", own_workflow |-> FALSE]
asset   == [matches |-> 1, exact |-> 1, size |-> "fits", authentic |-> TRUE]
release == [summary |-> asset, parts |-> asset, native |-> "PASS"]

done(workflow) ==
  [run |-> run("completed", "success", workflow),
   jobs |-> {job("build", "completed", "success")}, releases |-> <<release>>]
busy(workflow) ==
  [run |-> run("in_progress", "none", workflow),
   jobs |-> {job("build", "in_progress", "none")}, releases |-> <<>>]
failed(workflow) ==
  [run |-> run("completed", "failure", workflow),
   jobs |-> {job("build", "completed", "failure")}, releases |-> <<>>]
elsewhere(s) == [s EXCEPT !.run.head = "other"]

pin(r) == [run |-> r, head |-> "h", branch |-> "work",
           production_jobs |-> {"build"}, selection |-> "pinned"]
newest == [workflow |-> "W", event |-> "any", optional |-> FALSE,
           production_jobs |-> {"build"}]
again  == [newest EXCEPT !.workflow = "V"]
never  == [newest EXCEPT !.workflow = "X", !.event = "push"]

MCLife == <<<<done("V")>>, <<busy("W"), failed("W"), busy("W")>>>>
MCInventories ==
  <<NoInventory, [pins |-> {pin(1), pin(2)}, selectors |-> <<again>>]>>
MCBootstrap == [pins |-> {pin(1)}, selectors |-> <<never, newest>>]
MCStatuses  == <<"in_progress">>

(* A pinned run that can never be read: its head is not the pinned one.    *)
MCLifeUnreadable == <<<<done("V")>>, <<done("V")>>, <<elsewhere(done("V"))>>>>
MCPinned == [pins |-> {pin(1), pin(2), pin(3)}, selectors |-> <<>>]
MCOneInventory == <<MCPinned>>
=============================================================================
