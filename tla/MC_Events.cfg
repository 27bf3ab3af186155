SPECIFICATION Spec
CONSTANTS
  node = node
  a = a
  Null = Null
  Keys <- MCKeys
  Records <- MCRecords
  Properties = {a}
  Values = {v1}
  Subscriptions <- MCSubscriptions
  MaxWaiting = 2
INVARIANT TypeOK
INVARIANT MirrorFollows
 
 
