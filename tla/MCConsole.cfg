SPECIFICATION Spec
CONSTANTS
    Tabs = {t1, t2}
    Deciders = {t1}
    Approvals = {moving}
    Moving = {moving}
    Toggles = {strategy}
    Accounts = {acc}
    Nodes = {node}
    Rules = {rule}
    Base = 2
    Limits = {1, 2}
    Nothing = Nothing
 
PROPERTIES  ControlsAreGuarded
